--------------------------- MODULE DiscordInbound ---------------------------
(***************************************************************************)
(* What the Discord adapter does with one interaction.  The fields of a    *)
(* delivery d and of the adapter e are those of TeamsInbound; a component  *)
(* has d.part ("button", "select", "other" or "none") and d.values, the    *)
(* values the user chose; a modal has d.fields, the names of its inputs.   *)
(* The args of a token are slots: args.names, of which args.set are taken. *)
(***************************************************************************)
EXTENDS Gates, Correlation

DiscordCap == 2            \* DISCORD_MAX_CUSTOM_ID

DiscordFlaws == {"signature", "clock", "body", "sender", "noData", "noToken", "noDate",
                 "badDate", "noName", "option"}
DiscordKinds == {"ping", "command", "component", "modal", "other"}

\* from_manifest: each line is a reason it refuses to build the adapter.
DiscordFromManifest(cfg) ==
    << Refuse("kind", 1, Anon), Refuse("signatureKind", 1, Anon),
       SupportedKind(cfg, {"table"}), Refuse("publicKey", 1, Anon),
       Refuse("outboundToken", 1, Anon) >>
    \o ParseTable \o << RefuseIf(RingRefused(cfg.keys), 1, Anon), Done(0) >>

\* verify_signature holds the request's own timestamp to the clock before it
\* looks at the signature, which covers both.
DiscordSignature == << Refuse("clock", 401, Anon), Refuse("signature", 401, Anon) >>

\* The sender and the tenant's share, at the head of the three handlers.
DiscordSender(d) ==
    TableResolve \o << Do("known"), Take(d.tenant, Sub), Refuse("noData", 400, Sub) >>

DiscordBinding(d) == Binding("discord", d.tenant, d.by)
DiscordVerdict(d, e) ==
    DecodeBoundAny(d.token, e.ring, DiscordCap, DiscordBinding(d), e.now)

\* A dispatch whose answer is the response of the interaction: of a click and
\* of a command it may be a modal, of a modal it may not.
DiscordTurn == << Do("turn"), Do("modal"), Do("respond"), Done(200) >>
DiscordCommandTurn == DiscordTurn
DiscordModalTurn == << Do("turn"), Do("respond"), Done(200) >>

DiscordStale(d, e) == d.date > 0 /\ e.now > d.date + CallbackTTL
DiscordEarly(d, e) == d.date > e.now + CallbackSkew

\* What the user chose must fit the component: a select fills the one empty
\* slot of its token with its one value, a button brings nothing.
DiscordFits(d) ==
    CASE d.part = "button" -> d.values = 0
      [] d.part = "select" -> /\ d.values = 1 /\ Cardinality(d.token.args.names) = 1
                              /\ d.token.args.set = {}
      [] OTHER -> FALSE

\* handle_message_component
DiscordComponent(d, e) ==
    DiscordSender(d)
    \o << Refuse("noToken", 400, Sub), Refuse("noDate", 401, Sub), Refuse("badDate", 400, Sub),
          RefuseIf(DiscordStale(d, e), 401, Sub), RefuseIf(DiscordEarly(d, e), 401, Sub),
          RefuseIf(DiscordVerdict(d, e) # "ok", 401, Sub),
          RefuseIf(DiscordVerdict(d, e) = "ok" /\ ~DiscordFits(d), 400, Sub) >>
    \o DiscordTurn

\* options_to_args: a value that is not of its option's type, a type it does
\* not know, a name given twice.
DiscordOptions == Refuse("option", 400, Sub)

\* handle_application_command
DiscordCommand(d) ==
    DiscordSender(d) \o << Refuse("noName", 400, Sub), DiscordOptions >> \o DiscordCommandTurn

\* The inputs of a modal are exactly the empty slots of its token.
DiscordModalFits(d) ==
    /\ "" \notin ToSet(d.fields) /\ IsInjective(d.fields)
    /\ ToSet(d.fields) = d.token.args.names /\ d.token.args.set = {}

\* handle_modal_submit: no date is checked; the token's expiry is.
DiscordModal(d, e) ==
    DiscordSender(d)
    \o << Refuse("noToken", 400, Sub), RefuseIf(DiscordVerdict(d, e) # "ok", 401, Sub),
          RefuseIf(DiscordVerdict(d, e) = "ok" /\ ~DiscordModalFits(d), 400, Sub) >>
    \o DiscordModalTurn

\* handle_interaction.  A kind that is not supported is audited and answered
\* with a 200.
DiscordRequest(d, e) ==
    DiscordSignature
    \o << Do("verified"), Take("adapter", Anon), Refuse("body", 400, Anon) >>
    \o CASE d.kind = "ping" -> << Done(200) >>
         [] d.kind = "command" -> DiscordCommand(d)
         [] d.kind = "component" -> DiscordComponent(d, e)
         [] d.kind = "modal" -> DiscordModal(d, e)
         [] OTHER -> << RefuseIf(TRUE, 200, Anon) >>

\* try_render_surface and try_render_form_modal sign for the user they
\* answer, for CARD_TOKEN_TTL_SECS.
DiscordCardToken(d, e, tool, args, size) ==
    EncodeBound(tool, args, Signing(e.ring), DiscordBinding(d), e.now + CardTTL, size, DiscordCap)

\* rasterize_dashboard leaves a line of its own.
DiscordRasterLine(answer) == IF answer = "chart" THEN "posted" ELSE "dropped"

\* build_response_with_rasterizer: a dashboard that cannot be drawn leaves a
\* placeholder in an answer that is posted all the same.
DiscordRespond(answer) ==
    IF answer \in {"chart", "undrawn"} THEN << DiscordRasterLine(answer), "posted" >>
    ELSE << "posted" >>

\* The answer is the response, so it is posted, or an error or nothing was.
DiscordReplyLine(answer) ==
    IF answer \in {"text", "card", "chart", "undrawn"} THEN Last(DiscordRespond(answer))
    ELSE "dropped"
=============================================================================
