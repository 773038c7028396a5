---------------------------- MODULE ChatIngress ----------------------------
(***************************************************************************)
(* One chat adapter of each kind with its world: keys that rotate, a clock *)
(* that moves, an agent catalogue that changes, cards that are shown to    *)
(* one user and clicked by any, references that agents keep, and pushes.   *)
(* Conversations are independent, so one card, one reference and one       *)
(* image at a time are enough; the adapter of a behaviour is chosen when   *)
(* it begins.  Which buckets are empty is chosen with every delivery;      *)
(* RateLimits models how they fill.                                        *)
(***************************************************************************)
EXTENDS TeamsInbound, GoogleChatInbound, TelegramInbound, DiscordInbound, PhoneInbound

CONSTANTS
    Channels,     \* the adapters a behaviour is about
    Users, Home,  \* Home[u]: the tenant of a user
    Owner,        \* the user whose turns leave things behind; any will do
    Configs,      \* the configurations a boot may be given
    OldKey, NewKey, ShortKey,
    Agents,       \* the catalogue at first
    MaxClock,     \* bound: the clock
    MaxChanges    \* bound: changes of the world in one behaviour

VARIABLES
    channel,
    cfg,      \* the adapter's configuration; Off before it is built
    ring,     \* the key ring, the signing key first
    clock,    \* starts at 1: zero is "never"
    agents,
    bound,    \* bound[u]: the agent u's conversation is bound to
    card,     \* what was last shown to whom, and when
    ref,      \* the sealed reference an agent holds
    window,   \* WhatsApp: service_window
    wrote,    \* wrote[u]: when a verified message of u came in (history)
    changes

chatVars == <<channel, cfg, ring, clock, agents, bound, card, ref, window, wrote, changes>>

\* A push that names nobody has "" for its addressee; the keys of a
\* configuration are a list.
ASSUME ChatConstants ==
    /\ "" \notin Users /\ IsFiniteSet(Agents)
    /\ ServiceWindow \in Nat /\ MaxClock \in Nat /\ MaxChanges \in Nat
    /\ \A c \in Configs : RingOf(c.keys) \in Seq({OldKey, NewKey, ShortKey})

Off == [identity |-> "off"]
NoCard == [token |-> NoToken, owner |-> "none", born |-> 0]
Up == cfg # Off
HomeTenants == {Home[u] : u \in Users}

ChatInit ==
    /\ channel \in Channels /\ cfg = Off /\ ring = <<>> /\ clock = 1 /\ agents = Agents
    /\ bound = [u \in Users |-> NoAgent] /\ card = NoCard /\ ref = NoCard
    /\ window = [u \in Users |-> Never] /\ wrote = [u \in Users |-> Never] /\ changes = 0

(***************************************************************************)
(* The adapter of the channel                                              *)
(***************************************************************************)
FromManifest(c) ==
    CASE channel = "msteams" -> TeamsFromManifest(c)
      [] channel = "google_chat" -> GoogleFromManifest(c)
      [] channel = "telegram" -> TelegramFromManifest(c)
      [] channel = "discord" -> DiscordFromManifest(c)
      [] channel = "whatsapp" -> WhatsAppFromManifest(c)
      [] channel \in {"twilio", "receipts"} -> TwilioFromManifest(c)
      [] channel = "rcs" -> RcsFromManifest(c)
      [] channel = "bridge" -> BridgeFromManifest(c)
      [] channel = "email" -> EmailFromManifest(c)
      [] OTHER -> SignalFromManifest(c)

Request(d, e) ==
    CASE channel = "msteams" -> TeamsRequest(d, e)
      [] channel = "google_chat" -> GoogleRequest(d, e)
      [] channel = "telegram" -> TelegramRequest(d, e)
      [] channel = "discord" -> DiscordRequest(d, e)
      [] channel = "whatsapp" -> WhatsAppRequest(d, e)
      [] channel = "twilio" -> TwilioRequest(d)
      [] channel = "rcs" -> RcsRequest(d)
      [] channel = "receipts" -> TwilioStatus(d, e)
      [] channel = "bridge" -> BridgeRequest(d)
      [] OTHER -> SignalRequest(d)

Flaws ==
    CASE channel = "msteams" -> TeamsFlaws [] channel = "google_chat" -> GoogleFlaws
      [] channel = "telegram" -> TelegramFlaws [] channel = "discord" -> DiscordFlaws
      [] OTHER -> PhoneFlaws

Kinds ==
    CASE channel = "msteams" -> TeamsKinds [] channel = "google_chat" -> GoogleKinds
      [] channel = "telegram" -> TelegramKinds [] channel = "discord" -> DiscordKinds
      [] channel = "email" -> {}      \* it only pushes
      [] OTHER -> PhoneKinds

ClickKinds == {"submit", "execute", "fetch", "click", "component", "modal"}

\* The status the platform sees, and what is recorded of the answer.
Status(o, answer) ==
    CASE channel = "google_chat" -> GoogleStatus(o, answer)
      [] channel = "telegram" -> TelegramStatus(o, answer)
      [] OTHER -> o.status

ReplyLine(o, answer, p) ==
    CASE channel = "msteams" -> TeamsReplyLine(o, answer, p)
      [] channel = "google_chat" -> GoogleReplyLine(o, answer)
      [] channel = "telegram" -> TelegramReplyLine(answer, p)
      [] channel = "discord" -> DiscordReplyLine(answer)
      [] channel = "whatsapp" -> WhatsAppReplyLine(answer, p)
      [] channel = "rcs" -> RcsReplyLine(answer, p)
      [] channel = "bridge" -> BridgeReplyLine(answer, p)
      [] channel = "signal" -> SignalReplyLine(answer, p)
      [] OTHER -> TwilioReplyLine(answer, p)

Push(q, e) ==
    CASE channel = "msteams" -> TeamsPush(q, e)
      [] channel = "google_chat" -> GooglePush(q, e)
      [] channel = "whatsapp" -> WhatsAppPush(q, e)
      [] channel = "email" -> EmailPush(q)
      [] channel = "rcs" -> RcsPush(q)
      [] OTHER -> TwilioPush(q)

(***************************************************************************)
(* What can arrive                                                         *)
(***************************************************************************)
Full == [b \in {"adapter"} \cup HomeTenants |-> 1]
Levels == {Full} \cup {[Full EXCEPT ![b] = 0] : b \in DOMAIN Full}

Env(u, lv) ==
    [level |-> lv, ring |-> ring, now |-> clock, agents |-> agents, binding |-> bound[u],
     default |-> NoAgent, cfg |-> cfg, stamped |-> window[u]]

Says(verb, name, rest) == [verb |-> verb, name |-> name, rest |-> rest]
Greeting == Says("say", "", "hi")
Texts == {Greeting, Says("agents", "", ""), Says("use", "a", ""), Says("at", "b", "hi")}

Delivery(kind, flaws, u, token, text, date, part) ==
    [kind |-> kind, flaws |-> flaws, by |-> u, tenant |-> Home[u], token |-> token,
     text |-> text, inputs |-> [f \in {"x"} |-> IF u = card.owner THEN "v" ELSE ""],
     date |-> date, part |-> part, values |-> IF part = "select" THEN 1 ELSE 0,
     fields |-> << "k" >>]

\* A message date is the platform's: that of the card, or one ahead of us.
Dates == IF channel = "telegram" THEN {card.born, clock + CallbackSkew + 1} ELSE {card.born}
Parts == IF channel = "discord" THEN {"button", "select", "other"} ELSE {"none"}
ImageToken ==
    LET e == [ring |-> << OldKey >>, now |-> card.born]
    IN IF channel = "google_chat" THEN GoogleImageToken([tenant |-> Home[Owner]], e, "dash")
       ELSE TeamsImageToken([tenant |-> Home[Owner]], e)

Clicks ==
    {Delivery(k, {}, u, t, Greeting, date, part) :
        k \in Kinds \cap (ClickKinds \cup {"image"}), u \in Users,
        t \in {card.token, ref.token, ImageToken}, date \in Dates, part \in Parts}
Messages ==
    {Delivery(k, {}, u, NoToken, text, clock, "none") :
        k \in Kinds \ (ClickKinds \cup {"image"}), u \in Users, text \in Texts}
Flawed ==
    {Delivery(k, flaws, Owner, card.token, Greeting, card.born, "button") :
        k \in Kinds, flaws \in {{f} : f \in Flaws}}
Own(ds) == {d \in ds : d.by = Owner}

Outcome(d, lv) == Judge(Request(d, Env(d.by, lv)), d, Env(d.by, lv))

PushFlaws ==
    CASE channel \in {"msteams", "google_chat"} -> {"noRef", "badRef"}
      [] channel = "email" -> {"sender", "empty", "notSurface", "notTaken"}
      [] OTHER -> {"sender", "category", "empty"}
Pushes ==
    [tenant : HomeTenants \cup {""}, to : Users, home : HomeTenants, token : {ref.token, card.token},
     flaws : {{}} \cup {{f} : f \in PushFlaws},
     category : IF channel \in {"msteams", "google_chat", "email"} THEN {"none"}
                ELSE {"none", "utility"}]
SoundPushes == {q \in Pushes : q.home = Home[q.to]}
PushOutcome(q) == Judge(Push(q, Env(q.to, Full)), q, Env(q.to, Full))

\* A turn's answer: one with a chart that can be drawn or not ("undrawn").
Answers == {"text", "card", "chart", "undrawn", "empty", "error", "provider", "open", "timeout", "limited"}
PostResults == {"ok", "refused", "busy"}

(***************************************************************************)
(* Steps                                                                   *)
(***************************************************************************)
Changed(n) == changes + n <= MaxChanges /\ changes' = changes + n

\* The settings a channel does not have are off.
Fitting(c) ==
    /\ (c.router \/ c.courier) => channel \in {"msteams", "google_chat"}
    /\ c.polled => channel = "telegram"

Boot(c, flaws) ==
    /\ ~Up /\ Fitting(c)
    /\ Judge(FromManifest(c), [flaws |-> flaws], [level |-> Full]).status = 0
    /\ cfg' = c /\ ring' = RingOf(c.keys)
    /\ UNCHANGED <<channel, clock, agents, bound, card, ref, window, wrote, changes>>

\* Buttons are signed for the user the answer goes to.
CardTools ==
    CASE channel = "msteams" -> {"tool", "send", "use", "refresh", "open", "embed"}
      [] channel = "google_chat" -> {"tool", "use", "open"}
      [] channel \in {"telegram", "discord"} -> {"tool"}
      [] OTHER -> {}

CardArgs(tool) ==
    CASE tool = "use" -> {"a1"}
      [] tool = "send" -> {[kind |-> "template", template |-> << [fields |-> {"x"}, optional |-> FALSE] >>]}
      [] channel = "discord" -> {[names |-> {}, set |-> {}], [names |-> {"k"}, set |-> {}],
                                 [names |-> {"k"}, set |-> {"k"}]}
      [] OTHER -> {"-"}

CardToken(d, e, tool, args, size) ==
    CASE channel = "msteams" -> TeamsCardToken(d, e, tool, args, size)
      [] channel = "google_chat" -> GoogleCardToken(d, e, tool, args, size)
      [] channel = "discord" -> DiscordCardToken(d, e, tool, args, size)
      [] OTHER -> TelegramCardToken(d, e, tool, args, size)

Reference(d, e) ==
    IF channel = "msteams" THEN TeamsReference(d, e) ELSE GoogleReference(d, e)

\* A turn that is answered with a card: it is shown if it was posted, and
\* not if its token would not fit.
AnsweredByCard(d) ==
    LET o == Outcome(d, Full) IN "turn" \in o.did /\ ReplyLine(o, "card", "ok") = "posted"

Show(d, tool, args, size) ==
    /\ Changed(1)
    /\ card' = [token |-> CardToken(d, Env(d.by, Full), tool, args, size),
                owner |-> d.by, born |-> clock]
    /\ UNCHANGED <<channel, cfg, ring, clock, agents, bound, ref, window, wrote>>

\* The agent of a turn keeps the reference it was sent with.
Keep(d) ==
    /\ channel \in {"msteams", "google_chat"} /\ "turn" \in Outcome(d, Full).did /\ Changed(1)
    /\ ref' = [token |-> Reference(d, Env(d.by, Full)), owner |-> d.by, born |-> clock]
    /\ ref'.token # NoToken
    /\ UNCHANGED <<channel, cfg, ring, clock, agents, bound, card, window, wrote>>

\* The agent a turn is routed to, and the binding that leaves.
Routed(d, e) ==
    IF d.kind \in ClickKinds /\ d.token.tool = "use" THEN ConfirmPick(d.token.args, "text", e.agents)
    ELSE Resolve(d.text, e.binding, e.default, e.agents)

Bind(d) ==
    /\ "bind" \in Outcome(d, Full).did /\ Routed(d, Env(d.by, Full)).bind # NoAgent /\ Changed(1)
    /\ bound' = [bound EXCEPT ![d.by] = Routed(d, Env(d.by, Full)).bind]
    /\ UNCHANGED <<channel, cfg, ring, clock, agents, card, ref, window, wrote>>

\* A message to WhatsApp Cloud, which may open its service window.
Write(d, lv) ==
    /\ channel = "whatsapp" /\ d.kind = "message" /\ Changed(1)
    /\ wrote' = IF d.flaws \cap {"signature", "body", "sender"} = {}
                THEN [wrote EXCEPT ![d.by] = clock] ELSE wrote
    /\ window' = IF "window" \in Outcome(d, lv).did THEN [window EXCEPT ![d.by] = clock]
                 ELSE window
    /\ UNCHANGED <<channel, cfg, ring, clock, agents, bound, card, ref>>

Tick(t) ==
    /\ t \in (clock + 1)..MaxClock /\ Changed(1) /\ clock' = t
    /\ UNCHANGED <<channel, cfg, ring, agents, bound, card, ref, window, wrote>>

\* A deploy with a new key in front, and later one without the old.
Rotate ==
    /\ ring = << OldKey >> /\ Changed(1) /\ ring' = << NewKey, OldKey >>
    /\ UNCHANGED <<channel, cfg, clock, agents, bound, card, ref, window, wrote>>
Retire ==
    /\ ring = << NewKey, OldKey >> /\ Changed(1) /\ ring' = << NewKey >>
    /\ UNCHANGED <<channel, cfg, clock, agents, bound, card, ref, window, wrote>>

Revoke(a) ==
    /\ cfg.router /\ a \in agents /\ Changed(1) /\ agents' = agents \ {a}
    /\ UNCHANGED <<channel, cfg, ring, clock, bound, card, ref, window, wrote>>

Shows ==
    \E d \in {m \in Own(Messages) : AnsweredByCard(m)}, tool \in CardTools, size \in {1, 4} :
        \E args \in CardArgs(tool) : Show(d, tool, args, size)

ChatNext ==
    \/ \E c \in Configs, f \in {"none", "table", "secret"} : Boot(c, {f})
    \/ /\ Up
       /\ \/ Shows
          \/ \E d \in Own(Messages) : Keep(d)
          \/ \E d \in Own(Clicks \cup Messages) : Bind(d)
          \/ \E d \in Own(Messages) \cup Flawed, lv \in Levels : Write(d, lv)
          \/ \E t \in 1..MaxClock : Tick(t)
          \/ Rotate \/ Retire
          \/ \E a \in agents : Revoke(a)

(***************************************************************************)
(* Properties: of every delivery that could arrive in the state.           *)
(***************************************************************************)
InRing(token) == \E i \in DOMAIN ring : ring[i] = token.mac.key
Acts == {"turn", "refresh", "bind"}

\* A click does something only with a token that was signed, under a key the
\* ring still holds, for that very user, tenant and platform, and that is not
\* past its life (rounded up to the hour; on Telegram and Discord the age of
\* the message counts too); a reference or an image link is no card.  And for
\* its user a card goes on working while the keys are rotated, until it
\* expires or its key is retired.
CardBound ==
    Up => /\ \A d \in Clicks \cup Flawed :
               (d.kind \in ClickKinds /\ Outcome(d, Full).did \cap Acts # {}) =>
                   /\ d.token = card.token /\ card.owner = d.by /\ InRing(card.token)
                   /\ clock <= card.born + (IF channel = "telegram" THEN CallbackTTL ELSE CardTTL + Hour)
                   /\ (channel = "discord" /\ d.kind = "component") => clock <= card.born + CallbackTTL
          /\ (card.token # NoToken /\ InRing(card.token)) =>
               \A d \in Clicks :
                   (/\ d.token = card.token /\ d.by = card.owner /\ d.date = card.born
                    /\ d.kind \in ClickKinds /\ clock <= card.born + CallbackTTL
                    /\ clock <= card.born + CardTTL)
                   => Outcome(d, Full).status # 401

\* A message whose own turn makes the platform deliver it again has not been
\* answered: neither a 5xx nor the status a failed turn is given instead of
\* the usual one (telegram_status_for's 429 too) comes with an answer posted,
\* for the last answer of a form no more than for a command.  What the other
\* messages of a batch do to it is Redelivery's.
RetriedUnanswered ==
    Up => \A d \in Own(Clicks \cup Messages) :
        LET o == Outcome(d, Full) IN
        "turn" \in o.did => \A answer \in Answers, p \in PostResults :
            (Status(o, answer) >= 500 \/ Status(o, answer) # o.status) =>
                ReplyLine(o, answer, p) # "posted"

\* A routed turn goes to an agent of the catalogue as it is now: neither an
\* old chooser card nor a sticky binding reaches one that was taken away.
PickEntitled ==
    Up => \A d \in Clicks \cup Messages :
        LET o == Outcome(d, Full) IN
        (cfg.router /\ "turn" \in o.did /\ (d.kind = "message" \/ d.token.tool = "use")) =>
            Routed(d, Env(d.by, Full)).agent \in {a.id : a \in agents}

\* An agent's push reaches only a conversation of the caller's own tenant,
\* and only the user it names.
Sealed == channel \in {"msteams", "google_chat"}
PushBound ==
    (Up /\ channel \notin {"telegram", "discord", "signal", "bridge"}) =>
        \A q \in SoundPushes :
            ({"push", "template"} \cap PushOutcome(q).did # {}) =>
                IF Sealed THEN /\ q.token = ref.token /\ Home[ref.owner] = q.tenant
                               /\ q.to = ref.owner
                ELSE q.home = q.tenant \/ (cfg.identity = "upstream" /\ q.tenant # "")

\* Free text is pushed to a WhatsApp user only within the service window of
\* a message that user really sent.
FreeFormInWindow ==
    (Up /\ channel = "whatsapp") =>
        \A q \in SoundPushes :
            "push" \in PushOutcome(q).did =>
                wrote[q.to] # Never /\ clock < wrote[q.to] + ServiceWindow

\* Teams too: a reference sealed before a rotation is good until its key is
\* retired.
SealSurvivesRotation ==
    (Up /\ Sealed /\ ref # NoCard /\ InRing(ref.token) /\ (channel = "google_chat" => cfg.courier)) =>
        \A q \in SoundPushes :
            (q.token = ref.token /\ q.flaws = {} /\ q.tenant = Home[ref.owner] /\ q.to = ref.owner)
            => PushOutcome(q).status = 200
=============================================================================
