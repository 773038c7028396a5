---------------------------- MODULE Correlation ----------------------------
(***************************************************************************)
(* The signed tokens that cards, image links and conversation references   *)
(* carry (triton-correlation).  A MAC is perfect: a token records what it  *)
(* was computed over, the key and the binding, and verifies against        *)
(* nothing else.  A bound token does not contain its binding; it is bound  *)
(* because its key is derived from it.                                     *)
(***************************************************************************)
EXTENDS Naturals, Sequences, SequencesExt, FiniteSets

CONSTANTS Hour,          \* ticks of the clock in the unit an expiry is kept in
          CardTTL,       \* CARD_TOKEN_TTL_SECS, IMG_TOKEN_TTL_SECS (7 days)
          CallbackTTL,   \* CALLBACK_TTL_SECS of Telegram and Discord
          CallbackSkew   \* CALLBACK_FUTURE_SKEW_SECS

ASSUME TokenConstants ==
    /\ Hour \in Nat \ {0} /\ CardTTL \in Nat /\ CallbackTTL \in Nat /\ CallbackSkew \in Nat

NoToken == [tool |-> "none"]
Never == 0        \* a token without an expiry
Unbound == [platform |-> "-", tenant |-> "-", sender |-> "-"]
Binding(p, t, s) == [platform |-> p, tenant |-> t, sender |-> s]

\* KeyRing::parse: blanks are dropped, then an empty ring or a key under
\* MIN_KEY_LEN is refused.  A key is a record [id, len].
MinKeyLen == 2
RingOf(spec) == SelectSeq(spec, LAMBDA k : k.len > 0)
RingRefused(spec) ==
    RingOf(spec) = <<>> \/ \E i \in DOMAIN RingOf(spec) : RingOf(spec)[i].len < MinKeyLen
Signing(ring) == ring[1]

\* Mutant: the derivation leaves out the sender.
TenantKeyNoSender(key, b) == [key |-> key, for |-> [b EXCEPT !.sender = "-"]]

\* tenant_key: one derived key for every platform, tenant and sender.
TenantKey(key, b) == [key |-> key, for |-> b]

Raw(key) == [key |-> key, for |-> Unbound]

CeilHours(t) == (t + Hour - 1) \div Hour

\* encode_bound and encode_with_cap: an empty tool name, or a token over the
\* platform's cap, yields none.  `size` stands for the token's length.
EncodeBound(tool, args, key, b, expiry, size, cap) ==
    IF tool = "" \/ size > cap THEN NoToken
    ELSE [tool |-> tool, args |-> args, mac |-> TenantKey(key, b), size |-> size,
          exp |-> IF expiry = Never THEN Never ELSE CeilHours(expiry)]

EncodeWithCap(tool, args, key, size, cap) ==
    IF tool = "" \/ size > cap THEN NoToken
    ELSE [tool |-> tool, args |-> args, mac |-> Raw(key), size |-> size, exp |-> Never]

\* decode_parsed: the MAC is checked before the body is looked at.
DecodeWithCap(t, key, cap) ==
    IF t.tool = "none" \/ t.size > cap THEN "malformed"
    ELSE IF t.mac # Raw(key) THEN "signature"
    ELSE "ok"

DecodeBound(t, key, cap, b, now) ==
    IF t.tool = "none" \/ t.size > cap THEN "malformed"
    ELSE IF t.mac # TenantKey(key, b) THEN "signature"
    ELSE IF t.exp # Never /\ t.exp * Hour < now THEN "body"
    ELSE "ok"

\* try_ring over the verdicts of the ring's keys, newest first: the first key
\* that verifies decides; a body error ends the search, because its MAC was
\* right; the first key's error is the answer when none verifies.
TryRing(verdicts) ==
    LET verified == {i \in DOMAIN verdicts : verdicts[i] \in {"ok", "body"}}
    IN verdicts[IF verified = {} THEN 1 ELSE Min(verified)]

DecodeBoundAny(t, ring, cap, b, now) ==
    TryRing([i \in DOMAIN ring |-> DecodeBound(t, ring[i], cap, b, now)])

DecodeWithCapAny(t, ring, cap) ==
    TryRing([i \in DOMAIN ring |-> DecodeWithCap(t, ring[i], cap)])

(***************************************************************************)
(* The text a `__send_message` card sends (message.rs).  A template is a   *)
(* sequence of parts [fields, optional]; inputs maps a field to its value, *)
(* "" when it was left empty.                                              *)
(***************************************************************************)
PartMissing(part, inputs) == {f \in part.fields : inputs[f] = ""}

MissingFields(template, inputs) ==
    UNION {PartMissing(template[i], inputs) :
             i \in {j \in DOMAIN template : ~template[j].optional}}

\* fill_template: an optional part with an empty field is left out whole.
FilledParts(template, inputs) ==
    SelectSeq(template, LAMBDA part : PartMissing(part, inputs) = {})

RequiredFields(template) ==
    UNION {template[i].fields : i \in {j \in DOMAIN template : ~template[j].optional}}

\* resolve: a fixed text, or a template with everything it requires.
ResolveMessage(args, inputs) ==
    CASE args.kind = "text" -> IF args.text = "" THEN "empty" ELSE "ok"
      [] args.kind = "template" ->
           IF MissingFields(args.template, inputs) # {} THEN "missing"
           ELSE IF FilledParts(args.template, inputs) = <<>> THEN "empty" ELSE "ok"
      [] OTHER -> "empty"
=============================================================================
