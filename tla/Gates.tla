------------------------------- MODULE Gates -------------------------------
(***************************************************************************)
(* The shape every inbound handler of Triton has: a list of gates, tried   *)
(* in order.  A gate that does not hold ends the delivery with a status,   *)
(* audited (record_rejection, which names the sender or "-") or silently   *)
(* (an early return); one that holds may spend a rate-limit token or do    *)
(* something.  A channel module writes each handler as its list of gates;  *)
(* Judge says what one delivery comes to.                                  *)
(*                                                                         *)
(* A delivery d names its faults in d.flaws; e is the adapter's state, of  *)
(* which the gates read e.level (the tokens each bucket has).              *)
(***************************************************************************)
EXTENDS Naturals, Sequences, SequencesExt

Anon == "-"          \* a rejection recorded before the sender is known
Sub == "sub"         \* a rejection that names the resolved sender
Silent == "none"     \* no rejection recorded

Gate(flaw, when, status, who, takes, does) ==
    [flaw |-> flaw, when |-> when, status |-> status, who |-> who,
     takes |-> takes, does |-> does]

Refuse(flaw, status, who) == Gate(flaw, FALSE, status, who, "", "")
RefuseIf(cond, status, who) == Gate("", cond, status, who, "", "")
Leave(flaw, status) == Gate(flaw, FALSE, status, Silent, "", "")
LeaveIf(cond, status) == Gate("", cond, status, Silent, "", "")
Take(bucket, who) == Gate("", FALSE, 429, who, bucket, "")
Do(what) == Gate("", FALSE, 0, Silent, "", what)
Done(status) == LeaveIf(TRUE, status)

Fails(g, d, e) ==
    \/ g.flaw \in d.flaws
    \/ g.when
    \/ g.takes # "" /\ e.level[g.takes] = 0

\* What a list of gates that ends with Done makes of a delivery.
Judge(gates, d, e) ==
    LET n == Min({i \in DOMAIN gates : Fails(gates[i], d, e)})
        passed == 1..(n - 1)
    IN [status |-> gates[n].status,
        line   |-> gates[n].who,
        took   |-> {gates[i].takes : i \in passed} \ {""},
        did    |-> {gates[i].does : i \in passed} \ {""}]

(***************************************************************************)
(* Identity: a table of senders, or a tool of an upstream that is asked    *)
(***************************************************************************)
\* require_supported_kind
SupportedKind(cfg, kinds) == RefuseIf(cfg.identity \notin kinds, 1, Anon)

\* SenderTable::parse: every entry has a subject and a tenant that are not
\* reserved.
ParseTable == << Refuse("table", 1, Anon), Refuse("tableEntry", 1, Anon) >>

\* UpstreamResolver::new: a tool the process does not serve itself.
ParseResolver == << Refuse("resolverTool", 1, Anon), Refuse("resolverCollision", 1, Anon) >>

\* UpstreamResolver::resolve dispatches as the identity resolver; what comes
\* back is held to the rules of a table entry.
UpstreamResolve == << Refuse("noSender", 401, Anon), Do("resolve"), Refuse("sender", 401, Anon) >>

\* SenderTable::resolve
TableResolve == << Refuse("sender", 401, Anon) >>
=============================================================================
