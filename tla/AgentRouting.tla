---------------------------- MODULE AgentRouting ----------------------------
(***************************************************************************)
(* Which agent a chat message goes to (triton-chat-routing): a pure        *)
(* decision over the caller's catalogue, the conversation's sticky binding *)
(* and the text.  A text is a record [verb, name, rest]: verb is "agents", *)
(* "whoami", "use", "at" or "say"; name is what a switch names.            *)
(* How well a name fits an agent is abstracted to three sets of names.     *)
(***************************************************************************)
EXTENDS Naturals, Sequences, FiniteSets

NoAgent == "none"

\* match_one: an exact name wins over a prefix, a prefix over a part.  The
\* result is the set of agents at the best level that fits any.
MatchOne(agents, name) ==
    LET exact == {a \in agents : name \in a.exact}
        prefix == {a \in agents : name \in a.prefix}
        part == {a \in agents : name \in a.part}
    IN IF name = "" THEN {}
       ELSE IF exact # {} THEN exact
       ELSE IF prefix # {} THEN prefix
       ELSE part

Selection(a, rest, bind) == [to |-> "agent", agent |-> a.id, text |-> rest, bind |-> bind]
Chooser(reason, offered, rest) ==
    [to |-> "chooser", agent |-> NoAgent, text |-> rest, bind |-> NoAgent,
     reason |-> reason, offered |-> {a.id : a \in offered}]
Reserved == [to |-> "info", agent |-> NoAgent, text |-> "", bind |-> NoAgent]

TheOne(set) == CHOOSE a \in set : TRUE
ById(agents, id) == {a \in agents : a.id = id}

\* A switch without a name is ordinary text (parse_switch).
IsSwitch(text) == text.verb \in {"use", "at"} /\ text.name # ""

Switch(text, agents) ==
    LET hits == MatchOne(agents, text.name)
    IN IF hits = {} THEN Chooser("unknown", agents, text.rest)
       ELSE IF Cardinality(hits) > 1 THEN Chooser("ambiguous", hits, text.rest)
       ELSE Selection(TheOne(hits), text.rest,
                      IF text.verb = "use" THEN TheOne(hits).id ELSE NoAgent)

\* resolve: a reserved command, a switch, the binding, the tenant's default,
\* and at last the only agent there is, or the chooser.
Resolve(text, binding, default, agents) ==
    IF text.verb \in {"agents", "whoami"} THEN Reserved
    ELSE IF IsSwitch(text) THEN Switch(text, agents)
    ELSE IF binding # NoAgent THEN
        IF ById(agents, binding) = {} THEN Chooser("gone", agents, text.rest)
        ELSE Selection(TheOne(ById(agents, binding)), text.rest, NoAgent)
    ELSE IF ById(agents, default) # {} THEN
        Selection(TheOne(ById(agents, default)), text.rest, default)
    ELSE IF Cardinality(agents) = 1 THEN
        Selection(TheOne(agents), text.rest, TheOne(agents).id)
    ELSE Chooser("first", agents, text.rest)

\* Mutant: the clicked agent is not looked up in the catalogue.
ConfirmPickUnchecked(id, rest, agents) ==
    [to |-> "agent", agent |-> id, text |-> rest, bind |-> id]

\* confirm_pick: a click on the chooser, checked against the catalogue as it
\* is now.
ConfirmPick(id, rest, agents) ==
    IF ById(agents, id) = {} THEN Chooser("unknown", agents, rest)
    ELSE Selection(TheOne(ById(agents, id)), rest, id)
=============================================================================
