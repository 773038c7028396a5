----------------------------- MODULE Dispatcher -----------------------------
(***************************************************************************)
(* One call through triton-core's Dispatcher, from the entry point to the  *)
(* audit line it leaves behind (ADR-6): the buffered calls (invoke, with   *)
(* or without a raw body, read_resource, update_model_context), the        *)
(* streaming call and the resumption of a task.  An open stream is a       *)
(* StreamRelay, whose audit finalizer writes the line.  Calls share no     *)
(* state here, so one call stands for all; the breaker is in Breaker.      *)
(***************************************************************************)
EXTENDS Integers, Sequences

CONSTANTS
    Shapes,  \* the calls that may be made: a subset of AllShapes
    Names,   \* tools and resource URIs a call may be for
    Scopes,  \* scopes a principal may hold
    Allowed, \* scope_restrictions: the names a restricting scope maps to
    Held,    \* Principal::scopes, lists of scopes
    Batches, MaxFrame, MaxGrowth, IdleTimeout, MaxDuration  \* see StreamRelay

AllShapes ==
    [entry : {"invoke", "stream", "resume", "resource", "context"},
     malformed : BOOLEAN,  \* a raw body that is not JSON
     denied : BOOLEAN,     \* the principal is on the operator's denylist
     scopes : Held,
     name : Names,
     target : {"tool", "streamingTool", "unregistered"},
     upstream : BOOLEAN,   \* an upstream is configured
     a2ui : BOOLEAN]       \* A2UI was negotiated, and a tool returns it

VARIABLES
    shape,   \* the call being made
    at,      \* "called", "running", "streaming", "over", or "vanished": its
             \* future was dropped before it had an outcome
    lines,   \* the results of the audit lines it wrote itself, in order
    answer,  \* what its caller got when it is over
    ran,     \* a tool or an agent was given the call
    source, wrapping, clock, waiting, buf, pending, done,      \* the open stream:
    terminated, settled, audited, got, dropped                 \* see StreamRelay

call == <<shape, at, lines, answer, ran>>
stream == <<clock, waiting, buf, pending, done, terminated, settled, audited, got, dropped>>
relay == <<source, wrapping, stream>>
vars == <<call, relay>>

Relay == INSTANCE StreamRelay

ASSUME DispatcherConstants ==
    /\ Shapes \subseteq AllShapes
    /\ Held \subseteq Seq(Scopes)
    /\ Relay!RelayConstants

Results == {"ok", "error", "client_disconnect"}

TypeOK ==
    /\ shape \in Shapes
    /\ at \in {"called", "running", "streaming", "over", "vanished"}
    /\ lines \in Seq(Results)
    /\ answer \in {"none", "ok", "error"}
    /\ ran \in BOOLEAN
    /\ Relay!TypeOK

Init ==
    /\ shape \in Shapes
    /\ at = "called"
    /\ lines = <<>>
    /\ answer = "none"
    /\ ran = FALSE
    /\ source = "none" /\ wrapping = FALSE /\ Relay!Init

(***************************************************************************)
(* What decides a call before anything runs.                               *)
(***************************************************************************)

\* The scope at place i of the principal's list restricts it.
Restricts(i) == shape.scopes[i] \in DOMAIN Allowed

\* can_invoke looks at the first restricting scope of the list and at no other.
CanInvoke ==
    \A i \in DOMAIN shape.scopes :
        Restricts(i) /\ (\A j \in 1 .. i - 1 : ~Restricts(j))
            => shape.name \in Allowed[shape.scopes[i]]

\* Mutant: update_model_context looks at the denylist alone.
ContextOpen == shape.denied

\* The gates of each entry point: is_denied, then can_invoke.  Before them
\* invoke_with_bytes and invoke_streaming_with_bytes parse the body.
InvokeRefuses == shape.malformed \/ shape.denied \/ ~CanInvoke

StreamRefuses == shape.malformed \/ shape.denied \/ ~CanInvoke

ResumeRefuses == shape.denied \/ ~CanInvoke

ResourceRefuses == shape.denied \/ ~CanInvoke

ContextRefuses == shape.denied \/ ~CanInvoke

Refusable ==
    \/ shape.entry = "invoke" /\ InvokeRefuses
    \/ shape.entry = "stream" /\ StreamRefuses
    \/ shape.entry = "resume" /\ ResumeRefuses
    \/ shape.entry = "resource" /\ ResourceRefuses
    \/ shape.entry = "context" /\ ContextRefuses

\* registry first, then the upstream; resources and resumptions are upstream's.
Local == shape.target # "unregistered" /\ shape.entry \in {"invoke", "stream"}

Routable == Local \/ shape.upstream

\* The call ends: its line, if any, is written and its caller answered.
Ended(line, outcome) ==
    /\ at' = "over"
    /\ lines' = lines \o line
    /\ answer' = outcome
    /\ UNCHANGED <<shape, ran, relay>>

\* fail (for a body that does not parse and, through deny, for a revoked
\* principal), or audit_dispatch for a restricted one.
Refuse ==
    /\ at = "called" /\ Refusable
    /\ Ended(<<"error">>, "error")

\* An unknown tool or resource; a resumption returns before it is audited.
Unroutable ==
    /\ at = "called" /\ ~Refusable /\ ~Routable
    /\ Ended(IF shape.entry = "resume" THEN <<>> ELSE <<"error">>, "error")

Start ==
    /\ at = "called" /\ ~Refusable /\ Routable
    /\ at' = "running"
    /\ ran' = TRUE
    /\ UNCHANGED <<shape, lines, answer, relay>>

(***************************************************************************)
(* What runs.                                                              *)
(***************************************************************************)

\* The call yields a stream whose line is deferred: an upstream's, or that of
\* an in-process tool that streams.
Deferred ==
    \/ shape.entry = "resume"
    \/ shape.entry = "stream" /\ shape.target # "tool"

\* An agent may answer the offer of an event stream with a JSON document.
Sources == IF Local THEN {"tool"} ELSE {"agent", "json"}

\* The stack is built: a resumption's without the A2UI wrap.
Open ==
    /\ at = "running" /\ Deferred
    /\ at' = "streaming"
    /\ source' \in Sources
    /\ wrapping' = (shape.a2ui /\ shape.entry = "stream")
    /\ UNCHANGED <<shape, lines, answer, ran, stream>>

\* An error of the tool or the agent, a panic of a spawned tool, or a stream
\* that does not open.
RunFails ==
    /\ at = "running"
    /\ Ended(<<"error">>, "error")

\* The line of an in-process tool is written before done_event_a2ui looks at
\* its payload, which may turn the answer of a streaming call into an error.
LateWrap == shape.entry = "stream" /\ shape.target = "tool" /\ shape.a2ui

\* A buffered result.
RunSucceeds ==
    /\ at = "running" /\ ~Deferred
    /\ \E outcome \in {"ok"} \cup (IF LateWrap THEN {"error"} ELSE {}) : Ended(<<"ok">>, outcome)

\* The call's future is dropped while it waits for the tool or the agent: the
\* client disconnected, or a streaming tool panicked while it opened.
Vanish ==
    /\ at = "running"
    /\ at' = "vanished"
    /\ UNCHANGED <<shape, lines, answer, ran, relay>>

\* emit_stream_audit.
LineOf(term) ==
    CASE term = "Completed" -> "ok"
      [] term = "Disconnected" -> "client_disconnect"
      [] OTHER -> "error"

\* The consumer polls the open stream, or what it waits for happens.
Stream(Step) == at = "streaming" /\ UNCHANGED call /\ Step

Next ==
    \/ Refuse \/ Unroutable \/ Start \/ Open \/ RunFails \/ RunSucceeds \/ Vanish
    \/ Stream(Relay!Next)

Spec == Init /\ [][Next]_vars

\* The consumer of an open stream polls until the end and then drops it;
\* nothing is assumed of the agent, which may stay silent or send for ever.
Fairness ==
    /\ WF_vars(Stream(UNCHANGED <<source, wrapping>> /\ Relay!Poll))
    /\ WF_vars(Stream(UNCHANGED <<source, wrapping>> /\ Relay!Tick))
    /\ WF_vars(Stream(UNCHANGED <<source, wrapping>> /\ got.ended /\ Relay!Drop))

FairSpec == Spec /\ Fairness

(***************************************************************************)
(* Properties.                                                             *)
(***************************************************************************)

\* Every line of the call: the ones written before a stream was open, and its
\* finalizer's.
Lines == lines \o [i \in DOMAIN audited |-> LineOf(audited[i])]

Finished == at = "over" \/ (at = "streaming" /\ dropped)

\* ADR-6: a call that has an outcome has left exactly one line, whichever of
\* the entry points it came through and however its stream ended, and the
\* breaker was settled once by the same end.  Not so a resumption in a gateway
\* without an upstream.
OneLine ==
    /\ Len(Lines) <= 1 /\ Len(settled) <= 1 /\ Relay!VerdictsAgree
    /\ Finished /\ ~(shape.entry = "resume" /\ ~shape.upstream /\ ~Refusable) => Len(Lines) = 1

\* What invoke_with_bytes promises ("Either path produces exactly one audit
\* line"), of a call whose client does not wait for it as well.
AlwaysAudited == Finished \/ at = "vanished" => Len(Lines) = 1

\* What the client of an open stream has when the stream is gone.
StreamAnswer ==
    CASE Relay!ClientsStory = "Completed" -> "ok"
      [] Relay!ClientsStory = "Disconnected" -> "client_disconnect"
      [] OTHER -> "error"

\* The line tells what the caller was told, a truncated stream and a refused
\* A2UI payload included, and a stream tells nothing after its end; only LateWrap's
\* line may be wrong.
LineMatchesAnswer ==
    /\ Relay!NothingAfterTerminal
    /\ Finished /\ Lines # <<>> /\ ~LateWrap =>
         Lines[1] = IF at = "over" THEN answer ELSE StreamAnswer

\* The places of the principal's list whose scope excludes the name.
Excluding == {i \in DOMAIN shape.scopes : Restricts(i) /\ shape.name \notin Allowed[shape.scopes[i]]}

\* The operator revoked the principal, or it holds restricting scopes and none
\* of them maps to the name.
KeptOut ==
    \/ shape.denied
    \/ Excluding # {} /\ \A i \in DOMAIN shape.scopes : Restricts(i) => i \in Excluding

\* Who is to be kept out reaches neither a tool nor an agent through any of the
\* five entry points, whichever further scopes it holds and in whatever order,
\* and its attempt is on record as one error.
RefusedNeverRuns == KeptOut => ~ran /\ (Finished => Lines = <<"error">>)

\* However the agent behaves, its stream comes to an end: decode_sse bounds
\* every gap and the whole.
StreamEnds == (at = "streaming" /\ source # "tool") ~> dropped
=============================================================================
