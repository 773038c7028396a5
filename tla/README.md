# Triton: a verification project

Triton is a multi-protocol ingress gateway for agents. Clients reach it over REST, MCP, A2A and
chat platforms (Teams, Telegram, Discord, WhatsApp, Signal, Google Chat, email, Twilio); it
authenticates them, limits them, routes each call to an in-process tool or to an upstream agent,
relays the agent's stream, writes one audit line per call, and keeps long-running turns alive
across disconnects and restarts.

This directory holds TLA+ models of the parts of it that keep state between the steps of
concurrent actors, the TLC configurations that check them on small instances, and theorems
proved with TLAPS for every instance. `PROJECT.json` lists components, runs, mutants, the source
lines each definition models, findings, hazards and theorems. The commands, in this directory:

    tlc -workers 2 -config MCTaskRunner.cfg MCTaskRunner     # any run of PROJECT.json
    tlapm TaskRunner_proofs.tla                              # any of the eight *_proofs modules

## 1. Inventory

| Component | State it keeps | Operations | Talks to | What is hard |
|---|---|---|---|---|
| Task runner, `triton-tasks` `Runner`, `TaskHub` | live ids with their broadcast channels; a runner's locals (agent's task id, pending record, pause) | `start`, `run`, `ensure_running`, `fail`, `subscribe_or_claim`, `close` | dispatcher, task store, A2A/MCP waiters, Teams courier | claims against finishing runners, crash between any two steps, one deadline over open, read and resume |
| Task store, `triton-tasks` `TaskStore` | rows (memory map + FIFO, or SQLite), write count, `rmw` lock | `put`, `update`, `update_running`, `prune`, `record_entry`, reads | runners, couriers, handlers | read-modify-write races, eviction at capacity, retention, failed writes |
| Limiters, `triton-core` `ratelimit.rs` | tokens and last refill; tenant map; window per protocol | `TokenBucket::try_take`, `PerTenantBuckets::try_take`, `RejectionWindow::admit` | every inbound path | clock read before the lock, eviction as a reset, counts that must not be lost |
| Static upstream, `triton-upstream` | one breaker per tool | `invoke`, `read_resource`, `update_model_context`, `invoke_streaming`, `resume_streaming`, `check_and_arm`, `observe` | agents over HTTP, dispatcher | overlapping calls, late results, abandoned probes |
| Stream relay, `decode_sse`, `Finalized`, `audited_stream` | decoder buffer and queue; finalizers | `poll_next`, `drop` | breaker, audit, HTTP server | three limits on one timer, two nested finalizers, drop at any point |
| Dispatcher, `triton-core` | registry, denylist, scopes (fixed at boot) | five entry points | tools, upstream, audit | gates repeated per entry point, one audit line on every path |
| Chat inbound: Teams, Google Chat, Telegram, Discord, WhatsApp (Cloud, bridge), Twilio (WhatsApp, RCS), Signal, email | identity table or resolver, key ring, buckets, sticky bindings, WhatsApp's service window | `from_manifest`, webhook or socket message, card click, modal, push of an agent | dispatcher, routing, correlation | a card outlives the key, the catalogue and the user it was made for; redelivery of a batch or an update by the platform |
| Correlation and routing, `triton-correlation`, `triton-chat-routing`, `triton-chat-identity` | key ring; bindings | encode and decode of signed tokens, templates, `resolve`, `confirm_pick` | every chat adapter | expiry rounding, binding to sender, tenant and platform, rotation |
| HTTP adapters (REST, MCP, A2A 0.3 and 1.0, outbound) | task records, audit ring, denials | every route | dispatcher, runner, couriers | who may read a task, a line or a trace, and on what evidence |
| Task streams (A2A, MCP) | a reader's place in a 256-slot broadcast | stream, resubscribe, blocking send | runner, hub, store | lag, closing, a claim by another reader, a restart |
| Key and token caches, `triton-identity` and the chat verifiers | keys per issuer or anchor, refresh times, tokens with a refresh time | lookup, refresh, install | identity providers | locks held over a fetch, failed fetches, withdrawn keys, expiry |
| Teams courier and sweep | working card, writes in flight, task record, delivered mark | progress, card updates, terminal delivery, refresh, resume after a restart | runner, store, Bot Framework | duplicate, lost or overwritten answers around a crash |
| Google Chat courier | placeholder message | placeholder, progress patches, answer | Chat API | late patches, ambiguous failures |
| Discord gateway | session, sequence, heartbeat | identify, resume, heartbeat, dispatch | Discord, dispatcher | heartbeat against an inline dispatch, replay |
| Signal link | socket, writer slot, event channel | connect, subscribe, read, write, shut down | signald | lost writes, a full channel at shutdown |
| Telegram forms | open forms and a queue per tenant | install, answer, cancel, evict, submit | Telegram inbound | queue and map in step |
| Process, `triton-bin` with `triton-embed` | listeners, adapters, shutdown token | boot, serve, signal, drain | all | a signal at any point, a drain with a deadline |
| A2UI, surfaces, manifest, configuration, secrets, rasterizer, Gemini, Dart client | none after boot | conversions | | |

What makes each modelled component correct, in one sentence:

* **Task runner**: the agent is asked to do the work of a turn at most once, everyone who follows
  the turn is told the ending the store keeps, and everyone is told something.
* **Task store**: a confirmed update survives concurrent writers; a finished record only gains its
  delivered mark and is evicted oldest first; pruning keeps its pace.
* **Limiters**: nobody gets more than burst and rate allow, and no rejection goes uncounted.
* **Breaker**: it opens on exactly the faults that should open it, admits one probe, and closes
  again when the agent is well, as far as its calls end.
* **Relay and dispatcher**: one audit line per call that says what the caller was told; nobody who
  is refused reaches a tool; every agent's stream ends.

* **Inbound**: a card works for the user it was made for and for no one else, through a rotation and
  until it expires; a routed turn reaches an agent of today's catalogue; a push reaches only a
  conversation of its own tenant; a turn that failed has posted nothing, a platform lets go of nothing
  that was not dealt with, and an answer is repeated only after a delivery that was not acknowledged.
* **HTTP**: a task, an audit line or a trace is read by those entitled to it, and by nobody revoked.
* **Caches**: a valid key is refused, and a withdrawn one accepted, only for a bounded and
  explained time; a token handed out has not expired.
* **Outbound**: the user sees one ending, the stored one, and it stays; a reader of a stream is told
  the stored ending and as much of the answer as its kind of stream carries; a connection that fell
  silent after its handshake is replaced and catches up.
* **Process**: a signal ends it by the deadline, and nothing is cut off before.

`PROJECT.json` lists the hazards, each at the line where it bites, with the properties that cover
it or the reason why none does yet.

## 2. Modules and how they correspond to the code

**`TaskRunner`** (`triton-tasks/src/lib.rs`, with `readable_live` of `a2a_v1.rs` and `resume_task`
of the Teams adapter). `rows` is the store, `live` the hub's map, `runner[t]` the locals and
program point of the spawned future, `caller[c]` a blocking send, a stream or a later read, and
`agent[t]` the upstream as far as `run` observes it. Every stretch of code between two awaits or
unlocks is one action: `Start`/`StartSpawn`/`StartRefused` are `Runner::start`; `OpenStream`,
`OpenError`, `Timeout`, `TaskEvent`, `ProgressEvent`, `DoneEvent`, `AgentErrorEvent`,
`OversizeEvent`, `StreamBroken`, `Wake` the loop of `run`; `StoreOutcome`, `SendOutcome`,
`CloseHub` its end, in that order; `Panic` an unwinding through `HubGuard`; `ReadRecord`,
`SubscribeOrClaim`, `ClaimFails`, `ClaimResumes` are `ensure_running`, split where the hub's lock
is released; `ReadOutcome` is what a waiter does when its channel closes; `Crash` keeps the store
only; `RefuseResume` is the boot sweep's refusal. Texts, receipts and progress contents are left
out; error classes are kept.

**`TaskBoard`** is the abstract specification `TaskRunner` implements: a task is filed once, the
agent answers once, its status is set once, and what is told is the status. `TaskRunner!Board`
is the refinement mapping.

**`TaskStore`** (same file). A `put` is one critical section; `update` and `update_running` are two
(`BeginUpdate`, `EndUpdate`) under the `rmw` lock, so other puts and prunes go on in the gap. A
record is its finished flag, the set of updates it contains and its timestamp.

**`TokenBucket`, `TenantBuckets`, `RejectionWindow`**, composed by **`RateLimits`**
(`triton-core/src/ratelimit.rs`). Each `try_take`/`admit` is split at the clock reading that
precedes the lock. Tokens are integer units, time is ticks. The three share a clock and no state,
so a behaviour of `RateLimits` exercises one of them.

**`Breaker`** (`triton-upstream/src/static_upstream.rs`). `call[c]` is a call in flight and whether
it is the probe; `Pass` and `Arm` are `check_and_arm`, `Close`, `Reopen`, `ProbeFailure`,
`OrdinaryFailure` are `observe`, and the remaining actions are the ways a buffered or streaming
call ends, including the two that observe nothing (`Refused`: `bearer` rejects the principal;
`Dropped`: the future is dropped at its await). A streaming call waits for the agent's headers, with
no limit, before it has a stream that has limits. Tools share nothing, so one breaker is modelled.

**`StreamRelay`** (`sse.rs`, `stream.rs`, `open_stream`, `wrap_stream_a2ui`). The decoder's loop is
`StartRead`, `PastDeadline`, `Elapsed`, `Chunk`, `TransportError`, `Eof`; `Yield`, `Truncated`,
`End` and `Drop` are `Finalized`. Bytes are frame kinds and lengths.

**`Dispatcher`** (`dispatcher.rs`) takes one call of any shape through any entry point and, for a
streaming call, instantiates `StreamRelay` for the stream it opens. A shape fixes the inputs that
decide a path: entry point, malformed body, denied, the principal's scopes in order, target, upstream,
A2UI. Each of the five entry points has its gates as an operator of its own (`InvokeRefuses`,
`StreamRefuses`, `ResumeRefuses`, `ResourceRefuses`, `ContextRefuses`), so one that is forgotten in one
of them shows; `CanInvoke` is the choice among the scopes.

**`Gates`** is the shape of every inbound handler: a list of gates tried in order, each an early
return with its status and its audit line, a token taken from a bucket, or an effect. `Judge` says
what one delivery comes to. The gates of identity (`triton-chat-identity`) are here too.

**`Correlation`** (tokens, their binding, expiry in hours rounded up, key ring, message templates)
and **`AgentRouting`** (`resolve`, `confirm_pick`) are the pure functions the adapters share. A MAC
is the record of what was signed and with which key.

**`TeamsInbound`, `GoogleChatInbound`, `TelegramInbound`, `DiscordInbound`, `PhoneInbound`** write
each Rust handler as its list of gates: `from_manifest`, the webhook or the socket message, the
click, the push, and what is posted and recorded of the answer. `PhoneInbound` has the adapters
whose sender is a phone (WhatsApp Cloud and bridge, Twilio WhatsApp and RCS, Signal) and email.

**`ChatIngress`** puts one of these adapters into a world that changes: `Boot` with a configuration,
`Show` a card, `Keep` a reference, `Bind` an agent, `Write` to WhatsApp, `Rotate` and `Retire` keys,
`Revoke` an agent, `Tick`. Its properties quantify over every delivery that could arrive in a
state: by every user, with the card's token, the reference or an image link, with every flaw and
every empty bucket.

**`HttpIngress`** does the same for REST, MCP, A2A and the outbound route; requests leave task
records and audit lines behind, principals are revoked, the process restarts and loses its ring. A
source document opened over A2A 0.3 is a request of its own, with its record (`message/stream`) or
without one (`message/send`).

**`Redelivery`** is the platform's side of WhatsApp and Telegram: what it holds until it is
acknowledged. `Post` is a webhook (a batch on WhatsApp, one update on Telegram), `GetUpdates` the long
poll with its offset; `Ignore`, `RefuseMessage`, `Begin`, `FormDropped`, `Turned` and `Failed` are what
becomes of a message, one after the other (`InstallForm` when the answer is a form), and `Acknowledge`, `HangsUp` and `RestartAll` of the
delivery. A Telegram user may have a form open, which the last answer takes out of its slot before
its tool is called. Which gate refuses a message is `ChatIngress`'s matter; here it is one action.

**`KeyCaches`** has the six caches (`OidcVerifier`, the Bot Framework verifier with its two anchors,
the Google Chat verifier, the tokeninfo cache, the two kinds of token clients) with one set of
steps: look up, take the lock, look again, fetch, install. A fetch takes time and may fail, its client
may hang up at any await (`HangUp`), the other side publishes and withdraws keys.

**`Ingress`** composes `ChatIngress`, `HttpIngress`, `KeyCaches`, `RateLimits` and `Redelivery`. The
first two take the verdict of a verifier and of a bucket as an input, so a behaviour is about one side.

**`TeamsCourier`** (`spawn_courier`, `courier_deliver`, `CardWriter`, `TaskCard`,
`deliver_terminal`, `mark_delivered`, `resume_stored_tasks`, `resume_task`, `refresh_card`). `chat`
is what Teams shows, `put` the one update in flight, `late` the cards with an update that was given
up, `feed` the broadcast, `rec` the task's row. A connector call is accepted, refused or ambiguous.

**`GoogleCourier`** (`courier_reply`), **`SignaldLink`** (`spawn_connect_loop`, `Sender`, `spawn`),
**`DiscordGateway`** (`run`, `run_connection`, `spawn_heartbeat`), **`TelegramForms`**
(`form_state.rs` and its callers), **`A2aStreams`** (`message_stream`, `task_stream`,
`op_subscribe`, `run_as_task` as readers of one runner, whose record holds the answer clamped and
whose writes may be lost; an operator gets a snapshot) and **`Process`** (`main`: the boot is a
list of gates) each model one long-lived task; platforms and agents are external and do what the
code has to expect of them. **`Delivery`** composes them: they share no state, so a behaviour
follows one of them.

**`MC...`** modules give the constants their values. The theorems are in eight modules, each extending
what it is about: **`TaskRunner_proofs`** (the runner and its refinement of `TaskBoard`),
**`TaskStore_proofs`**, **`RateLimits_proofs`** (all three limiters), **`Breaker_proofs`**,
**`Dispatcher_proofs`** (with the relay), **`Delivery_proofs`** (both couriers, the forms, the task
streams), **`KeyCaches_proofs`** and **`Ingress_proofs`** (lists of gates, the HTTP and chat adapters,
redelivery).

Definitions whose comment starts with "Mutant:" are plausible bugs, each used in place of the
definition that follows to show that a property notices it.

## 3. Runs

| Run | Checks | States | Shows |
|---|---|---|---|
| `runner` | `OneFiling`, `RunnerOwnsRunningTask`, `ToldAgrees`, `BoardSpec` | 1.1M | safety and refinement of the runner, two turns, a restart, and a sweep that refuses one of them |
| `runner_fail` | `LiveTaskEnds`, `CallerAnswered` | 62k | liveness when store writes may fail |
| `store` | `NoLostUpdate`, `PruneKeepsUp`, `FinishedRows` | 1.2M | both backends, two writers, failures, retention, a restart |
| `store_bound` | `MemoryBounded` (violated) | | finding 1 |
| `breaker` | `TrippedInTime`, `HalfOpenHasProbe`, `MovesExplained`, `Recovers` | 12.8k | three overlapping callers, one unsignable, one that hangs up |
| `breaker_wedge` | `NeverWedged` (violated) | | finding 2 |
| `dispatch` | `OneLine`, `LineMatchesAnswer`, `RefusedNeverRuns`, `StreamEnds` | 32k | every shape of call, every interleaving of its stream |
| `dispatch_vanish` | `AlwaysAudited` (violated) | | finding 3 |
| `ingress` | `CardBound`, `RetriedUnanswered`, `PickEntitled`, `PushBound`, `FreeFormInWindow`, `ReadersEntitled`, `ExcessBounded`, `TenantShare`, `Honest`, `RefusalExplained`, `WithdrawnBounded`, `TokenFresh`, `RedeliverySound` | 4.0M | every chat adapter and configuration, every HTTP route, every key cache, every limiter, every way of redelivery |
| `seal_rotation` | `SealSurvivesRotation` (violated) | | finding 4 |
| `delivery` | `OneAnswer`, `DeliveredIsSeen`, `AnswerArrives`, `ChatAnswerSettles`, `GatewayCatchesUp`, `SignalResubscribes`, `QueueIsForms`, `StreamedWhole`, `StreamTellsOutcome`, `SignalEndsProcess` | 323k | every courier, link, worker and kind of stream, and the process from boot to exit |
| `signal_drain` | `SignalDrains` (violated) | | finding 5 |

**Bounds, and why they are enough.**

*Tasks.* Tasks interact through nothing but their own id and the sweep, so two are modelled, the second
of a sender that is no longer admitted. One caller starts a turn and the other holds a stale record or
claims; after a restart both may come back, so that two claims race. `TaskMax` 2 with pauses up to 2
lets a task break, pause, resume and reach its deadline; one crash separates two lives of the process.
`runner_fail` is smaller because liveness is checked on the whole graph. The store has capacity two and
three ids, so eviction happens with every mixture of finished and running rows; `PruneEvery` 2 and five
writes allow two prunes; retention 0 makes every record older than a tick expire.

*Breaker, dispatch.* The breaker opens after two faults, and a third caller supplies the late
result. The relay's frame cap is two units with growth of two per chunk, so it is passed in one chunk
and in two; the idle limit 2 and the duration 5 make either the sooner one.

*Ingress.* Three users, two of one tenant, so that a card meets its owner, a colleague and a stranger.
An hour of 2 and a card's life of 1 make the rounding up visible; the clock starts at 1 and goes to 5,
past every expiry of every platform, the rounded ones included. Three changes of the world are the
longest story a property tells (a card is shown, the keys rotate, the old one is retired; an agent is
bound, then revoked). Principals share a subject under two issuers, a tenant, a reserved tenant, or are
a named operator; a ring of one line is overwritten at once. Two requests meet at each cache, with all
times 1 and tokens of life 2, so that a request outlasts an expiry. Three tenants meet a map of two
buckets; a token costs two units at rate one, so partial refills happen. Redelivery: three messages, so
that one before and one after the refused one are in its batch, and two misses, so that a redelivery is
itself interrupted.

*Delivery.* Teams: a channel of two slots overflows; two faults and one crash, so that an ambiguous
post, a failed mark and a restart meet. Discord: two messages and two troubles, so that a replay is
itself interrupted. Signal: a channel of two and two connections. Forms: three users, two tenants, a cap
of two and forms of two fields. A2A: a window of one event and two tokens, so that every reader can lag,
an answer that is longer than the stored text may be, two readers, one restart or broken runner.
Process: three deployments that between them have every adapter, port and environment, with every single
flaw of the configuration.

`CHECK_DEADLOCK FALSE` is set everywhere: bounded clocks stop, and a call, a turn or a process that
is over has nothing more to do. That nothing stops too early is what the liveness properties say.

**Fairness.** `TaskRunner`: time passes and tokio polls every ready future, so a runner's own steps
and a waiter's are weakly fair; nothing is assumed of the agent, of new callers, or of crashes.
`Breaker`: time passes, and what has a limit ends: a buffered call by the HTTP client's timeout, a
stream that is open by the idle and duration limits. The wait for a stream's headers has no limit
(`http_stream` has a `connect_timeout` only) and is not fair. `Recovers` assumes, in its own
formula, that callers keep calling and that the agent eventually stops failing; it allows a breaker that
stays half-open because its probe was abandoned or waits for headers. `Dispatcher`: the
consumer of a stream polls it to the end and then drops it; nothing is assumed of the agent.
`Delivery`: the steps of Triton's own tasks are weakly fair. Teams: a task ends (that is
`LiveTaskEnds`), and Teams applies an update it accepted. Signal: `tokio::select!` picks among ready
branches at random, so a loop that waits for an event or the shutdown token takes the token when it
comes (strong fairness of `DispatchStops` and `LoopStops`); signald closes a connection whose client
closed its write half. Discord: a turn ends (its tool or agent has a timeout), and a heartbeat follows
after an interval; nothing ends the wait for a HELLO on a connection that stays open and silent, which
`GatewayCatchesUp` names; `BeatDue` says that an interval is long enough to read the frames that arrived,
unless a turn holds the loop up. Process: the main task goes on and the drain deadline passes; no
request and no adapter has to end.

## 4. Findings

1. `store_bound`: with `MEMORY_CAPACITY` running tasks, `put` queues the new id, finds no row for it
   yet, takes it for droppable, removes it from the queue, and inserts its row anyway. The row is
   never evicted and the map grows.
2. `breaker_wedge`: a probe that is dropped before the agent's answer, or refused by `bearer`,
   leaves the breaker half-open for good. `HalfOpenHasProbe` shows that in every other case a probe is
   in flight; one that streams may still wait for headers without end (`Recovers`).
3. `dispatch_vanish`: a call dropped while its tool or agent runs leaves no audit line. `OneLine`
   shows that every call that has an outcome leaves exactly one.
4. `seal_rotation`: Teams opens a sealed conversation reference with the signing key alone, so a
   rotation ends the pushes of every agent that holds an older one. Cards survive it (`CardBound`),
   and so do Google Chat's references.
5. `signal_drain`: at shutdown the dispatch loop stops receiving and joins the connection loop, which
   may be blocked sending into the full channel; neither watches the token there. The drain
   deadline of the process hides it (`SignalEndsProcess`).

Observations that contradict no sentence of the repository strongly enough to be findings:

* `TokenBucket::try_take` reads the clock before the lock and stores the reading unconditionally; a
  late thread moves `last_refill` back and the interval is refilled twice. `ExcessBounded` bounds that.
* A late result of an old call may close or reopen a half-open breaker, so that two probes are in
  flight (`ProbeDecides` excludes exactly that, through `overtaken`).
* A streaming call of a buffered tool is audited before its A2UI wrap, which may fail (`LateWrap`), and
  the HTTP adapters wrap a buffered answer after its line too; a resumption in a gateway without an
  upstream is not audited.
* `OidcVerifier` notes its attempt before it fetches: a request for the same kid that comes during the
  fetch is refused, although it would be served a moment later, and if the client hangs up on the fetch
  the kid is refused until `refresh_interval` is over (`RefusalExplained` names both). Its keys
  have no age, so `WithdrawnBounded` does not hold for them and does not claim it.
* An A2A 0.3 stream whose runner breaks off ends without an ending (`StreamTellsOutcome` names it).
* A user who moves to another tenant with a form open leaves an entry in the old tenant's queue
  (`QueueIsForms` names it).
* A progress patch of Google Chat that was given up may be applied after the answer (`overtaken`).
* A batch of WhatsApp messages is answered as a whole: when a later one is refused, those already
  answered are delivered and answered again (`AnswersPaid` bounds that). Telegram's long poll does not
  repeat what failed with a retryable status (`NoneLost` names it).
* A stream's probe that waits for headers, and a Discord connection silent before its HELLO, have no
  limit of their own.
* `can_invoke` looks at the first restricting scope of a principal only, so one with two may invoke what
  the second excludes, and their order decides; `RefusedNeverRuns` says what holds for every order. The
  binary configures one such scope.
* The stored answer is cut at 32 KiB, and the last artifact of an A2A 1.0 task stream is read from the
  record: a client that stayed connected to `completed` gets a longer answer cut off. `StreamedWhole`
  says what each kind of stream shows.
* The last answer of a Telegram form clears the form before the submit tool is called. When that fails
  with a 5xx, Telegram delivers the answer again and it runs as a plain message; the submission is lost.
  `SubmittedOnce` is the other side of that choice.
* The socket adapters answer messages while the boot is still going; a configuration error found
  later ends the process in the middle of such a turn.

## 5. Proofs

| Theorem | States |
|---|---|
| **`TaskRunner_proofs`** | |
| `TypeCorrect` | the runner's type invariant, with the pause capped at `RESUME_BACKOFF_MAX` |
| `FiledOnce` | `OneFiling`: the agent is asked to do a turn's work at most once |
| `FinishedIsFinal` | `FinishedStays`: no step rewrites a finished record, also when writes fail |
| `EveryoneSeesTheSameTask` | with reliable writes, `ToldAgrees` |
| `RunnerOwnsTask` | with reliable writes, `RunnerOwnsRunningTask` |
| `RunnerImplementsBoard` | with reliable writes, `BoardSpec`: the refinement of `TaskBoard` |
| **`TaskStore_proofs`** | |
| `UpdatesKept` | `NoLostUpdate` |
| `PrunesInTime` | `PruneKeepsUp` |
| `FinishedStay` | `FinishedRows`: what a step may do to a finished row, and what eviction takes |
| **`RateLimits_proofs`** | |
| `RejectionsCounted` | `Honest` |
| `TenantsKeepTheirShare` | `TenantShare` |
| `ExcessStaysBounded` | `ExcessBounded` |
| **`Breaker_proofs`** | |
| `BreakerTypeCorrect` | types, and an open breaker is always stamped |
| `BreakerTripsInTime` | `TrippedInTime` |
| `HalfOpenIsProbed` | `HalfOpenHasProbe` |
| `BreakerMovesExplained` | `MovesExplained` |
| **`Dispatcher_proofs`** | |
| `ExactlyOneLine` | `OneLine` |
| `LineTellsAnswer` | `LineMatchesAnswer` |
| `RefusedStaysOut` | `RefusedNeverRuns` (each of the five entry points) |
| **`Delivery_proofs`** | |
| `ChatTurnSettles` | `ChatAnswerSettles` (Google Chat) |
| `DeliveriesAreSeen`, `OneAnswerPerTurn` | `DeliveredIsSeen`, `OneAnswer` (Teams) |
| `AnswersStay` | `AnswerStays`, the part of `AnswerArrives` that is not liveness |
| `FormQueuesKept` | `QueueIsForms` (Telegram) |
| `StreamsAreWhole`, `StreamsTellOutcome` | `StreamedWhole`, `StreamTellsOutcome` (A2A, MCP), for every cap of the stored text |
| **`KeyCaches_proofs`** | |
| `TokensAreFresh` | `TokenFresh` |
| `WithdrawnKeysGo` | `WithdrawnBounded` |
| `RefusalsHaveReasons` | `RefusalExplained` |
| **`Ingress_proofs`** | |
| `ReadersAreEntitled` | `ReadersEntitled` |
| `PushesAreBound` | `PushBound` (Teams, Google Chat, WhatsApp, Twilio, email) |
| `FreeTextInWindow` | `FreeFormInWindow` (WhatsApp) |
| `PicksAreEntitled` | `PickEntitled` (Teams, Google Chat) |
| `RetriesAreUnanswered` | `RetriedUnanswered` (every channel) |
| `CardsAreBound` | `CardBound` (Teams, Google Chat, Telegram, Discord) |
| `RedeliveriesAreSound` | `RedeliverySound`: `NoneLost`, `AnswersPaid` (WhatsApp, Telegram's webhook and long poll), `SubmittedOnce` (Telegram) |

They hold for every set of tasks, callers, threads, tenants, users, readers and requests, for every
bound, deadline, capacity and threshold, and for every number of crashes and faults.

**Assumptions.** The `ASSUME`s of the modules, which TLC evaluates in the runs: bounds and times are
natural numbers, counts that the code divides by or that a channel needs are positive, the values
that stand for "nothing" or "nobody" are none of the things (`""` is no chat user), the set of threads
of a limiter and the catalogue of agents are finite, and what is parsed of a configuration's keys is a
list of keys. One says more: `KcConstants` has a request to the other side time out within the margin
before a token's expiry at which it is replaced (3 or 5 s against at least 60 s), and before a new
token has expired. `Reliable` (`StoreMayFail = FALSE`) is a hypothesis of three theorems and no
`ASSUME`: when the last write fails, a caller is told an ending the store does not have. `FiledOnce`
and `FinishedIsFinal` hold without it.

**Along which argument.**

*Filing.* `OneFiling` is not inductive: a filed turn whose runner is about to dispatch would file
again. The invariant adds that a runner that will still dispatch (`start = "dispatch"`, not sent)
belongs to a turn that has not been filed. Only `Start` creates such a runner, for a fresh id;
everything after a break or a claim is a resume.

*Endings.* `ToldAgrees` needs three more facts, kept as one invariant (`SharedInv`): a runner that
still drives its task has a running row, or none that was stored (`TaskOK`: `HubMatches`,
`Unrecorded`, `RunnerOwnsRunningTask` and `StoredBeforeSend`, the last for the gap between
`StoreOutcome` and `CloseHub`); a task the sweep is about to refuse has no runner (`SweptIsIdle`);
and a caller that was told an ending was told of a row that says so or of a turn that never had a
row (`ToldIsOver`).

*Board.* With that invariant and the one of filing, every action is a step of the board or a stutter:
the first open of a stream files the turn, the agent's own end is the answer, the steps that write an
ending to the row (of the runner, of a failed claim, of the refusing sweep) end it, those that give a
caller its ending tell it, and everything else, crashes and panics included, leaves the board alone.

*Store.* `HolderReadsLatest`: what the holder of the `rmw` lock has read contains everything that was
confirmed of the row, and is the row, unless that was pruned or evicted in the gap. `PruneInv`: while
no thread is about to prune, there were at most `writes % PruneEvery` writes since the last
prune. `QueueOK`: the FIFO has rows that exist, each once, which eviction of the oldest needs.

*Limiters.* `AdapterInv` counts the refills as a set of pairs of a thread and a tick (`Granted`): what
was taken and what is left is at most the burst and one refill per pair. When `last_refill` moves
back, the thread that moved it is the one whose late reading it was, and it has used up that reading;
so no pair is refilled twice. `TenantInv`: a tracked tenant was admitted at most the burst and the
refills up to its bucket's last, less what is left; one that is not tracked was evicted with a full
bucket, so the refills alone cover it. `WindowInv`: the last of `n` lines came `n - 1` windows
after the start.

*Breaker.* `TrippedInTime` follows from `ClosedCounts`: while closed, the count is the length
of the current run of faults, and it is below the threshold. `HalfOpenHasProbe` is inductive with the
types: the only steps that take a probe away either leave half-open or set `abandoned`, and a late
result leaves half-open itself. `MovesExplained` adds `ProbeIsAlone`: as long as no call of before has
met a half-open breaker (`overtaken`), the probe is alone in it, and there is none in another state.

*Dispatcher.* `DispatchInv` has a part for the stream (what its two finalizers have fired, against
what was yielded and how it was dropped) and a part for the call (what each step may have left behind).
`RefusedStaysOut` adds, for each entry point, that whoever is to be kept out is refused by its gates
(`KeptOutIsRefused`): if every restricting scope excludes the name, so does the first one in the list.

*Couriers.* `GcInv` is the courier's place against its message. `TeamsInv` says, for each place of each
courier and of the sweep, what the chat shows, what is in flight and what the row says (`TeamsFlow`,
`TeamsSeen`); `TeamsCount` bounds the places an answer stands at by the doubts (deliveries whose
success was not learnt or not stored) and what a courier still owes, and `OneAnswer` follows.

*Forms.* `FormsInv`: per tenant the queue is a list without repetition of exactly the active forms,
with the lemmas on what removing the first occurrence and taking the tail do to such a list.

*Streams.* `A2aLogs`: each event of a channel is the one its place allows (the deltas in turn, and an
ending that is the stored one), and all deltas come before a completed ending. `A2aFollow`: a
`message/stream` client that did not lag has put together exactly what stands before its place, it has
not read past an ending, and its channel closes after one unless the runner broke off. `A2aHub`
places the record against the runner: it is open while the runner works, and after it only if the last
write was lost; so the clamped text a task stream reads at the end is there, or a write was lost.

*Caches.* `RightSince(keys, a, t)`: where a set of keys differs from what the other side vouches for, that
changed at `t` or later. `KcInv` has it for each cached copy and each answer under way, with the
time its steps carry along; the three bounds are that time against the clock.

*Ingress.* A handler is a list of gates, and what it does is what some gate that was reached does. A
delivery passes a list exactly if it passes each gate; the gate that stops it is the least one that
fails (`JudgePasses`, by the least element of a set of naturals), and lists are put together with
`Joined`. With these every route's list is `Sound`: whatever it does comes after the check of the
bearer, of the revocation, and of who may read. `HttpInv` adds what later requests rely on: each audit
line about a task names who started it.

*Chat.* `ChatInv` is what an adapter's world keeps to: a service window was opened no later than a
message its user really sent, the configuration is one `from_manifest` accepts, the catalogue only
shrinks, a card is no reference, and a reference names its owner and the owner's tenant. A push is done
behind its checks (`PushChecked`), which say who it goes to. A turn that is routed to no agent is not
run: the lists in front of the router's verdict are free of acts (`Free`) and the verdict ends the
delivery (`StopsShort`, `Blocked`); a verdict that selects takes the agent from the catalogue as it is
(`RoutesIntoCatalogue`). What a delivery may be answered with: each gate that can stop one without a flaw
has a status outside a set `N` (`Spare`), lists are put together from such gates and end every delivery
(`Spares`, `Settles`), and `N` is taken as the statuses of 500 and more.

*Redelivery.* `RdInv`: what is under way is held (`RdTypes`), what is dealt with or let go of has a fate
that ends it (`RdSettled`), the offset is past nothing the poller has not come to (`RdOffset`), and a
message's answers are those wasted and, while its delivery is open or once it is acknowledged, at most
one more (`RdPaid`). `FormsNumbered`: the form in the slot has not been submitted, and no form twice.

*Cards.* `CardInv`: an adapter that is up has a key (`RingsBuilt`, from what `from_manifest` refuses), a
card's token is signed for its owner and its expiry is the hour begun when its life ends, a reference
is signed for nobody. A click acts only behind its adapter's gates (`BehindFront`), where the ring's
verdict is `ok`; the ring says so exactly if one of its keys signed the token for that user, tenant
and platform and it has not expired (`RingVerdict`), which no reference and no image link can meet.
For the other half `N` is 401: in time, and with its key in the ring, no gate ends the click with it.

**What proving showed.** `drop_form` takes one place of a tenant's queue, not all of a user's; the model
removed all and was corrected (`QueueIsForms` fails to be inductive otherwise). Cases that overlapped
in `AgentRouting`, `Correlation`, `Process` and three adapters were made disjoint: TLC takes the first
that holds, the code does too, and TLA+ takes any.

**Only model-checked.** Liveness (`LiveTaskEnds`, `CallerAnswered`, `Recovers`, `StreamEnds`, the
liveness in `AnswerArrives`, `GatewayCatchesUp`, `SignalResubscribes`, `SignalEndsProcess`) is outside
the prover's reach. Every invariant and every action property of the passing runs is stated by a
theorem; `FinishedStays` is proved and has no run, as `BoardSpec` checks as much with reliable writes.

## 6. Plan

What is left, the most useful first.

1. Dispatcher composed with Breaker, so that the breakers' map and the routing in front of it meet.
2. `Redelivery` composed with `TelegramForms`, so that the form a redelivered answer misses is the one of
   the form slots.

## 7. Not modelled

Rendering of cards, surfaces, text and images, protocol framing, agent cards and discovery documents,
cryptography, claim checks, manifest parsing, metrics, tracing, the Gemini document converter and the
Dart client are conversions or sinks without state that a property could be about. That a conversion
or a parse can fail is kept, as a gate or an outcome, wherever the code handles it.
