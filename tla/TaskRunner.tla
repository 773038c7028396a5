---------------------------- MODULE TaskRunner ----------------------------
(***************************************************************************)
(* The long-running tasks of triton-tasks: the runner that drives one      *)
(* inbound turn to its end, the hub of tasks live in this process, the     *)
(* persistent task store, the callers that follow a task, and a process    *)
(* that may crash and restart at any point.                                *)
(*                                                                         *)
(* One task is one turn.  Its runner is a spawned future; every `await` and *)
(* every lock it releases is a place where the other actors may run, so    *)
(* each stretch between two of them is one action.  The upstream agent is  *)
(* external: it is what `run` can observe of it through the dispatcher.    *)
(***************************************************************************)
EXTENDS Naturals, FiniteSets

CONSTANTS
    Tasks,         \* task ids: the turns' trace ids, never reused
    Callers,       \* callers that start a task or read one they own
    TaskMax,       \* TaskSettings::task_max
    BackoffMax,    \* RESUME_BACKOFF_MAX, in units of the first pause (250 ms)
    MaxTime,       \* bound: the clock stops here
    MaxCrashes,    \* bound: restarts of the process
    StoreMayFail,  \* may a store write fail (SQLite: disk full, locked)?
    Revoked,       \* tasks of a chat sender the configuration stops admitting
    NoTask         \* the task of a caller that has none

ASSUME TimeAssumption == /\ TaskMax \in Nat \ {0}
                         /\ BackoffMax \in Nat \ {0}
                         /\ MaxTime \in Nat
                         /\ MaxCrashes \in Nat
ASSUME NoTaskAssumption == NoTask \notin Tasks
ASSUME StoreAssumption == StoreMayFail \in BOOLEAN
ASSUME RevokedAssumption == Revoked \subseteq Tasks

VARIABLES
    now,      \* the wall clock
    created,  \* created[t]: TaskRecord::created_ms
    rows,     \* rows[t]: the stored record, state "none" when there is no row
    live,     \* TaskHub::live, the ids with a broadcast channel
    runner,   \* runner[t]: the locals and the program point of t's runner
    agent,    \* agent[t]: the upstream's side of the turn (external)
    caller,   \* caller[c]: what a caller waits for and what it was told
    sweep,    \* stored tasks the boot sweep has listed and not handled yet
    crashes,  \* how often the process was restarted
    panics    \* the tasks whose runner panicked

vars == <<now, created, rows, live, runner, agent, caller, sweep, crashes, panics>>

(***************************************************************************)
(* Data.  A failed task carries its error class; the messages, receipts    *)
(* and progress texts are left out.                                        *)
(***************************************************************************)
ErrorClasses == {"auth", "forbidden", "validation", "tool", "provider", "ratelimit"}
Classes == {"expired", "interrupted", "agent"} \cup ErrorClasses
Outcomes == {"completed"} \cup Classes
Terminal == {"completed", "failed"}

Row == [state : {"none", "working"} \cup Terminal,
        up    : BOOLEAN,                  \* upstream_task_id is Some
        class : Classes \cup {"-"}]       \* error_class

NoRow == [state |-> "none", up |-> FALSE, class |-> "-"]

\* The program points of a runner:
\*   opened/claimed  the hub entry exists, the future is not spawned yet
\*   opening         awaiting the dispatcher's stream
\*   reading         awaiting the stream's next event
\*   backoff         sleeping before a resume
\*   finish/send     the outcome is known; stored next, broadcast after that
\*   close           only the HubGuard is left to drop
Points == {"none", "opened", "claimed", "opening", "reading", "backoff",
           "finish", "send", "close"}

Runner == [pc      : Points,
           start   : {"dispatch", "resume"},
           sent    : BOOLEAN,             \* this open's request reached the agent
           up      : BOOLEAN,             \* the local upstream_task_id
           pending : BOOLEAN,             \* Persist::OnAsync, not stored yet
           backoff : 1 .. BackoffMax,
           wake    : Nat,
           outcome : Outcomes \cup {"-"}]

Idle == [pc |-> "none", start |-> "dispatch", sent |-> FALSE, up |-> FALSE,
         pending |-> FALSE, backoff |-> 1, wake |-> 0, outcome |-> "-"]

Agent == [filed : Nat, result : {"none", "done", "error"}]

\* A caller: idle; holding a record it read; subscribed; its channel closed
\* (or it got no subscription); told an outcome; cut off by a crash, after
\* which it may come back and read.
CallerState ==
    [pc : {"idle"}, task : {NoTask}, got : {"-"}]
    \cup [pc : {"hasrec", "waiting", "closed", "cut"}, task : Tasks, got : {"-"}]
    \cup [pc : {"told"}, task : Tasks, got : {"unknown", "refused"} \cup Terminal]

TypeOK ==
    /\ now \in Nat
    /\ created \in [Tasks -> Nat]
    /\ rows \in [Tasks -> Row]
    /\ live \in SUBSET Tasks
    /\ runner \in [Tasks -> Runner]
    /\ agent \in [Tasks -> Agent]
    /\ caller \in [Callers -> CallerState]
    /\ sweep \in SUBSET Tasks
    /\ crashes \in Nat
    /\ panics \in SUBSET Tasks

Init ==
    /\ now = 0
    /\ created = [t \in Tasks |-> 0]
    /\ rows = [t \in Tasks |-> NoRow]
    /\ live = {}
    /\ runner = [t \in Tasks |-> Idle]
    /\ agent = [t \in Tasks |-> [filed |-> 0, result |-> "none"]]
    /\ caller = [c \in Callers |-> [pc |-> "idle", task |-> NoTask, got |-> "-"]]
    /\ sweep = {}
    /\ crashes = 0
    /\ panics = {}

(***************************************************************************)
(* The store.  A write may be lost when StoreMayFail: `update` and         *)
(* `update_running` log a failed `put` and go on.                          *)
(***************************************************************************)
WriteOutcomes == IF StoreMayFail THEN BOOLEAN ELSE {TRUE}

\* update_running: the record is re-read under the store's lock, and a
\* missing or finished one is left alone.
UpdateRunning(t, ok, new) ==
    rows' = [rows EXCEPT ![t] = IF ok /\ @.state = "working" THEN new ELSE @]

\* Runner::fail
Fail(t, ok, class) ==
    UpdateRunning(t, ok, [rows[t] EXCEPT !.state = "failed", !.class = class])

StateOf(outcome) == IF outcome = "completed" THEN "completed" ELSE "failed"

(***************************************************************************)
(* The callers' side of the broadcast channel of t.                        *)
(***************************************************************************)
Deliver(t, state) ==
    [c \in Callers |-> IF caller[c].pc = "waiting" /\ caller[c].task = t
                       THEN [caller[c] EXCEPT !.pc = "told", !.got = state]
                       ELSE caller[c]]

CloseChannel(t) ==
    [c \in Callers |-> IF caller[c].pc = "waiting" /\ caller[c].task = t
                       THEN [caller[c] EXCEPT !.pc = "closed"]
                       ELSE caller[c]]

(***************************************************************************)
(* Runner::start: open the hub entry, store the record (Persist::Now),     *)
(* spawn.  A trace id is used once.                                        *)
(***************************************************************************)
Fresh(t) == /\ t \notin live
            /\ rows[t].state = "none"
            /\ agent[t].filed = 0
            /\ \A c \in Callers : caller[c].task # t

Start(c, t, onAsync) ==
    /\ caller[c].pc = "idle"
    /\ Fresh(t)
    /\ now + TaskMax <= MaxTime      \* bound: every task can reach its deadline
    /\ live' = live \cup {t}
    /\ created' = [created EXCEPT ![t] = now]
    /\ runner' = [runner EXCEPT ![t] = [Idle EXCEPT !.pc = "opened", !.pending = onAsync]]
    /\ caller' = [caller EXCEPT ![c] = [pc |-> "waiting", task |-> t, got |-> "-"]]
    /\ UNCHANGED <<now, rows, agent, sweep, crashes, panics>>

StartSpawn(t) ==
    /\ runner[t].pc = "opened"
    /\ rows' = IF runner[t].pending THEN rows
               ELSE [rows EXCEPT ![t] = [state |-> "working", up |-> FALSE, class |-> "-"]]
    /\ runner' = [runner EXCEPT ![t].pc = "opening"]
    /\ UNCHANGED <<now, created, live, agent, caller, sweep, crashes, panics>>

\* A start whose record cannot be written is refused: the hub entry goes
\* and nothing is dispatched (StartError::Store).
StartRefused(t) ==
    /\ StoreMayFail
    /\ runner[t].pc = "opened"
    /\ ~runner[t].pending
    /\ live' = live \ {t}
    /\ runner' = [runner EXCEPT ![t] = Idle]
    /\ caller' = Deliver(t, "refused")
    /\ UNCHANGED <<now, created, rows, agent, sweep, crashes, panics>>

(***************************************************************************)
(* Runner::run.                                                            *)
(***************************************************************************)
Deadline(t) == created[t] + TaskMax

Finish(t, outcome) ==
    runner' = [runner EXCEPT ![t].pc = "finish", ![t].outcome = outcome]

\* The stream ended, or never opened, without a terminal event: with an
\* upstream task the runner pauses and resumes that task, unless the pause
\* would reach the deadline; without one the call is lost.
Broken(t, class) ==
    LET r == runner[t] IN
    IF ~r.up THEN Finish(t, class)
    ELSE IF now + r.backoff >= Deadline(t) THEN Finish(t, "tool")
    ELSE runner' = [runner EXCEPT ![t] =
            [r EXCEPT !.pc = "backoff", !.start = "resume",
                      !.wake = now + r.backoff,
                      !.backoff = IF 2 * r.backoff < BackoffMax
                                  THEN 2 * r.backoff ELSE BackoffMax]]

\* The request of a dispatch reaches the agent, which files it.  A resume
\* asks for a filed one by its id and files nothing.
AgentReceives(t) ==
    /\ runner[t].pc = "opening"
    /\ ~runner[t].sent
    /\ runner' = [runner EXCEPT ![t].sent = TRUE]
    /\ agent' = IF runner[t].start = "dispatch"
                THEN [agent EXCEPT ![t].filed = @ + 1] ELSE agent
    /\ UNCHANGED <<now, created, rows, live, caller, sweep, crashes, panics>>

\* invoke_streaming_with / resume_streaming_with answered with a stream.
OpenStream(t) ==
    /\ runner[t].pc = "opening"
    /\ runner[t].sent
    /\ runner' = [runner EXCEPT ![t].pc = "reading"]
    /\ UNCHANGED <<now, created, rows, live, agent, caller, sweep, crashes, panics>>

\* The open failed, before or after the request reached the agent, with an
\* error of any class (e.class()).
OpenError(t) ==
    /\ runner[t].pc = "opening"
    /\ \E class \in ErrorClasses : Broken(t, class)
    /\ UNCHANGED <<now, created, rows, live, agent, caller, sweep, crashes, panics>>

\* Mutant: only the open is bounded by the deadline, not the reads.
TimeoutOpenOnly(t) ==
    /\ runner[t].pc = "opening"
    /\ now >= Deadline(t)
    /\ Finish(t, "expired")
    /\ UNCHANGED <<now, created, rows, live, agent, caller, sweep, crashes, panics>>

\* timeout_at(deadline, ..) around the open and around every read.
Timeout(t) ==
    /\ runner[t].pc \in {"opening", "reading"}
    /\ now >= Deadline(t)
    /\ Finish(t, "expired")
    /\ UNCHANGED <<now, created, rows, live, agent, caller, sweep, crashes, panics>>

\* StreamEvent::Task: the upstream went asynchronous.  A record held back by
\* Persist::OnAsync is stored now.
TaskEvent(t) ==
    /\ runner[t].pc = "reading"
    /\ runner' = [runner EXCEPT ![t].up = TRUE, ![t].backoff = 1, ![t].pending = FALSE]
    /\ \E ok \in WriteOutcomes :
          IF runner[t].pending
          THEN rows' = IF ok THEN [rows EXCEPT ![t] = [state |-> "working", up |-> TRUE,
                                                       class |-> "-"]]
                       ELSE rows
          ELSE UpdateRunning(t, ok, [rows[t] EXCEPT !.up = TRUE])
    /\ UNCHANGED <<now, created, live, agent, caller, sweep, crashes, panics>>

\* StreamEvent::Progress with a text: the agent is alive, pauses start over.
ProgressEvent(t) ==
    /\ runner[t].pc = "reading"
    /\ runner' = [runner EXCEPT ![t].backoff = 1]
    /\ UNCHANGED <<now, created, rows, live, agent, caller, sweep, crashes, panics>>

\* Mutant: a stream that ends counts as an answer.
DoneAtStreamEnd(t) ==
    /\ runner[t].pc = "reading"
    /\ Finish(t, "completed")
    /\ UNCHANGED <<now, created, rows, live, agent, caller, sweep, crashes, panics>>

DoneEvent(t) ==
    /\ runner[t].pc = "reading"
    /\ agent[t].result = "done"
    /\ Finish(t, "completed")
    /\ UNCHANGED <<now, created, rows, live, agent, caller, sweep, crashes, panics>>

\* The agent's own `error` event (no status_detail).
AgentErrorEvent(t) ==
    /\ runner[t].pc = "reading"
    /\ agent[t].result = "error"
    /\ Finish(t, "agent")
    /\ UNCHANGED <<now, created, rows, live, agent, caller, sweep, crashes, panics>>

\* An oversized frame: a limit of Triton's that is not resumable.
OversizeEvent(t) ==
    /\ runner[t].pc = "reading"
    /\ Finish(t, "tool")
    /\ UNCHANGED <<now, created, rows, live, agent, caller, sweep, crashes, panics>>

\* The stream was cut (transport, idle, maximum duration) or just ended.
StreamBroken(t) ==
    /\ runner[t].pc = "reading"
    /\ Broken(t, "tool")
    /\ UNCHANGED <<now, created, rows, live, agent, caller, sweep, crashes, panics>>

Wake(t) ==
    /\ runner[t].pc = "backoff"
    /\ now >= runner[t].wake
    /\ runner' = [runner EXCEPT ![t].pc = "opening", ![t].sent = FALSE]
    /\ UNCHANGED <<now, created, rows, live, agent, caller, sweep, crashes, panics>>

\* Mutant: a failure is broadcast but not stored.
StoreOnlySuccess(t) ==
    /\ runner[t].pc = "finish"
    /\ runner' = [runner EXCEPT ![t].pc = "send"]
    /\ \E ok \in WriteOutcomes :
          UpdateRunning(t, ok /\ runner[t].outcome = "completed",
                        [rows[t] EXCEPT !.state = "completed"])
    /\ UNCHANGED <<now, created, live, agent, caller, sweep, crashes, panics>>

\* The end of run: first the store, then the broadcast, then the HubGuard.
StoreOutcome(t) ==
    /\ runner[t].pc = "finish"
    /\ runner' = [runner EXCEPT ![t].pc = "send"]
    /\ \E ok \in WriteOutcomes :
          IF runner[t].outcome = "completed"
          THEN UpdateRunning(t, ok, [rows[t] EXCEPT !.state = "completed"])
          ELSE Fail(t, ok, runner[t].outcome)
    /\ UNCHANGED <<now, created, live, agent, caller, sweep, crashes, panics>>

SendOutcome(t) ==
    /\ runner[t].pc = "send"
    /\ runner' = [runner EXCEPT ![t].pc = "close"]
    /\ caller' = Deliver(t, StateOf(runner[t].outcome))
    /\ UNCHANGED <<now, created, rows, live, agent, sweep, crashes, panics>>

\* HubGuard::drop; the channel closes with the hub's sender.
CloseHub(t) ==
    /\ runner[t].pc = "close"
    /\ live' = live \ {t}
    /\ runner' = [runner EXCEPT ![t] = Idle]
    /\ caller' = CloseChannel(t)
    /\ UNCHANGED <<now, created, rows, agent, sweep, crashes, panics>>

\* Mutant: no HubGuard, so a panic leaves the hub entry behind.
PanicUnguarded(t) ==
    /\ runner[t].pc = "finish"
    /\ runner[t].outcome = "completed"
    /\ runner' = [runner EXCEPT ![t] = Idle]
    /\ panics' = panics \cup {t}
    /\ UNCHANGED <<now, created, rows, live, agent, caller, sweep, crashes>>

\* A panic while the result is rendered unwinds through the HubGuard only.
Panic(t) ==
    /\ runner[t].pc = "finish"
    /\ runner[t].outcome = "completed"
    /\ runner' = [runner EXCEPT ![t].pc = "close"]
    /\ panics' = panics \cup {t}
    /\ UNCHANGED <<now, created, rows, live, agent, caller, sweep, crashes>>

(***************************************************************************)
(* Runner::ensure_running, called by the owner of a stored task.  The      *)
(* record it is given was read earlier; subscribe_or_claim re-reads it     *)
(* under the hub's lock.  The owner is an A2A reader, or the Teams boot    *)
(* sweep for a task whose sender still passes `revalidate`; a chat         *)
(* sender's task has no other reader.                                      *)
(***************************************************************************)
ReadRecord(c, t) ==
    /\ caller[c].pc \in {"idle", "cut"}
    /\ t \notin Revoked
    /\ rows[t].state = "working"
    /\ caller' = [caller EXCEPT ![c].pc = "hasrec", ![c].task = t]
    /\ UNCHANGED <<now, created, rows, live, runner, agent, sweep, crashes, panics>>

\* Mutant: the claim trusts the caller's record and does not re-read it.
ClaimOnStaleRecord(c) ==
    LET t == caller[c].task IN
    /\ caller[c].pc = "hasrec"
    /\ caller' = [caller EXCEPT ![c].pc = "waiting"]
    /\ \/ t \in live /\ UNCHANGED <<live, runner>>
       \/ /\ t \notin live
          /\ live' = live \cup {t}
          /\ runner' = [runner EXCEPT ![t] = [Idle EXCEPT !.pc = "claimed",
                                                          !.up = rows[t].up]]
    /\ UNCHANGED <<now, created, rows, agent, sweep, crashes, panics>>

SubscribeOrClaim(c) ==
    LET t == caller[c].task IN
    /\ caller[c].pc = "hasrec"
    /\ \/ /\ t \in live                                   \* Claim::Live
          /\ caller' = [caller EXCEPT ![c].pc = "waiting"]
          /\ UNCHANGED <<live, runner>>
       \/ /\ t \notin live /\ rows[t].state = "working"   \* Claim::Claimed
          /\ caller' = [caller EXCEPT ![c].pc = "waiting"]
          /\ live' = live \cup {t}
          /\ runner' = [runner EXCEPT ![t] = [Idle EXCEPT !.pc = "claimed",
                                                          !.up = rows[t].up]]
       \/ /\ t \notin live /\ rows[t].state # "working"   \* Claim::Finished
          /\ caller' = [caller EXCEPT ![c].pc = "closed"]
          /\ UNCHANGED <<live, runner>>
    /\ UNCHANGED <<now, created, rows, agent, sweep, crashes, panics>>

\* Claimed past its age, or without an upstream task to go back to: the task
\* fails, and the guard drops the entry again.
ClaimFails(t) ==
    /\ runner[t].pc = "claimed"
    /\ \E ok \in WriteOutcomes :
          \/ now > Deadline(t) /\ Fail(t, ok, "expired")
          \/ now <= Deadline(t) /\ ~runner[t].up /\ Fail(t, ok, "interrupted")
    /\ runner' = [runner EXCEPT ![t].pc = "close"]
    /\ UNCHANGED <<now, created, live, agent, caller, sweep, crashes, panics>>

\* Mutant: a stored task is run again instead of resumed.
ClaimRedispatches(t) ==
    /\ runner[t].pc = "claimed"
    /\ now <= Deadline(t)
    /\ runner[t].up
    /\ runner' = [runner EXCEPT ![t].pc = "opening"]
    /\ UNCHANGED <<now, created, rows, live, agent, caller, sweep, crashes, panics>>

ClaimResumes(t) ==
    /\ runner[t].pc = "claimed"
    /\ now <= Deadline(t)
    /\ runner[t].up
    /\ runner' = [runner EXCEPT ![t].pc = "opening", ![t].start = "resume"]
    /\ UNCHANGED <<now, created, rows, live, agent, caller, sweep, crashes, panics>>

\* A caller whose channel closed before it saw the end reads the store.
ReadOutcome(c) ==
    /\ caller[c].pc = "closed"
    /\ caller' = [caller EXCEPT ![c].pc = "told",
                     ![c].got = LET s == rows[caller[c].task].state
                                IN  IF s \in Terminal THEN s ELSE "unknown"]
    /\ UNCHANGED <<now, created, rows, live, runner, agent, sweep, crashes, panics>>

(***************************************************************************)
(* The environment.                                                        *)
(***************************************************************************)
AgentFinish(t) ==
    /\ agent[t].filed > 0
    /\ agent[t].result = "none"
    /\ \E r \in {"done", "error"} : agent' = [agent EXCEPT ![t].result = r]
    /\ UNCHANGED <<now, created, rows, live, runner, caller, sweep, crashes, panics>>

Tick ==
    /\ now < MaxTime
    /\ now' = now + 1
    /\ UNCHANGED <<created, rows, live, runner, agent, caller, sweep, crashes, panics>>

\* The process dies and comes back: only the store survives.
Crash ==
    /\ crashes < MaxCrashes
    /\ crashes' = crashes + 1
    /\ live' = {}
    /\ runner' = [t \in Tasks |-> Idle]
    /\ caller' = [c \in Callers |-> IF caller[c].pc \in {"hasrec", "waiting", "closed"}
                                    THEN [caller[c] EXCEPT !.pc = "cut"] ELSE caller[c]]
    /\ sweep' = {t \in Revoked : rows[t].state # "none"}
    /\ UNCHANGED <<now, created, rows, agent, panics>>

\* The Teams adapter's boot sweep (resume_stored_tasks, resume_task): a task
\* whose sender no longer passes `revalidate` is failed straight away, with
\* no claim on the hub.
RefuseResume(t) ==
    /\ t \in sweep
    /\ sweep' = sweep \ {t}
    /\ \E ok \in WriteOutcomes : Fail(t, ok, "forbidden")
    /\ UNCHANGED <<now, created, live, runner, agent, caller, crashes, panics>>

\* A step the process takes of itself, without the agent or a caller.
RunnerStep(t) ==
    \/ StartSpawn(t) \/ Timeout(t) \/ Wake(t)
    \/ StoreOutcome(t) \/ SendOutcome(t) \/ CloseHub(t)
    \/ ClaimFails(t) \/ ClaimResumes(t)

Next ==
    \/ \E c \in Callers, t \in Tasks, onAsync \in BOOLEAN : Start(c, t, onAsync)
    \/ \E c \in Callers, t \in Tasks : ReadRecord(c, t)
    \/ \E c \in Callers : SubscribeOrClaim(c) \/ ReadOutcome(c)
    \/ \E t \in Tasks :
          \/ StartSpawn(t) \/ StartRefused(t)
          \/ AgentReceives(t) \/ OpenStream(t) \/ OpenError(t) \/ Timeout(t)
          \/ TaskEvent(t) \/ ProgressEvent(t) \/ DoneEvent(t)
          \/ AgentErrorEvent(t) \/ OversizeEvent(t) \/ StreamBroken(t)
          \/ Wake(t) \/ StoreOutcome(t) \/ SendOutcome(t) \/ CloseHub(t)
          \/ Panic(t) \/ ClaimFails(t) \/ ClaimResumes(t)
          \/ AgentFinish(t) \/ RefuseResume(t)
    \/ Tick
    \/ Crash

Spec == Init /\ [][Next]_vars

\* Tokio polls every ready future and time passes.  Nothing is assumed of
\* the agent, of the callers or of the crashes.
Fairness ==
    /\ WF_vars(Tick)
    /\ \A t \in Tasks : WF_vars(RunnerStep(t))
    /\ \A c \in Callers : WF_vars(SubscribeOrClaim(c)) /\ WF_vars(ReadOutcome(c))

FairSpec == Spec /\ Fairness

(***************************************************************************)
(* Properties.                                                             *)
(***************************************************************************)

\* "A resumed call never files a second request": whatever breaks, restarts
\* or retries, the agent is asked to do the work of a turn at most once.
OneFiling == \A t \in Tasks : agent[t].filed <= 1

\* A runner that still drives its task owns a stored record that is running:
\* the claim is decided on the record as it is under the hub's lock, so a
\* task that has just ended is never driven a second time.
Driving == {"opening", "reading", "backoff", "claimed", "finish"}

RunnerOwnsRunningTask ==
    \A t \in Tasks : (runner[t].pc \in Driving /\ ~runner[t].pending)
                       => rows[t].state = "working"

\* A blocking send, a stream, a later read and a resubscribe see the same
\* task: what any caller was told is what the store says from then on.
ToldAgrees ==
    \A c \in Callers :
        LET t == caller[c].task IN
        (caller[c].got \in Terminal /\ rows[t].state # "none")
            => rows[t].state = caller[c].got

\* A finished record is final: no stale reader, late runner or refused
\* resume rewrites it.
FinishedStays ==
    [][\A t \in Tasks : rows[t].state \in Terminal => rows'[t] = rows[t]]_vars

\* Every task this process drives comes to an end (the deadline bounds the
\* open, every read and the resumes) and leaves the hub.
LiveTaskEnds == \A t \in Tasks : t \in live ~> t \notin live

\* A caller that follows a task is answered, unless a crash cuts it off: no
\* channel is left without a sender that will speak or close.
CallerAnswered ==
    \A c \in Callers : caller[c].pc \in {"hasrec", "waiting", "closed"}
                         ~> caller[c].pc \in {"told", "cut"}

\* The runner implements the abstract board of tasks.
Board == INSTANCE TaskBoard WITH
            status  <- [t \in Tasks |-> rows[t].state],
            filings <- [t \in Tasks |-> agent[t].filed],
            answer  <- [t \in Tasks |-> agent[t].result],
            told    <- [c \in Callers |-> caller[c].got]

BoardSpec == Board!Spec
=============================================================================
