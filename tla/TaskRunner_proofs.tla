------------------------- MODULE TaskRunner_proofs -------------------------
(***************************************************************************)
(* Proofs about TaskRunner, for every set of tasks and callers and every   *)
(* value of the bounds.                                                    *)
(***************************************************************************)
EXTENDS TaskRunner, TLAPS

(***************************************************************************)
(* Types.                                                                  *)
(***************************************************************************)

\* Breaking off keeps the runner's locals in their types.
LEMMA BrokenType ==
    ASSUME TypeOK, NEW t \in Tasks, NEW class \in Classes, Broken(t, class)
    PROVE  runner' \in [Tasks -> Runner]
<1> USE DEF TypeOK, Runner, Points, Outcomes
<1>1. CASE ~runner[t].up
  BY <1>1 DEF Broken, Finish
<1>2. CASE runner[t].up /\ now + runner[t].backoff >= Deadline(t)
  BY <1>2 DEF Broken, Finish, Classes, ErrorClasses
<1>3. CASE runner[t].up /\ ~(now + runner[t].backoff >= Deadline(t))
  <2>1. now + runner[t].backoff \in Nat
    OBVIOUS
  <2>2. (IF 2 * runner[t].backoff < BackoffMax THEN 2 * runner[t].backoff
         ELSE BackoffMax) \in 1 .. BackoffMax
    BY TimeAssumption
  <2> DEFINE pause == IF 2 * runner[t].backoff < BackoffMax
                      THEN 2 * runner[t].backoff ELSE BackoffMax
  <2> DEFINE r2 == [runner[t] EXCEPT !.pc = "backoff", !.start = "resume",
                       !.wake = now + runner[t].backoff, !.backoff = pause]
  <2>3. runner' = [runner EXCEPT ![t] = r2]
    BY <1>3 DEF Broken
  <2>4. r2 \in Runner
    BY <2>1, <2>2
  <2> QED BY <2>3, <2>4
<1> QED BY <1>1, <1>2, <1>3

\* A runner that has just been opened or claimed is well typed.
LEMMA NewRunnerType ==
    ASSUME NEW b \in BOOLEAN
    PROVE  /\ Idle \in Runner
           /\ [Idle EXCEPT !.pc = "opened", !.pending = b] \in Runner
           /\ [Idle EXCEPT !.pc = "claimed", !.up = b] \in Runner
<1>1. Idle \in Runner
  BY TimeAssumption DEF Idle, Runner, Points
<1>2. \A r \in Runner : /\ [r EXCEPT !.pc = "opened", !.pending = b] \in Runner
                         /\ [r EXCEPT !.pc = "claimed", !.up = b] \in Runner
  BY DEF Runner, Points
<1> QED BY <1>1, <1>2

\* The updates that run and ensure_running make to their locals.
LEMMA RunnerStepType ==
    ASSUME NEW r \in Runner, NEW p \in Points, NEW o \in Outcomes
    PROVE  /\ [r EXCEPT !.pc = p] \in Runner
           /\ [r EXCEPT !.pc = p, !.outcome = o] \in Runner
           /\ [r EXCEPT !.pc = p, !.start = "resume"] \in Runner
           /\ [r EXCEPT !.pc = p, !.sent = FALSE] \in Runner
           /\ [r EXCEPT !.sent = TRUE] \in Runner
           /\ [r EXCEPT !.backoff = 1] \in Runner
           /\ [r EXCEPT !.up = TRUE, !.backoff = 1, !.pending = FALSE] \in Runner
<1>1. [r EXCEPT !.pc = p] \in Runner
  BY DEF Runner
<1>2. [r EXCEPT !.pc = p, !.outcome = o] \in Runner
  BY DEF Runner
<1>3. [r EXCEPT !.pc = p, !.start = "resume"] \in Runner
  BY DEF Runner
<1>4. [r EXCEPT !.pc = p, !.sent = FALSE] \in Runner
  BY DEF Runner
<1>5. [r EXCEPT !.sent = TRUE] \in Runner
  BY DEF Runner
<1>6. \A q \in Runner : [q EXCEPT !.backoff = 1] \in Runner
  BY TimeAssumption DEF Runner
<1>7. \A q \in Runner : [q EXCEPT !.pending = FALSE] \in Runner
  BY DEF Runner
<1>8. [r EXCEPT !.up = TRUE] \in Runner
  BY DEF Runner
<1>9. [[[r EXCEPT !.up = TRUE] EXCEPT !.backoff = 1] EXCEPT !.pending = FALSE] \in Runner
  BY <1>6, <1>7, <1>8
<1> QED BY <1>1, <1>2, <1>3, <1>4, <1>5, <1>6, <1>9

\* Telling or closing off the subscribers of a task keeps the callers' types.
LEMMA ChannelType ==
    ASSUME TypeOK, NEW t \in Tasks, NEW state \in {"refused"} \cup Terminal
    PROVE  /\ Deliver(t, state) \in [Callers -> CallerState]
           /\ CloseChannel(t) \in [Callers -> CallerState]
BY DEF TypeOK, Deliver, CloseChannel, CallerState, Terminal

\* update_running and fail write records.
LEMMA UpdateType ==
    ASSUME TypeOK, NEW t \in Tasks, NEW ok \in BOOLEAN, NEW new \in Row,
           UpdateRunning(t, ok, new)
    PROVE  rows' \in [Tasks -> Row]
BY DEF TypeOK, UpdateRunning

\* Runner::fail writes a record, with any error class.
LEMMA FailType ==
    ASSUME TypeOK, NEW t \in Tasks, NEW ok \in BOOLEAN, NEW class \in Classes \cup {"-"},
           Fail(t, ok, class)
    PROVE  rows' \in [Tasks -> Row]
<1>1. [rows[t] EXCEPT !.state = "failed", !.class = class] \in Row
  BY DEF TypeOK, Row, Terminal
<1> QED BY <1>1, UpdateType DEF Fail

\* A freshly booted process is well typed.
LEMMA TypeInit == Init => TypeOK
BY TimeAssumption, NoTaskAssumption
DEF Init, TypeOK, NoRow, Row, Idle, Runner, Points, Agent, CallerState

\* Type correctness of the task runner (TypeOK), for every task set,
\* deadline and pause: no step of run, start or ensure_running leaves a
\* record, a runner or a caller in a shape the code has no name for.
THEOREM TypeCorrect == Spec => []TypeOK
<1> USE DEF vars
<1>1. Init => TypeOK
  BY TypeInit
<1>2. TypeOK /\ [Next]_vars => TypeOK'
  <2> SUFFICES ASSUME TypeOK, [Next]_vars PROVE TypeOK'
    OBVIOUS
  <2>1. ASSUME NEW c \in Callers, NEW t \in Tasks, NEW onAsync \in BOOLEAN,
               Start(c, t, onAsync)
        PROVE  TypeOK'
    <3>1. [Idle EXCEPT !.pc = "opened", !.pending = onAsync] \in Runner
      BY NewRunnerType
    <3>2. [pc |-> "waiting", task |-> t, got |-> "-"] \in CallerState
      BY DEF CallerState
    <3> QED BY <2>1, <3>1, <3>2 DEF TypeOK, Start
  <2>2. ASSUME NEW c \in Callers, NEW t \in Tasks, ReadRecord(c, t)
        PROVE  TypeOK'
    <3>1. [caller[c] EXCEPT !.pc = "hasrec", !.task = t] \in CallerState
      BY <2>2 DEF TypeOK, ReadRecord, CallerState
    <3> QED BY <2>2, <3>1 DEF TypeOK, ReadRecord
  <2>3. ASSUME NEW c \in Callers, SubscribeOrClaim(c)
        PROVE  TypeOK'
    <3>1. caller' \in [Callers -> CallerState]
      BY <2>3 DEF TypeOK, SubscribeOrClaim, CallerState
    <3>2. live' \in SUBSET Tasks /\ runner' \in [Tasks -> Runner]
      <4>1. CASE UNCHANGED <<live, runner>>
        BY <4>1 DEF TypeOK
      <4>2. CASE caller[c].task \notin live /\ rows[caller[c].task].state = "working"
                 /\ live' = live \cup {caller[c].task}
        <5>1. caller[c].task \in Tasks
          BY <4>2, <2>3 DEF TypeOK, CallerState, SubscribeOrClaim
        <5>2. [Idle EXCEPT !.pc = "claimed", !.up = rows[caller[c].task].up] \in Runner
          <6>1. rows[caller[c].task].up \in BOOLEAN
            BY <5>1 DEF TypeOK, Row
          <6>2. \A b \in BOOLEAN : [Idle EXCEPT !.pc = "claimed", !.up = b] \in Runner
            BY NewRunnerType
          <6> QED BY <6>1, <6>2, Zenon
        <5> QED BY <4>2, <5>1, <5>2, <2>3 DEF TypeOK, SubscribeOrClaim
      <4> QED BY <4>1, <4>2, <2>3 DEF SubscribeOrClaim
    <3> QED BY <2>3, <3>1, <3>2 DEF TypeOK, SubscribeOrClaim
  <2>4. ASSUME NEW c \in Callers, ReadOutcome(c)
        PROVE  TypeOK'
    <3> DEFINE s == rows[caller[c].task].state
               g == IF s \in Terminal THEN s ELSE "unknown"
    <3>1. g \in {"unknown"} \cup Terminal
      OBVIOUS
    <3>2. caller' = [caller EXCEPT ![c].pc = "told", ![c].got = g]
      BY <2>4 DEF ReadOutcome
    <3> HIDE DEF g
    <3>3. [caller[c] EXCEPT !.pc = "told", !.got = g] \in CallerState
      BY <2>4, <3>1 DEF TypeOK, ReadOutcome, CallerState
    <3>4. caller' \in [Callers -> CallerState]
      BY <3>2, <3>3 DEF TypeOK
    <3> QED BY <2>4, <3>4 DEF TypeOK, ReadOutcome
  <2>5. ASSUME NEW t \in Tasks, StartSpawn(t)
        PROVE  TypeOK'
    <3>1. rows' \in [Tasks -> Row]
      BY <2>5 DEF TypeOK, StartSpawn, Row
    <3>2. [runner[t] EXCEPT !.pc = "opening"] \in Runner
      BY RunnerStepType DEF TypeOK, Points, Outcomes
    <3> QED BY <2>5, <3>1, <3>2 DEF TypeOK, StartSpawn
  <2>6. ASSUME NEW t \in Tasks, StartRefused(t)
        PROVE  TypeOK'
    BY <2>6, ChannelType, NewRunnerType DEF TypeOK, StartRefused
  <2>7. ASSUME NEW t \in Tasks, AgentReceives(t)
        PROVE  TypeOK'
    <3>1. [runner[t] EXCEPT !.sent = TRUE] \in Runner
      BY RunnerStepType DEF TypeOK, Points, Outcomes
    <3>2. agent' \in [Tasks -> Agent]
      BY <2>7 DEF TypeOK, AgentReceives, Agent
    <3> QED BY <2>7, <3>1, <3>2 DEF TypeOK, AgentReceives
  <2>8. ASSUME NEW t \in Tasks, OpenStream(t)
        PROVE  TypeOK'
    <3>1. [runner[t] EXCEPT !.pc = "reading"] \in Runner
      BY RunnerStepType DEF TypeOK, Points, Outcomes
    <3> QED BY <2>8, <3>1 DEF TypeOK, OpenStream
  <2>9. ASSUME NEW t \in Tasks, Wake(t)
        PROVE  TypeOK'
    <3>1. [runner[t] EXCEPT !.pc = "opening", !.sent = FALSE] \in Runner
      BY RunnerStepType DEF TypeOK, Points, Outcomes
    <3> QED BY <2>9, <3>1 DEF TypeOK, Wake
  <2>10. ASSUME NEW t \in Tasks, ClaimResumes(t)
        PROVE  TypeOK'
    <3>1. [runner[t] EXCEPT !.pc = "opening", !.start = "resume"] \in Runner
      BY RunnerStepType DEF TypeOK, Points, Outcomes
    <3> QED BY <2>10, <3>1 DEF TypeOK, ClaimResumes
  <2>11. ASSUME NEW t \in Tasks, ProgressEvent(t)
        PROVE  TypeOK'
    <3>1. [runner[t] EXCEPT !.backoff = 1] \in Runner
      BY RunnerStepType DEF TypeOK, Points, Outcomes
    <3> QED BY <2>11, <3>1 DEF TypeOK, ProgressEvent
  <2>12. ASSUME NEW t \in Tasks, OpenError(t)
        PROVE  TypeOK'
    <3>1. runner' \in [Tasks -> Runner]
      BY <2>12, BrokenType DEF OpenError, Classes, ErrorClasses
    <3> QED BY <2>12, <3>1 DEF TypeOK, OpenError
  <2>13. ASSUME NEW t \in Tasks, StreamBroken(t)
        PROVE  TypeOK'
    <3>1. runner' \in [Tasks -> Runner]
      BY <2>13, BrokenType DEF StreamBroken, Classes, ErrorClasses
    <3> QED BY <2>13, <3>1 DEF TypeOK, StreamBroken
  <2>14. ASSUME NEW t \in Tasks, Timeout(t)
        PROVE  TypeOK'
    <3>1. [runner[t] EXCEPT !.pc = "finish", !.outcome = "expired"] \in Runner
      BY RunnerStepType DEF TypeOK, Points, Outcomes, Classes, ErrorClasses
    <3> QED BY <2>14, <3>1 DEF TypeOK, Timeout, Finish
  <2>15. ASSUME NEW t \in Tasks, DoneEvent(t)
        PROVE  TypeOK'
    <3>1. [runner[t] EXCEPT !.pc = "finish", !.outcome = "completed"] \in Runner
      BY RunnerStepType DEF TypeOK, Points, Outcomes, Classes, ErrorClasses
    <3> QED BY <2>15, <3>1 DEF TypeOK, DoneEvent, Finish
  <2>16. ASSUME NEW t \in Tasks, AgentErrorEvent(t)
        PROVE  TypeOK'
    <3>1. [runner[t] EXCEPT !.pc = "finish", !.outcome = "agent"] \in Runner
      BY RunnerStepType DEF TypeOK, Points, Outcomes, Classes, ErrorClasses
    <3> QED BY <2>16, <3>1 DEF TypeOK, AgentErrorEvent, Finish
  <2>17. ASSUME NEW t \in Tasks, OversizeEvent(t)
        PROVE  TypeOK'
    <3>1. [runner[t] EXCEPT !.pc = "finish", !.outcome = "tool"] \in Runner
      BY RunnerStepType DEF TypeOK, Points, Outcomes, Classes, ErrorClasses
    <3> QED BY <2>17, <3>1 DEF TypeOK, OversizeEvent, Finish
  <2>18. ASSUME NEW t \in Tasks, TaskEvent(t)
        PROVE  TypeOK'
    <3>1. [runner[t] EXCEPT !.up = TRUE, !.backoff = 1, !.pending = FALSE] \in Runner
      BY RunnerStepType DEF TypeOK, Points, Outcomes
    <3>2. rows' \in [Tasks -> Row]
      <4>1. /\ [state |-> "working", up |-> TRUE, class |-> "-"] \in Row
            /\ [rows[t] EXCEPT !.up = TRUE] \in Row
        BY DEF TypeOK, Row
      <4> QED BY <2>18, <4>1 DEF TypeOK, TaskEvent, UpdateRunning
    <3> QED BY <2>18, <3>1, <3>2 DEF TypeOK, TaskEvent
  <2>19. ASSUME NEW t \in Tasks, StoreOutcome(t)
        PROVE  TypeOK'
    <3>1. PICK ok \in BOOLEAN :
             IF runner[t].outcome = "completed"
             THEN UpdateRunning(t, ok, [rows[t] EXCEPT !.state = "completed"])
             ELSE Fail(t, ok, runner[t].outcome)
      BY <2>19 DEF StoreOutcome, WriteOutcomes
    <3>2. rows' \in [Tasks -> Row]
      <4>1. [rows[t] EXCEPT !.state = "completed"] \in Row
        BY DEF TypeOK, Row, Terminal
      <4>2. CASE runner[t].outcome = "completed"
        BY <3>1, <4>1, <4>2, UpdateType
      <4>3. CASE runner[t].outcome \in (Classes \cup {"-"}) \ {"completed"}
        BY <3>1, <4>3, FailType
      <4> QED BY <4>2, <4>3 DEF TypeOK, Runner, Outcomes
    <3>3. [runner[t] EXCEPT !.pc = "send"] \in Runner
      BY RunnerStepType DEF TypeOK, Points, Outcomes
    <3> QED BY <2>19, <3>2, <3>3 DEF TypeOK, StoreOutcome
  <2>20. ASSUME NEW t \in Tasks, SendOutcome(t)
        PROVE  TypeOK'
    <3>1. StateOf(runner[t].outcome) \in Terminal
      BY DEF StateOf, Terminal
    <3>2. caller' \in [Callers -> CallerState]
      BY <2>20, <3>1, ChannelType DEF SendOutcome
    <3>3. [runner[t] EXCEPT !.pc = "close"] \in Runner
      BY RunnerStepType DEF TypeOK, Points, Outcomes
    <3> QED BY <2>20, <3>2, <3>3 DEF TypeOK, SendOutcome
  <2>21. ASSUME NEW t \in Tasks, CloseHub(t)
        PROVE  TypeOK'
    BY <2>21, ChannelType, NewRunnerType DEF TypeOK, CloseHub, Terminal
  <2>22. ASSUME NEW t \in Tasks, Panic(t)
        PROVE  TypeOK'
    <3>1. [runner[t] EXCEPT !.pc = "close"] \in Runner
      BY RunnerStepType DEF TypeOK, Points, Outcomes
    <3> QED BY <2>22, <3>1 DEF TypeOK, Panic
  <2>23. ASSUME NEW t \in Tasks, ClaimFails(t)
        PROVE  TypeOK'
    <3>1. rows' \in [Tasks -> Row]
      BY <2>23, FailType DEF ClaimFails, WriteOutcomes, Classes, ErrorClasses
    <3>2. [runner[t] EXCEPT !.pc = "close"] \in Runner
      BY RunnerStepType DEF TypeOK, Points, Outcomes
    <3> QED BY <2>23, <3>1, <3>2 DEF TypeOK, ClaimFails
  <2>24. ASSUME NEW t \in Tasks, AgentFinish(t)
        PROVE  TypeOK'
    BY <2>24 DEF TypeOK, AgentFinish, Agent
  <2>25. ASSUME NEW t \in Tasks, RefuseResume(t)
        PROVE  TypeOK'
    <3>1. rows' \in [Tasks -> Row]
      BY <2>25, FailType DEF RefuseResume, WriteOutcomes, Classes, ErrorClasses
    <3> QED BY <2>25, <3>1 DEF TypeOK, RefuseResume
  <2>26. CASE Tick
    BY <2>26 DEF TypeOK, Tick
  <2>27. CASE Crash
    <3>1. runner' \in [Tasks -> Runner]
      BY <2>27, NewRunnerType DEF Crash
    <3>2. caller' \in [Callers -> CallerState]
      BY <2>27 DEF TypeOK, Crash, CallerState
    <3> QED BY <2>27, <3>1, <3>2, RevokedAssumption DEF TypeOK, Crash
  <2>28. CASE UNCHANGED vars
    BY <2>28 DEF TypeOK
  <2> QED
    BY <2>1, <2>2, <2>3, <2>4, <2>5, <2>6, <2>7, <2>8, <2>9, <2>10, <2>11,
       <2>12, <2>13, <2>14, <2>15, <2>16, <2>17, <2>18, <2>19, <2>20, <2>21,
       <2>22, <2>23, <2>24, <2>25, <2>26, <2>27, <2>28 DEF Next
<1> QED BY <1>1, <1>2, PTL DEF Spec

(***************************************************************************)
(* One filing per turn.  OneFiling is not inductive: a second request is   *)
(* impossible because a runner whose request has not gone out yet is       *)
(* either the first one (nothing filed) or a resume.                       *)
(***************************************************************************)

\* A dispatch that has not reached the agent is the first of its turn, and a
\* pause is always followed by a resume.
UnsentIsFirst ==
    \A t \in Tasks :
        /\ (/\ runner[t].pc \in {"opened", "opening"}
            /\ runner[t].start = "dispatch" /\ ~runner[t].sent)
           => agent[t].filed = 0
        /\ runner[t].pc = "backoff" => runner[t].start = "resume"

FilingInv == TypeOK /\ OneFiling /\ UnsentIsFirst

\* Where a broken stream leaves the runners: t finishes, or pauses before a
\* resume, with its pending record as it was; the others are untouched.
LEMMA BrokenMoves ==
    ASSUME TypeOK, NEW t \in Tasks, NEW class, Broken(t, class)
    PROVE  /\ DOMAIN runner' = Tasks
           /\ \A u \in Tasks \ {t} : runner'[u] = runner[u]
           /\ runner'[t].pending = runner[t].pending
           /\ \/ runner'[t].pc = "finish"
              \/ runner'[t].pc = "backoff" /\ runner'[t].start = "resume"
<1>1. CASE ~runner[t].up
  BY <1>1 DEF Broken, Finish, TypeOK, Runner
<1>2. CASE runner[t].up /\ now + runner[t].backoff >= Deadline(t)
  BY <1>2 DEF Broken, Finish, TypeOK, Runner
<1>3. CASE runner[t].up /\ ~(now + runner[t].backoff >= Deadline(t))
  <2> DEFINE pause == IF 2 * runner[t].backoff < BackoffMax
                      THEN 2 * runner[t].backoff ELSE BackoffMax
  <2>1. runner' = [runner EXCEPT ![t] =
                     [runner[t] EXCEPT !.pc = "backoff", !.start = "resume",
                        !.wake = now + runner[t].backoff, !.backoff = pause]]
    BY <1>3 DEF Broken
  <2> HIDE DEF pause
  <2> QED BY <2>1 DEF TypeOK, Runner
<1> QED BY <1>1, <1>2, <1>3

\* What a claim does to the hub and the runners.
LEMMA ClaimMoves ==
    ASSUME TypeOK, NEW c \in Callers, SubscribeOrClaim(c)
    PROVE  /\ caller[c].task \in Tasks
           /\ \/ UNCHANGED <<live, runner>>
              \/ /\ rows[caller[c].task].state = "working"
                 /\ caller[c].task \notin live
                 /\ live' = live \cup {caller[c].task}
                 /\ DOMAIN runner' = Tasks
                 /\ \A u \in Tasks \ {caller[c].task} : runner'[u] = runner[u]
                 /\ runner'[caller[c].task].pc = "claimed"
                 /\ ~runner'[caller[c].task].pending
<1>1. caller[c].task \in Tasks
  BY DEF TypeOK, CallerState, SubscribeOrClaim
<1> DEFINE t == caller[c].task
           fresh == [Idle EXCEPT !.pc = "claimed", !.up = rows[t].up]
<1>2. fresh.pc = "claimed" /\ ~fresh.pending
  BY DEF Idle
<1>3. \/ UNCHANGED <<live, runner>>
      \/ /\ rows[t].state = "working" /\ t \notin live /\ live' = live \cup {t}
         /\ runner' = [runner EXCEPT ![t] = fresh]
  BY DEF SubscribeOrClaim
<1> HIDE DEF fresh
<1> QED BY <1>1, <1>2, <1>3 DEF TypeOK

\* FilingInv holds: run resumes by the upstream's task id and ensure_running
\* never dispatches.
LEMMA FilingHolds == Spec => []FilingInv
<1> USE DEF vars
<1>1. Init => FilingInv
  <2>1. Init => TypeOK
    BY TypeInit
  <2> QED BY <2>1 DEF Init, FilingInv, OneFiling, UnsentIsFirst, Idle
<1>2. FilingInv /\ TypeOK' /\ [Next]_vars => FilingInv'
  <2> SUFFICES ASSUME FilingInv, TypeOK', [Next]_vars
               PROVE  OneFiling' /\ UnsentIsFirst'
    BY DEF FilingInv
  <2> USE DEF FilingInv, OneFiling, UnsentIsFirst
  <2>1. ASSUME NEW c \in Callers, NEW t \in Tasks, NEW onAsync \in BOOLEAN,
               Start(c, t, onAsync)
        PROVE  OneFiling' /\ UnsentIsFirst'
    BY <2>1 DEF Start, Fresh, TypeOK, Idle
  <2>2. ASSUME NEW c \in Callers, NEW t \in Tasks, ReadRecord(c, t)
        PROVE  OneFiling' /\ UnsentIsFirst'
    BY <2>2 DEF ReadRecord
  <2>3. ASSUME NEW c \in Callers, SubscribeOrClaim(c)
        PROVE  OneFiling' /\ UnsentIsFirst'
    BY <2>3, ClaimMoves DEF SubscribeOrClaim
  <2>4. ASSUME NEW c \in Callers, ReadOutcome(c)
        PROVE  OneFiling' /\ UnsentIsFirst'
    BY <2>4 DEF ReadOutcome
  <2>5. ASSUME NEW t \in Tasks, StartSpawn(t)
        PROVE  OneFiling' /\ UnsentIsFirst'
    BY <2>5 DEF TypeOK, StartSpawn
  <2>6. ASSUME NEW t \in Tasks, StartRefused(t)
        PROVE  OneFiling' /\ UnsentIsFirst'
    BY <2>6 DEF TypeOK, StartRefused, Idle
  <2>7. ASSUME NEW t \in Tasks, AgentReceives(t)
        PROVE  OneFiling' /\ UnsentIsFirst'
    BY <2>7 DEF TypeOK, AgentReceives, Agent
  <2>8. ASSUME NEW t \in Tasks, OpenStream(t)
        PROVE  OneFiling' /\ UnsentIsFirst'
    BY <2>8 DEF TypeOK, OpenStream
  <2>9. ASSUME NEW t \in Tasks, Wake(t)
        PROVE  OneFiling' /\ UnsentIsFirst'
    BY <2>9 DEF TypeOK, Wake
  <2>10. ASSUME NEW t \in Tasks, ClaimResumes(t)
        PROVE  OneFiling' /\ UnsentIsFirst'
    BY <2>10 DEF TypeOK, ClaimResumes
  <2>11. ASSUME NEW t \in Tasks, ProgressEvent(t)
        PROVE  OneFiling' /\ UnsentIsFirst'
    BY <2>11 DEF TypeOK, ProgressEvent
  <2>12. ASSUME NEW t \in Tasks, OpenError(t)
        PROVE  OneFiling' /\ UnsentIsFirst'
    BY <2>12, BrokenMoves DEF OpenError
  <2>13. ASSUME NEW t \in Tasks, StreamBroken(t)
        PROVE  OneFiling' /\ UnsentIsFirst'
    BY <2>13, BrokenMoves DEF StreamBroken
  <2>14. ASSUME NEW t \in Tasks, Timeout(t)
        PROVE  OneFiling' /\ UnsentIsFirst'
    BY <2>14 DEF TypeOK, Timeout, Finish
  <2>15. ASSUME NEW t \in Tasks, DoneEvent(t)
        PROVE  OneFiling' /\ UnsentIsFirst'
    BY <2>15 DEF TypeOK, DoneEvent, Finish
  <2>16. ASSUME NEW t \in Tasks, AgentErrorEvent(t)
        PROVE  OneFiling' /\ UnsentIsFirst'
    BY <2>16 DEF TypeOK, AgentErrorEvent, Finish
  <2>17. ASSUME NEW t \in Tasks, OversizeEvent(t)
        PROVE  OneFiling' /\ UnsentIsFirst'
    BY <2>17 DEF TypeOK, OversizeEvent, Finish
  <2>18. ASSUME NEW t \in Tasks, TaskEvent(t)
        PROVE  OneFiling' /\ UnsentIsFirst'
    BY <2>18 DEF TypeOK, TaskEvent
  <2>19. ASSUME NEW t \in Tasks, StoreOutcome(t)
        PROVE  OneFiling' /\ UnsentIsFirst'
    BY <2>19 DEF TypeOK, StoreOutcome
  <2>20. ASSUME NEW t \in Tasks, SendOutcome(t)
        PROVE  OneFiling' /\ UnsentIsFirst'
    BY <2>20 DEF TypeOK, SendOutcome
  <2>21. ASSUME NEW t \in Tasks, CloseHub(t)
        PROVE  OneFiling' /\ UnsentIsFirst'
    BY <2>21 DEF TypeOK, CloseHub, Idle
  <2>22. ASSUME NEW t \in Tasks, Panic(t)
        PROVE  OneFiling' /\ UnsentIsFirst'
    BY <2>22 DEF TypeOK, Panic
  <2>23. ASSUME NEW t \in Tasks, ClaimFails(t)
        PROVE  OneFiling' /\ UnsentIsFirst'
    BY <2>23 DEF TypeOK, ClaimFails
  <2>24. ASSUME NEW t \in Tasks, AgentFinish(t)
        PROVE  OneFiling' /\ UnsentIsFirst'
    BY <2>24 DEF TypeOK, AgentFinish, Agent
  <2>25. ASSUME NEW t \in Tasks, RefuseResume(t)
        PROVE  OneFiling' /\ UnsentIsFirst'
    BY <2>25 DEF TypeOK, RefuseResume
  <2>26. CASE Tick
    BY <2>26 DEF Tick
  <2>27. CASE Crash
    BY <2>27 DEF Crash, Idle
  <2>28. CASE UNCHANGED vars
    BY <2>28
  <2> QED
    BY <2>1, <2>2, <2>3, <2>4, <2>5, <2>6, <2>7, <2>8, <2>9, <2>10, <2>11,
       <2>12, <2>13, <2>14, <2>15, <2>16, <2>17, <2>18, <2>19, <2>20, <2>21,
       <2>22, <2>23, <2>24, <2>25, <2>26, <2>27, <2>28 DEF Next
<1>3. Spec => []TypeOK
  BY TypeCorrect
<1> QED BY <1>1, <1>2, <1>3, PTL DEF Spec

\* A turn is filed with its agent at most once (OneFiling), whatever breaks,
\* restarts, panics or is retried.
THEOREM FiledOnce == Spec => []OneFiling
BY FilingHolds, PTL DEF FilingInv

(***************************************************************************)
(* Finished records are final.  The two plain writes of the runner (the    *)
(* first record of a start, and the one held back until the upstream goes  *)
(* asynchronous) could replace a finished record only if there already     *)
(* were one; update_running checks by itself.                              *)
(***************************************************************************)
Unrecorded ==
    \A t \in Tasks : (runner[t].pc = "opened" \/ runner[t].pending)
                     => rows[t].state = "none"

\* No step rewrites a finished record, and Unrecorded is inductive.
LEMMA FinishedStep ==
    ASSUME Unrecorded, TypeOK, [Next]_vars
    PROVE  /\ Unrecorded'
           /\ \A t \in Tasks : rows[t].state \in Terminal => rows'[t] = rows[t]
<1>1. Unrecorded' /\ (\A u \in Tasks : rows[u].state \in Terminal => rows'[u] = rows[u])
  <2> USE DEF Unrecorded, Terminal, vars
  <2>1. ASSUME NEW c \in Callers, NEW t \in Tasks, NEW onAsync \in BOOLEAN,
               Start(c, t, onAsync)
        PROVE  Unrecorded' /\ (\A u \in Tasks : rows[u].state \in Terminal => rows'[u] = rows[u])
    BY <2>1 DEF Start, Fresh, TypeOK, Idle
  <2>2. ASSUME NEW c \in Callers, NEW t \in Tasks, ReadRecord(c, t)
        PROVE  Unrecorded' /\ (\A u \in Tasks : rows[u].state \in Terminal => rows'[u] = rows[u])
    BY <2>2 DEF ReadRecord
  <2>3. ASSUME NEW c \in Callers, SubscribeOrClaim(c)
        PROVE  Unrecorded' /\ (\A u \in Tasks : rows[u].state \in Terminal => rows'[u] = rows[u])
    BY <2>3, ClaimMoves DEF SubscribeOrClaim
  <2>4. ASSUME NEW c \in Callers, ReadOutcome(c)
        PROVE  Unrecorded' /\ (\A u \in Tasks : rows[u].state \in Terminal => rows'[u] = rows[u])
    BY <2>4 DEF ReadOutcome
  <2>5. ASSUME NEW t \in Tasks, StartSpawn(t)
        PROVE  Unrecorded' /\ (\A u \in Tasks : rows[u].state \in Terminal => rows'[u] = rows[u])
    BY <2>5 DEF TypeOK, StartSpawn
  <2>6. ASSUME NEW t \in Tasks, StartRefused(t)
        PROVE  Unrecorded' /\ (\A u \in Tasks : rows[u].state \in Terminal => rows'[u] = rows[u])
    BY <2>6 DEF TypeOK, StartRefused, Idle
  <2>7. ASSUME NEW t \in Tasks, AgentReceives(t)
        PROVE  Unrecorded' /\ (\A u \in Tasks : rows[u].state \in Terminal => rows'[u] = rows[u])
    BY <2>7 DEF TypeOK, AgentReceives
  <2>8. ASSUME NEW t \in Tasks, OpenStream(t)
        PROVE  Unrecorded' /\ (\A u \in Tasks : rows[u].state \in Terminal => rows'[u] = rows[u])
    BY <2>8 DEF TypeOK, OpenStream
  <2>9. ASSUME NEW t \in Tasks, Wake(t)
        PROVE  Unrecorded' /\ (\A u \in Tasks : rows[u].state \in Terminal => rows'[u] = rows[u])
    BY <2>9 DEF TypeOK, Wake
  <2>10. ASSUME NEW t \in Tasks, ClaimResumes(t)
        PROVE  Unrecorded' /\ (\A u \in Tasks : rows[u].state \in Terminal => rows'[u] = rows[u])
    BY <2>10 DEF TypeOK, ClaimResumes
  <2>11. ASSUME NEW t \in Tasks, ProgressEvent(t)
        PROVE  Unrecorded' /\ (\A u \in Tasks : rows[u].state \in Terminal => rows'[u] = rows[u])
    BY <2>11 DEF TypeOK, ProgressEvent
  <2>12. ASSUME NEW t \in Tasks, OpenError(t)
        PROVE  Unrecorded' /\ (\A u \in Tasks : rows[u].state \in Terminal => rows'[u] = rows[u])
    BY <2>12, BrokenMoves DEF OpenError
  <2>13. ASSUME NEW t \in Tasks, StreamBroken(t)
        PROVE  Unrecorded' /\ (\A u \in Tasks : rows[u].state \in Terminal => rows'[u] = rows[u])
    BY <2>13, BrokenMoves DEF StreamBroken
  <2>14. ASSUME NEW t \in Tasks, Timeout(t)
        PROVE  Unrecorded' /\ (\A u \in Tasks : rows[u].state \in Terminal => rows'[u] = rows[u])
    BY <2>14 DEF TypeOK, Timeout, Finish
  <2>15. ASSUME NEW t \in Tasks, DoneEvent(t)
        PROVE  Unrecorded' /\ (\A u \in Tasks : rows[u].state \in Terminal => rows'[u] = rows[u])
    BY <2>15 DEF TypeOK, DoneEvent, Finish
  <2>16. ASSUME NEW t \in Tasks, AgentErrorEvent(t)
        PROVE  Unrecorded' /\ (\A u \in Tasks : rows[u].state \in Terminal => rows'[u] = rows[u])
    BY <2>16 DEF TypeOK, AgentErrorEvent, Finish
  <2>17. ASSUME NEW t \in Tasks, OversizeEvent(t)
        PROVE  Unrecorded' /\ (\A u \in Tasks : rows[u].state \in Terminal => rows'[u] = rows[u])
    BY <2>17 DEF TypeOK, OversizeEvent, Finish
  <2>18. ASSUME NEW t \in Tasks, TaskEvent(t)
        PROVE  Unrecorded' /\ (\A u \in Tasks : rows[u].state \in Terminal => rows'[u] = rows[u])
    BY <2>18 DEF TypeOK, TaskEvent, UpdateRunning
  <2>19. ASSUME NEW t \in Tasks, StoreOutcome(t)
        PROVE  Unrecorded' /\ (\A u \in Tasks : rows[u].state \in Terminal => rows'[u] = rows[u])
    BY <2>19 DEF TypeOK, StoreOutcome, UpdateRunning, Fail
  <2>20. ASSUME NEW t \in Tasks, SendOutcome(t)
        PROVE  Unrecorded' /\ (\A u \in Tasks : rows[u].state \in Terminal => rows'[u] = rows[u])
    BY <2>20 DEF TypeOK, SendOutcome
  <2>21. ASSUME NEW t \in Tasks, CloseHub(t)
        PROVE  Unrecorded' /\ (\A u \in Tasks : rows[u].state \in Terminal => rows'[u] = rows[u])
    BY <2>21 DEF TypeOK, CloseHub, Idle
  <2>22. ASSUME NEW t \in Tasks, Panic(t)
        PROVE  Unrecorded' /\ (\A u \in Tasks : rows[u].state \in Terminal => rows'[u] = rows[u])
    BY <2>22 DEF TypeOK, Panic
  <2>23. ASSUME NEW t \in Tasks, ClaimFails(t)
        PROVE  Unrecorded' /\ (\A u \in Tasks : rows[u].state \in Terminal => rows'[u] = rows[u])
    BY <2>23 DEF TypeOK, ClaimFails, UpdateRunning, Fail
  <2>24. ASSUME NEW t \in Tasks, AgentFinish(t)
        PROVE  Unrecorded' /\ (\A u \in Tasks : rows[u].state \in Terminal => rows'[u] = rows[u])
    BY <2>24 DEF TypeOK, AgentFinish
  <2>25. ASSUME NEW t \in Tasks, RefuseResume(t)
        PROVE  Unrecorded' /\ (\A u \in Tasks : rows[u].state \in Terminal => rows'[u] = rows[u])
    BY <2>25 DEF TypeOK, RefuseResume, UpdateRunning, Fail
  <2>26. CASE Tick
    BY <2>26 DEF Tick
  <2>27. CASE Crash
    BY <2>27 DEF Crash, Idle
  <2>28. CASE UNCHANGED vars
    BY <2>28
  <2> QED
    BY <2>1, <2>2, <2>3, <2>4, <2>5, <2>6, <2>7, <2>8, <2>9, <2>10, <2>11,
       <2>12, <2>13, <2>14, <2>15, <2>16, <2>17, <2>18, <2>19, <2>20, <2>21,
       <2>22, <2>23, <2>24, <2>25, <2>26, <2>27, <2>28 DEF Next
<1> QED BY <1>1

\* A finished record is never rewritten (FinishedStays), with writes that
\* fail, restarts, stale readers and refused resumes: the terminal check of
\* update_running is made on the record as it is stored.
THEOREM FinishedIsFinal == Spec => FinishedStays
<1>1. Init => Unrecorded
  BY DEF Init, Unrecorded, Idle
<1>2. Unrecorded /\ TypeOK /\ [Next]_vars
      => Unrecorded' /\ (\A t \in Tasks : rows[t].state \in Terminal => rows'[t] = rows[t])
  BY FinishedStep
<1>3. Spec => []TypeOK
  BY TypeCorrect
<1> QED BY <1>1, <1>2, <1>3, PTL DEF Spec, FinishedStays

(***************************************************************************)
(* Everyone is told what the store says.  This is about a store that       *)
(* writes what it is given (Reliable): with lost writes ToldAgrees is      *)
(* false.                                                                  *)
(***************************************************************************)
Reliable == StoreMayFail = FALSE

\* The hub lists the tasks that have a runner.
HubMatches == \A t \in Tasks : t \in live <=> runner[t].pc # "none"

\* The record, when there is one, has the outcome about to be broadcast.
StoredBeforeSend ==
    \A t \in Tasks : runner[t].pc = "send"
                     => rows[t].state \in {"none", StateOf(runner[t].outcome)}

\* A stored task that the boot sweep will refuse has no runner, and nobody
\* but the sweep reads it.
SweptIsIdle ==
    /\ \A t \in sweep : t \in Revoked /\ runner[t].pc = "none" /\ rows[t].state # "none"
    /\ \A c \in Callers : caller[c].pc = "hasrec" => caller[c].task \notin Revoked

\* The refused tasks stay without a runner: only a start, which needs a task
\* without a record, or a claim, which needs a reader, would give them one.
LEMMA SweptStep ==
    ASSUME TypeOK, SweptIsIdle, [Next]_vars
    PROVE  SweptIsIdle'
<1> USE DEF SweptIsIdle, vars
<1>a. sweep \subseteq Tasks
  BY DEF TypeOK
<1>1. ASSUME NEW c \in Callers, NEW t \in Tasks, NEW onAsync \in BOOLEAN,
            Start(c, t, onAsync)
     PROVE  SweptIsIdle'
  BY <1>1, <1>a DEF TypeOK, Start, Fresh
<1>2. ASSUME NEW c \in Callers, NEW t \in Tasks, ReadRecord(c, t)
     PROVE  SweptIsIdle'
  BY <1>2, <1>a DEF TypeOK, ReadRecord, CallerState
<1>3. ASSUME NEW c \in Callers, SubscribeOrClaim(c)
     PROVE  SweptIsIdle'
  <2>1. caller[c].pc = "hasrec" /\ caller[c].task \notin sweep
    BY <1>3 DEF SubscribeOrClaim
  <2>2. UNCHANGED <<rows, sweep>>
    BY <1>3 DEF SubscribeOrClaim
  <2>3. \A d \in Callers : caller'[d].pc = "hasrec" => caller'[d] = caller[d]
    BY <1>3 DEF TypeOK, SubscribeOrClaim, CallerState
  <2>4. \A t \in sweep : runner'[t] = runner[t]
    BY <1>3, <1>a, <2>1, ClaimMoves
  <2> QED BY <2>2, <2>3, <2>4
<1>4. ASSUME NEW c \in Callers, ReadOutcome(c)
     PROVE  SweptIsIdle'
  BY <1>4, <1>a DEF TypeOK, ReadOutcome, CallerState
<1>5. ASSUME NEW t \in Tasks, OpenError(t)
     PROVE  SweptIsIdle'
  BY <1>5, <1>a, BrokenMoves DEF OpenError
<1>6. ASSUME NEW t \in Tasks, StreamBroken(t)
     PROVE  SweptIsIdle'
  BY <1>6, <1>a, BrokenMoves DEF StreamBroken
<1>7. ASSUME NEW t \in Tasks, StartSpawn(t)
     PROVE  SweptIsIdle'
  BY <1>7, <1>a DEF TypeOK, StartSpawn
<1>8. ASSUME NEW t \in Tasks, StartRefused(t)
     PROVE  SweptIsIdle'
  BY <1>8, <1>a DEF TypeOK, StartRefused, Idle, Deliver, CallerState
<1>9. ASSUME NEW t \in Tasks, AgentReceives(t)
     PROVE  SweptIsIdle'
  BY <1>9, <1>a DEF TypeOK, AgentReceives
<1>10. ASSUME NEW t \in Tasks, OpenStream(t)
     PROVE  SweptIsIdle'
  BY <1>10, <1>a DEF TypeOK, OpenStream
<1>11. ASSUME NEW t \in Tasks, Wake(t)
     PROVE  SweptIsIdle'
  BY <1>11, <1>a DEF TypeOK, Wake
<1>12. ASSUME NEW t \in Tasks, ClaimResumes(t)
     PROVE  SweptIsIdle'
  BY <1>12, <1>a DEF TypeOK, ClaimResumes
<1>13. ASSUME NEW t \in Tasks, ProgressEvent(t)
     PROVE  SweptIsIdle'
  BY <1>13, <1>a DEF TypeOK, ProgressEvent
<1>14. ASSUME NEW t \in Tasks, Timeout(t)
     PROVE  SweptIsIdle'
  BY <1>14, <1>a DEF TypeOK, Timeout, Finish
<1>15. ASSUME NEW t \in Tasks, DoneEvent(t)
     PROVE  SweptIsIdle'
  BY <1>15, <1>a DEF TypeOK, DoneEvent, Finish
<1>16. ASSUME NEW t \in Tasks, AgentErrorEvent(t)
     PROVE  SweptIsIdle'
  BY <1>16, <1>a DEF TypeOK, AgentErrorEvent, Finish
<1>17. ASSUME NEW t \in Tasks, OversizeEvent(t)
     PROVE  SweptIsIdle'
  BY <1>17, <1>a DEF TypeOK, OversizeEvent, Finish
<1>18. ASSUME NEW t \in Tasks, TaskEvent(t)
     PROVE  SweptIsIdle'
  BY <1>18, <1>a DEF TypeOK, TaskEvent, UpdateRunning
<1>19. ASSUME NEW t \in Tasks, StoreOutcome(t)
     PROVE  SweptIsIdle'
  BY <1>19, <1>a DEF TypeOK, StoreOutcome, UpdateRunning, Fail, StateOf
<1>20. ASSUME NEW t \in Tasks, SendOutcome(t)
     PROVE  SweptIsIdle'
  BY <1>20, <1>a DEF TypeOK, SendOutcome, Deliver, CallerState
<1>21. ASSUME NEW t \in Tasks, CloseHub(t)
     PROVE  SweptIsIdle'
  BY <1>21, <1>a DEF TypeOK, CloseHub, Idle, CloseChannel, CallerState
<1>22. ASSUME NEW t \in Tasks, Panic(t)
     PROVE  SweptIsIdle'
  BY <1>22, <1>a DEF TypeOK, Panic
<1>23. ASSUME NEW t \in Tasks, ClaimFails(t)
     PROVE  SweptIsIdle'
  BY <1>23, <1>a DEF TypeOK, ClaimFails, UpdateRunning, Fail
<1>24. ASSUME NEW t \in Tasks, AgentFinish(t)
     PROVE  SweptIsIdle'
  BY <1>24, <1>a DEF TypeOK, AgentFinish
<1>25. ASSUME NEW t \in Tasks, RefuseResume(t)
     PROVE  SweptIsIdle'
  BY <1>25, <1>a DEF TypeOK, RefuseResume, UpdateRunning, Fail
<1>26. CASE Tick
  BY <1>26 DEF Tick
<1>27. CASE Crash
  BY <1>27, RevokedAssumption DEF TypeOK, Crash, Idle, CallerState
<1>28. CASE UNCHANGED vars
  BY <1>28
<1> QED
  BY <1>1, <1>2, <1>3, <1>4, <1>5, <1>6, <1>7, <1>8, <1>9, <1>10, <1>11,
     <1>12, <1>13, <1>14, <1>15, <1>16, <1>17, <1>18, <1>19, <1>20, <1>21,
     <1>22, <1>23, <1>24, <1>25, <1>26, <1>27, <1>28 DEF Next

TaskOK == /\ HubMatches
          /\ Unrecorded
          /\ RunnerOwnsRunningTask
          /\ StoredBeforeSend

\* The tasks' part of the invariant is inductive.
LEMMA TaskStep ==
    ASSUME Reliable, TypeOK, TypeOK', SweptIsIdle, TaskOK, [Next]_vars
    PROVE  TaskOK'
<1>1. TaskOK'
  <2> USE DEF TaskOK, HubMatches, Unrecorded, RunnerOwnsRunningTask, Driving,
              StoredBeforeSend, vars
  <2>1. ASSUME NEW c \in Callers, NEW t \in Tasks, NEW onAsync \in BOOLEAN,
               Start(c, t, onAsync)
        PROVE  TaskOK'
    BY <2>1 DEF Start, Fresh, TypeOK, Idle
  <2>2. ASSUME NEW c \in Callers, NEW t \in Tasks, ReadRecord(c, t)
        PROVE  TaskOK'
    BY <2>2 DEF ReadRecord
  <2>3. ASSUME NEW c \in Callers, SubscribeOrClaim(c)
        PROVE  TaskOK'
    <3> DEFINE u == caller[c].task
    <3>1. UNCHANGED <<rows, sweep>>
      BY <2>3 DEF SubscribeOrClaim
    <3>2. CASE UNCHANGED <<live, runner>>
      BY <3>1, <3>2
    <3>3. CASE ~UNCHANGED <<live, runner>>
      <4>1. /\ u \in Tasks /\ rows[u].state = "working"
            /\ live' = live \cup {u}
            /\ \A v \in Tasks \ {u} : runner'[v] = runner[v]
            /\ runner'[u].pc = "claimed" /\ ~runner'[u].pending
        BY <2>3, <3>3, ClaimMoves
      <4> HIDE DEF u
      <4> QED BY <3>1, <4>1
    <3> QED BY <3>2, <3>3
  <2>4. ASSUME NEW c \in Callers, ReadOutcome(c)
        PROVE  TaskOK'
    BY <2>4 DEF ReadOutcome
  <2>5. ASSUME NEW t \in Tasks, StartSpawn(t)
        PROVE  TaskOK'
    BY <2>5 DEF TypeOK, StartSpawn
  <2>6. ASSUME NEW t \in Tasks, StartRefused(t)
        PROVE  TaskOK'
    BY <2>6 DEF TypeOK, StartRefused, Idle
  <2>7. ASSUME NEW t \in Tasks, AgentReceives(t)
        PROVE  TaskOK'
    BY <2>7 DEF TypeOK, AgentReceives
  <2>8. ASSUME NEW t \in Tasks, OpenStream(t)
        PROVE  TaskOK'
    BY <2>8 DEF TypeOK, OpenStream
  <2>9. ASSUME NEW t \in Tasks, Wake(t)
        PROVE  TaskOK'
    BY <2>9 DEF TypeOK, Wake
  <2>10. ASSUME NEW t \in Tasks, ClaimResumes(t)
        PROVE  TaskOK'
    BY <2>10 DEF TypeOK, ClaimResumes
  <2>11. ASSUME NEW t \in Tasks, ProgressEvent(t)
        PROVE  TaskOK'
    BY <2>11 DEF TypeOK, ProgressEvent
  <2>12. ASSUME NEW t \in Tasks, OpenError(t)
        PROVE  TaskOK'
    BY <2>12, BrokenMoves DEF OpenError
  <2>13. ASSUME NEW t \in Tasks, StreamBroken(t)
        PROVE  TaskOK'
    BY <2>13, BrokenMoves DEF StreamBroken
  <2>14. ASSUME NEW t \in Tasks, Timeout(t)
        PROVE  TaskOK'
    BY <2>14 DEF TypeOK, Timeout, Finish
  <2>15. ASSUME NEW t \in Tasks, DoneEvent(t)
        PROVE  TaskOK'
    BY <2>15 DEF TypeOK, DoneEvent, Finish
  <2>16. ASSUME NEW t \in Tasks, AgentErrorEvent(t)
        PROVE  TaskOK'
    BY <2>16 DEF TypeOK, AgentErrorEvent, Finish
  <2>17. ASSUME NEW t \in Tasks, OversizeEvent(t)
        PROVE  TaskOK'
    BY <2>17 DEF TypeOK, OversizeEvent, Finish
  <2>18. ASSUME NEW t \in Tasks, TaskEvent(t)
        PROVE  TaskOK'
    <3>1. \A v \in Tasks \ {t} : runner'[v] = runner[v] /\ rows'[v] = rows[v]
      BY <2>18 DEF TypeOK, TaskEvent, UpdateRunning
    <3>2. runner'[t].pc = "reading" /\ ~runner'[t].pending
      BY <2>18 DEF TypeOK, TaskEvent
    <3>3. rows'[t].state = "working"
      <4>1. CASE runner[t].pending
        BY <2>18, <4>1 DEF TypeOK, TaskEvent, WriteOutcomes, Reliable
      <4>2. CASE ~runner[t].pending
        <5>1. PICK ok \in BOOLEAN :
                UpdateRunning(t, ok, [rows[t] EXCEPT !.up = TRUE])
          BY <2>18, <4>2 DEF TaskEvent, WriteOutcomes
        <5>2. [rows[t] EXCEPT !.up = TRUE].state = rows[t].state
          BY DEF TypeOK, Row
        <5> QED BY <2>18, <4>2, <5>1, <5>2 DEF TypeOK, TaskEvent, UpdateRunning
      <4> QED BY <4>1, <4>2
    <3> QED BY <2>18, <3>1, <3>2, <3>3 DEF TaskEvent
  <2>19. ASSUME NEW t \in Tasks, StoreOutcome(t)
        PROVE  TaskOK'
    <3>1. \A v \in Tasks \ {t} : runner'[v] = runner[v] /\ rows'[v] = rows[v]
      BY <2>19 DEF TypeOK, StoreOutcome, UpdateRunning, Fail
    <3>2. /\ runner'[t].pc = "send"
          /\ runner'[t].pending = runner[t].pending
          /\ runner'[t].outcome = runner[t].outcome
      BY <2>19 DEF TypeOK, StoreOutcome
    <3>3. rows[t].state = "none" => rows'[t].state = "none"
      BY <2>19 DEF TypeOK, StoreOutcome, UpdateRunning, Fail
    <3>4. rows[t].state = "working" => rows'[t].state = StateOf(runner[t].outcome)
      <4>1. CASE runner[t].outcome = "completed"
        BY <2>19, <4>1 DEF TypeOK, StoreOutcome, UpdateRunning, WriteOutcomes, Reliable,
           StateOf, Row
      <4>2. CASE runner[t].outcome # "completed"
        <5> DEFINE new == [rows[t] EXCEPT !.state = "failed", !.class = runner[t].outcome]
        <5>1. UpdateRunning(t, TRUE, new)
          BY <2>19, <4>2 DEF StoreOutcome, Fail, WriteOutcomes, Reliable
        <5>2. new.state = "failed"
          BY DEF TypeOK, Row
        <5> HIDE DEF new
        <5> QED BY <4>2, <5>1, <5>2 DEF TypeOK, UpdateRunning, StateOf
      <4> QED BY <4>1, <4>2
    <3> QED BY <2>19, <3>1, <3>2, <3>3, <3>4 DEF StoreOutcome
  <2>20. ASSUME NEW t \in Tasks, SendOutcome(t)
        PROVE  TaskOK'
    BY <2>20 DEF TypeOK, SendOutcome
  <2>21. ASSUME NEW t \in Tasks, CloseHub(t)
        PROVE  TaskOK'
    BY <2>21 DEF TypeOK, CloseHub, Idle
  <2>22. ASSUME NEW t \in Tasks, Panic(t)
        PROVE  TaskOK'
    BY <2>22 DEF TypeOK, Panic
  <2>23. ASSUME NEW t \in Tasks, ClaimFails(t)
        PROVE  TaskOK'
    BY <2>23 DEF TypeOK, ClaimFails, UpdateRunning, Fail
  <2>24. ASSUME NEW t \in Tasks, AgentFinish(t)
        PROVE  TaskOK'
    BY <2>24 DEF TypeOK, AgentFinish
  <2>25. ASSUME NEW t \in Tasks, RefuseResume(t)
        PROVE  TaskOK'
    BY <2>25 DEF TypeOK, SweptIsIdle, RefuseResume, UpdateRunning, Fail
  <2>26. CASE Tick
    BY <2>26 DEF Tick
  <2>27. CASE Crash
    BY <2>27 DEF Crash, Idle, Reliable
  <2>28. CASE UNCHANGED vars
    BY <2>28
  <2> QED
    BY <2>1, <2>2, <2>3, <2>4, <2>5, <2>6, <2>7, <2>8, <2>9, <2>10, <2>11,
       <2>12, <2>13, <2>14, <2>15, <2>16, <2>17, <2>18, <2>19, <2>20, <2>21,
       <2>22, <2>23, <2>24, <2>25, <2>26, <2>27, <2>28 DEF Next
<1> QED BY <1>1

\* A caller that knows an outcome has it from the record, or the task had no
\* record and is over.
ToldIsOver ==
    \A c \in Callers : caller[c].got \in Terminal =>
        \/ rows[caller[c].task].state = caller[c].got
        \/ /\ rows[caller[c].task].state = "none"
           /\ runner[caller[c].task].pc \in {"none", "close"}

\* A told caller has a task and keeps its answer.
LEMMA ToldKept ==
    ASSUME TypeOK, [Next]_vars, NEW c \in Callers, caller[c].got \in Terminal
    PROVE  caller[c].task \in Tasks /\ caller'[c] = caller[c]
<1>1. caller[c].pc = "told" /\ caller[c].task \in Tasks
  BY DEF TypeOK, CallerState, Terminal
<1>2. caller'[c] = caller[c]
  <2> USE <1>1 DEF vars
  <2>1. ASSUME NEW d \in Callers, NEW t \in Tasks, NEW onAsync \in BOOLEAN,
               Start(d, t, onAsync)
        PROVE  caller'[c] = caller[c]
    BY <2>1 DEF TypeOK, Start
  <2>2. ASSUME NEW d \in Callers, NEW t \in Tasks, ReadRecord(d, t)
        PROVE  caller'[c] = caller[c]
    BY <2>2 DEF TypeOK, ReadRecord
  <2>3. ASSUME NEW d \in Callers, SubscribeOrClaim(d)
        PROVE  caller'[c] = caller[c]
    BY <2>3 DEF TypeOK, SubscribeOrClaim
  <2>4. ASSUME NEW d \in Callers, ReadOutcome(d)
        PROVE  caller'[c] = caller[c]
    BY <2>4 DEF TypeOK, ReadOutcome
  <2>5. ASSUME NEW t \in Tasks, StartSpawn(t)
        PROVE  caller'[c] = caller[c]
    BY <2>5 DEF TypeOK, StartSpawn
  <2>6. ASSUME NEW t \in Tasks, StartRefused(t)
        PROVE  caller'[c] = caller[c]
    BY <2>6 DEF TypeOK, StartRefused, Deliver
  <2>7. ASSUME NEW t \in Tasks, AgentReceives(t)
        PROVE  caller'[c] = caller[c]
    BY <2>7 DEF TypeOK, AgentReceives
  <2>8. ASSUME NEW t \in Tasks, OpenStream(t)
        PROVE  caller'[c] = caller[c]
    BY <2>8 DEF TypeOK, OpenStream
  <2>9. ASSUME NEW t \in Tasks, Wake(t)
        PROVE  caller'[c] = caller[c]
    BY <2>9 DEF TypeOK, Wake
  <2>10. ASSUME NEW t \in Tasks, ClaimResumes(t)
        PROVE  caller'[c] = caller[c]
    BY <2>10 DEF TypeOK, ClaimResumes
  <2>11. ASSUME NEW t \in Tasks, ProgressEvent(t)
        PROVE  caller'[c] = caller[c]
    BY <2>11 DEF TypeOK, ProgressEvent
  <2>12. ASSUME NEW t \in Tasks, OpenError(t)
        PROVE  caller'[c] = caller[c]
    BY <2>12 DEF TypeOK, OpenError
  <2>13. ASSUME NEW t \in Tasks, StreamBroken(t)
        PROVE  caller'[c] = caller[c]
    BY <2>13 DEF TypeOK, StreamBroken
  <2>14. ASSUME NEW t \in Tasks, Timeout(t)
        PROVE  caller'[c] = caller[c]
    BY <2>14 DEF TypeOK, Timeout
  <2>15. ASSUME NEW t \in Tasks, DoneEvent(t)
        PROVE  caller'[c] = caller[c]
    BY <2>15 DEF TypeOK, DoneEvent
  <2>16. ASSUME NEW t \in Tasks, AgentErrorEvent(t)
        PROVE  caller'[c] = caller[c]
    BY <2>16 DEF TypeOK, AgentErrorEvent
  <2>17. ASSUME NEW t \in Tasks, OversizeEvent(t)
        PROVE  caller'[c] = caller[c]
    BY <2>17 DEF TypeOK, OversizeEvent
  <2>18. ASSUME NEW t \in Tasks, TaskEvent(t)
        PROVE  caller'[c] = caller[c]
    BY <2>18 DEF TypeOK, TaskEvent
  <2>19. ASSUME NEW t \in Tasks, StoreOutcome(t)
        PROVE  caller'[c] = caller[c]
    BY <2>19 DEF TypeOK, StoreOutcome
  <2>20. ASSUME NEW t \in Tasks, SendOutcome(t)
        PROVE  caller'[c] = caller[c]
    BY <2>20 DEF TypeOK, SendOutcome, Deliver
  <2>21. ASSUME NEW t \in Tasks, CloseHub(t)
        PROVE  caller'[c] = caller[c]
    BY <2>21 DEF TypeOK, CloseHub, CloseChannel
  <2>22. ASSUME NEW t \in Tasks, Panic(t)
        PROVE  caller'[c] = caller[c]
    BY <2>22 DEF TypeOK, Panic
  <2>23. ASSUME NEW t \in Tasks, ClaimFails(t)
        PROVE  caller'[c] = caller[c]
    BY <2>23 DEF TypeOK, ClaimFails
  <2>24. ASSUME NEW t \in Tasks, AgentFinish(t)
        PROVE  caller'[c] = caller[c]
    BY <2>24 DEF TypeOK, AgentFinish
  <2>25. ASSUME NEW t \in Tasks, RefuseResume(t)
        PROVE  caller'[c] = caller[c]
    BY <2>25 DEF TypeOK, RefuseResume
  <2>26. CASE Tick
    BY <2>26 DEF Tick
  <2>27. CASE Crash
    BY <2>27 DEF TypeOK, Crash
  <2>28. CASE UNCHANGED vars
    BY <2>28
  <2> QED
    BY <2>1, <2>2, <2>3, <2>4, <2>5, <2>6, <2>7, <2>8, <2>9, <2>10, <2>11,
       <2>12, <2>13, <2>14, <2>15, <2>16, <2>17, <2>18, <2>19, <2>20, <2>21,
       <2>22, <2>23, <2>24, <2>25, <2>26, <2>27, <2>28 DEF Next
<1> QED BY <1>1, <1>2

\* A task that ended without a record stays that way: only a start or a
\* claim brings a runner back, and there is a caller that has had this task,
\* and no record to claim.
LEMMA OverStays ==
    ASSUME TypeOK, TaskOK, [Next]_vars, NEW c \in Callers, NEW u \in Tasks,
           caller[c].task = u, rows[u].state = "none", runner[u].pc \in {"none", "close"}
    PROVE  rows'[u].state = "none" /\ runner'[u].pc \in {"none", "close"}
<1>1. rows'[u].state = "none" /\ runner'[u].pc \in {"none", "close"}
  <2> USE DEF vars
  <2>1. ASSUME NEW d \in Callers, NEW t \in Tasks, NEW onAsync \in BOOLEAN,
               Start(d, t, onAsync)
        PROVE  rows'[u].state = "none" /\ runner'[u].pc \in {"none", "close"}
    BY <2>1 DEF TypeOK, Start, Fresh
  <2>2. ASSUME NEW d \in Callers, NEW t \in Tasks, ReadRecord(d, t)
        PROVE  rows'[u].state = "none" /\ runner'[u].pc \in {"none", "close"}
    BY <2>2 DEF ReadRecord
  <2>3. ASSUME NEW d \in Callers, SubscribeOrClaim(d)
        PROVE  rows'[u].state = "none" /\ runner'[u].pc \in {"none", "close"}
    BY <2>3, ClaimMoves DEF SubscribeOrClaim
  <2>4. ASSUME NEW d \in Callers, ReadOutcome(d)
        PROVE  rows'[u].state = "none" /\ runner'[u].pc \in {"none", "close"}
    BY <2>4 DEF ReadOutcome
  <2>5. ASSUME NEW t \in Tasks, StartSpawn(t)
        PROVE  rows'[u].state = "none" /\ runner'[u].pc \in {"none", "close"}
    BY <2>5 DEF TypeOK, StartSpawn
  <2>6. ASSUME NEW t \in Tasks, StartRefused(t)
        PROVE  rows'[u].state = "none" /\ runner'[u].pc \in {"none", "close"}
    BY <2>6 DEF TypeOK, StartRefused, Idle
  <2>7. ASSUME NEW t \in Tasks, AgentReceives(t)
        PROVE  rows'[u].state = "none" /\ runner'[u].pc \in {"none", "close"}
    BY <2>7 DEF TypeOK, AgentReceives
  <2>8. ASSUME NEW t \in Tasks, OpenStream(t)
        PROVE  rows'[u].state = "none" /\ runner'[u].pc \in {"none", "close"}
    BY <2>8 DEF TypeOK, OpenStream
  <2>9. ASSUME NEW t \in Tasks, Wake(t)
        PROVE  rows'[u].state = "none" /\ runner'[u].pc \in {"none", "close"}
    BY <2>9 DEF TypeOK, Wake
  <2>10. ASSUME NEW t \in Tasks, ClaimResumes(t)
        PROVE  rows'[u].state = "none" /\ runner'[u].pc \in {"none", "close"}
    BY <2>10 DEF TypeOK, ClaimResumes
  <2>11. ASSUME NEW t \in Tasks, ProgressEvent(t)
        PROVE  rows'[u].state = "none" /\ runner'[u].pc \in {"none", "close"}
    BY <2>11 DEF TypeOK, ProgressEvent
  <2>12. ASSUME NEW t \in Tasks, OpenError(t)
        PROVE  rows'[u].state = "none" /\ runner'[u].pc \in {"none", "close"}
    BY <2>12, BrokenMoves DEF OpenError
  <2>13. ASSUME NEW t \in Tasks, StreamBroken(t)
        PROVE  rows'[u].state = "none" /\ runner'[u].pc \in {"none", "close"}
    BY <2>13, BrokenMoves DEF StreamBroken
  <2>14. ASSUME NEW t \in Tasks, Timeout(t)
        PROVE  rows'[u].state = "none" /\ runner'[u].pc \in {"none", "close"}
    BY <2>14 DEF TypeOK, Timeout, Finish
  <2>15. ASSUME NEW t \in Tasks, DoneEvent(t)
        PROVE  rows'[u].state = "none" /\ runner'[u].pc \in {"none", "close"}
    BY <2>15 DEF TypeOK, DoneEvent, Finish
  <2>16. ASSUME NEW t \in Tasks, AgentErrorEvent(t)
        PROVE  rows'[u].state = "none" /\ runner'[u].pc \in {"none", "close"}
    BY <2>16 DEF TypeOK, AgentErrorEvent, Finish
  <2>17. ASSUME NEW t \in Tasks, OversizeEvent(t)
        PROVE  rows'[u].state = "none" /\ runner'[u].pc \in {"none", "close"}
    BY <2>17 DEF TypeOK, OversizeEvent, Finish
  <2>18. ASSUME NEW t \in Tasks, TaskEvent(t)
        PROVE  rows'[u].state = "none" /\ runner'[u].pc \in {"none", "close"}
    BY <2>18 DEF TypeOK, TaskEvent, UpdateRunning
  <2>19. ASSUME NEW t \in Tasks, StoreOutcome(t)
        PROVE  rows'[u].state = "none" /\ runner'[u].pc \in {"none", "close"}
    BY <2>19 DEF TypeOK, StoreOutcome, UpdateRunning, Fail
  <2>20. ASSUME NEW t \in Tasks, SendOutcome(t)
        PROVE  rows'[u].state = "none" /\ runner'[u].pc \in {"none", "close"}
    BY <2>20 DEF TypeOK, SendOutcome
  <2>21. ASSUME NEW t \in Tasks, CloseHub(t)
        PROVE  rows'[u].state = "none" /\ runner'[u].pc \in {"none", "close"}
    BY <2>21 DEF TypeOK, CloseHub, Idle
  <2>22. ASSUME NEW t \in Tasks, Panic(t)
        PROVE  rows'[u].state = "none" /\ runner'[u].pc \in {"none", "close"}
    BY <2>22 DEF TypeOK, Panic
  <2>23. ASSUME NEW t \in Tasks, ClaimFails(t)
        PROVE  rows'[u].state = "none" /\ runner'[u].pc \in {"none", "close"}
    BY <2>23 DEF TypeOK, ClaimFails, UpdateRunning, Fail
  <2>24. ASSUME NEW t \in Tasks, AgentFinish(t)
        PROVE  rows'[u].state = "none" /\ runner'[u].pc \in {"none", "close"}
    BY <2>24 DEF TypeOK, AgentFinish
  <2>25. ASSUME NEW t \in Tasks, RefuseResume(t)
        PROVE  rows'[u].state = "none" /\ runner'[u].pc \in {"none", "close"}
    BY <2>25 DEF TypeOK, RefuseResume, UpdateRunning, Fail
  <2>26. CASE Tick
    BY <2>26 DEF Tick
  <2>27. CASE Crash
    BY <2>27 DEF Crash, Idle
  <2>28. CASE UNCHANGED vars
    BY <2>28
  <2> QED
    BY <2>1, <2>2, <2>3, <2>4, <2>5, <2>6, <2>7, <2>8, <2>9, <2>10, <2>11,
       <2>12, <2>13, <2>14, <2>15, <2>16, <2>17, <2>18, <2>19, <2>20, <2>21,
       <2>22, <2>23, <2>24, <2>25, <2>26, <2>27, <2>28 DEF Next
<1> QED BY <1>1

\* ToldIsOver is inductive: an outcome comes from the broadcast that follows
\* the write, or from the record.
LEMMA CallerStep ==
    ASSUME TypeOK, TaskOK, ToldIsOver, [Next]_vars,
           \A u \in Tasks : rows[u].state \in Terminal => rows'[u] = rows[u]
    PROVE  ToldIsOver'
<1> SUFFICES ASSUME NEW c \in Callers, caller'[c].got \in Terminal
             PROVE  \/ rows'[caller'[c].task].state = caller'[c].got
                    \/ /\ rows'[caller'[c].task].state = "none"
                       /\ runner'[caller'[c].task].pc \in {"none", "close"}
  BY DEF ToldIsOver
<1>1. CASE caller[c].got \in Terminal
  <2>1. caller[c].task \in Tasks /\ caller'[c] = caller[c]
    BY <1>1, ToldKept
  <2>2. CASE rows[caller[c].task].state = caller[c].got
    BY <1>1, <2>1, <2>2
  <2>3. CASE /\ rows[caller[c].task].state = "none"
             /\ runner[caller[c].task].pc \in {"none", "close"}
    BY <2>1, <2>3, OverStays
  <2> QED BY <1>1, <2>2, <2>3 DEF ToldIsOver
<1>2. CASE caller[c].got \notin Terminal
  <2> USE DEF vars
  <2>1. \/ \E t \in Tasks : SendOutcome(t) \/ StartRefused(t)
        \/ ReadOutcome(c)
        \/ caller'[c].got = caller[c].got
        \/ caller'[c].got = "-"
    <3>1. ASSUME NEW d \in Callers, NEW t \in Tasks, NEW onAsync \in BOOLEAN,
                 Start(d, t, onAsync)
          PROVE  caller'[c].got \in {caller[c].got, "-"}
      BY <3>1 DEF TypeOK, Start
    <3>2. ASSUME NEW d \in Callers, NEW t \in Tasks, ReadRecord(d, t)
          PROVE  caller'[c].got = caller[c].got
      BY <3>2 DEF TypeOK, ReadRecord, CallerState
    <3>3. ASSUME NEW d \in Callers, SubscribeOrClaim(d)
          PROVE  caller'[c].got = caller[c].got
      BY <3>3 DEF TypeOK, SubscribeOrClaim, CallerState
    <3>4. ASSUME NEW d \in Callers, ReadOutcome(d), d # c
          PROVE  caller'[c].got = caller[c].got
      BY <3>4 DEF TypeOK, ReadOutcome
    <3>5. ASSUME NEW t \in Tasks, CloseHub(t)
          PROVE  caller'[c].got = caller[c].got
      BY <3>5 DEF TypeOK, CloseHub, CloseChannel, CallerState
    <3>6. CASE Crash
      BY <3>6 DEF TypeOK, Crash, CallerState
    <3>7. ASSUME UNCHANGED caller
          PROVE  caller'[c].got = caller[c].got
      BY <3>7
    <3> QED
      BY <3>1, <3>2, <3>3, <3>4, <3>5, <3>6, <3>7
      DEF Next, StartSpawn, AgentReceives, OpenStream, OpenError, Timeout, TaskEvent,
          ProgressEvent, DoneEvent, AgentErrorEvent, OversizeEvent, StreamBroken,
          Wake, StoreOutcome, Panic, ClaimFails, ClaimResumes, AgentFinish,
          RefuseResume, Tick
  <2>2. ASSUME NEW t \in Tasks, SendOutcome(t)
        PROVE  /\ caller'[c].task = t /\ rows'[t] = rows[t]
               /\ caller'[c].got = StateOf(runner[t].outcome)
               /\ runner'[t].pc = "close"
    <3>1. runner'[t].pc = "close" /\ rows' = rows
      BY <2>2 DEF TypeOK, SendOutcome
    <3>2. caller'[c] = IF caller[c].pc = "waiting" /\ caller[c].task = t
                       THEN [caller[c] EXCEPT !.pc = "told", !.got = StateOf(runner[t].outcome)]
                       ELSE caller[c]
      BY <2>2 DEF SendOutcome, Deliver
    <3>3. caller[c].pc = "waiting" /\ caller[c].task = t
      BY <1>2, <3>2
    <3>4. caller[c] \in [pc : {"hasrec", "waiting", "closed", "cut"}, task : Tasks, got : {"-"}]
      BY <3>3 DEF TypeOK, CallerState
    <3> QED BY <3>1, <3>2, <3>3, <3>4
  <2>3. ASSUME NEW t \in Tasks, StartRefused(t)
        PROVE  FALSE
    BY <1>2, <2>3 DEF TypeOK, StartRefused, Deliver, CallerState, Terminal
  <2>4. CASE ReadOutcome(c)
    BY <2>4 DEF TypeOK, ReadOutcome, CallerState, Terminal
  <2> QED
    BY <1>2, <2>1, <2>2, <2>3, <2>4
    DEF TaskOK, StoredBeforeSend, SendOutcome, Terminal
<1> QED BY <1>1, <1>2

SharedInv == SweptIsIdle /\ TaskOK /\ ToldIsOver

\* SharedInv holds when the store loses no write.
LEMMA SharedHolds ==
    ASSUME Reliable
    PROVE  Spec => []SharedInv
<1>1. Init => SharedInv
  BY DEF Init, SharedInv, TaskOK, HubMatches, Unrecorded, RunnerOwnsRunningTask, Driving,
         StoredBeforeSend, SweptIsIdle, ToldIsOver, Terminal, Idle
<1>2. SharedInv /\ TypeOK /\ TypeOK' /\ [Next]_vars => SharedInv'
  BY Reliable, SweptStep, TaskStep, FinishedStep, CallerStep DEF SharedInv, TaskOK
<1>3. Spec => []TypeOK
  BY TypeCorrect
<1> QED BY <1>1, <1>2, <1>3, PTL DEF Spec

\* With a store that does not lose writes, whatever crashes, is cut or is
\* refused, a caller is told what the record says, for good (ToldAgrees).
THEOREM EveryoneSeesTheSameTask ==
    ASSUME Reliable
    PROVE  Spec => []ToldAgrees
<1>1. SharedInv => ToldAgrees
  BY DEF SharedInv, ToldIsOver, ToldAgrees
<1>2. Spec => []SharedInv
  BY Reliable, SharedHolds
<1> QED BY <1>1, <1>2, PTL

\* With a store that does not lose writes, a runner that still drives its task
\* owns a record that is running (RunnerOwnsRunningTask): subscribe_or_claim
\* decides on the record as it is under the hub's lock.
THEOREM RunnerOwnsTask ==
    ASSUME Reliable
    PROVE  Spec => []RunnerOwnsRunningTask
<1>1. SharedInv => RunnerOwnsRunningTask
  BY DEF SharedInv, TaskOK
<1>2. Spec => []SharedInv
  BY Reliable, SharedHolds
<1> QED BY <1>1, <1>2, PTL

(***************************************************************************)
(* The runner implements TaskBoard.  What the board asks and the invariants *)
(* so far do not say is where a completion comes from.                     *)
(***************************************************************************)

\* A task is completed, on record or about to be, only by the agent's answer.
DoneByAgent ==
    \A t \in Tasks :
        /\ (runner[t].pc \in {"finish", "send"} /\ runner[t].outcome = "completed")
           => agent[t].result = "done"
        /\ rows[t].state = "completed" => agent[t].result = "done"

\* A broken stream never makes a completion.
LEMMA BrokenOutcome ==
    ASSUME TypeOK, NEW t \in Tasks, NEW class \in ErrorClasses, Broken(t, class)
    PROVE  /\ \A u \in Tasks \ {t} : runner'[u] = runner[u]
           /\ runner'[t].pc = "finish" => runner'[t].outcome # "completed"
           /\ runner'[t].pc # "send"
<1>1. \A u \in Tasks \ {t} : runner'[u] = runner[u]
  BY BrokenMoves
<1>2. runner'[t].pc # "send"
  BY BrokenMoves
<1>3. runner'[t].pc = "finish" => runner'[t].outcome # "completed"
  <2>1. CASE ~runner[t].up
    BY <2>1 DEF Broken, Finish, TypeOK, Runner, ErrorClasses
  <2>2. CASE runner[t].up /\ now + runner[t].backoff >= Deadline(t)
    BY <2>2 DEF Broken, Finish, TypeOK, Runner
  <2>3. CASE runner[t].up /\ ~(now + runner[t].backoff >= Deadline(t))
    <3> DEFINE pause == IF 2 * runner[t].backoff < BackoffMax
                        THEN 2 * runner[t].backoff ELSE BackoffMax
    <3>1. runner' = [runner EXCEPT ![t] =
                       [runner[t] EXCEPT !.pc = "backoff", !.start = "resume",
                          !.wake = now + runner[t].backoff, !.backoff = pause]]
      BY <2>3 DEF Broken
    <3> HIDE DEF pause
    <3> QED BY <3>1 DEF TypeOK, Runner
  <2> QED BY <2>1, <2>2, <2>3
<1> QED BY <1>1, <1>2, <1>3

\* Runner::fail leaves the record, or makes a running one a failed one.
LEMMA FailMoves ==
    ASSUME TypeOK, NEW t \in Tasks, NEW ok \in BOOLEAN, NEW class, Fail(t, ok, class)
    PROVE  /\ \A u \in Tasks \ {t} : rows'[u] = rows[u]
           /\ \/ rows'[t] = rows[t]
              \/ rows[t].state = "working" /\ rows'[t].state = "failed"
<1> DEFINE new == [rows[t] EXCEPT !.state = "failed", !.class = class]
<1>1. UpdateRunning(t, ok, new)
  BY DEF Fail
<1>2. new.state = "failed"
  BY DEF TypeOK, Row
<1> HIDE DEF new
<1> QED BY <1>1, <1>2 DEF UpdateRunning, TypeOK

\* The write at the end of run ends a running record with its outcome, or
\* leaves the record alone.
LEMMA OutcomeMoves ==
    ASSUME TypeOK, NEW t \in Tasks, StoreOutcome(t)
    PROVE  /\ \A u \in Tasks \ {t} : rows'[u] = rows[u]
           /\ \/ rows'[t] = rows[t]
              \/ rows[t].state = "working" /\ rows'[t].state = StateOf(runner[t].outcome)
<1>1. PICK ok \in BOOLEAN :
         IF runner[t].outcome = "completed"
         THEN UpdateRunning(t, ok, [rows[t] EXCEPT !.state = "completed"])
         ELSE Fail(t, ok, runner[t].outcome)
  BY DEF StoreOutcome, WriteOutcomes
<1>2. CASE runner[t].outcome = "completed"
  <2> DEFINE new == [rows[t] EXCEPT !.state = "completed"]
  <2>1. UpdateRunning(t, ok, new) /\ new.state = "completed"
    BY <1>1, <1>2 DEF TypeOK, Row
  <2> HIDE DEF new
  <2> QED BY <1>2, <2>1 DEF UpdateRunning, TypeOK, StateOf
<1>3. CASE runner[t].outcome # "completed"
  BY <1>1, <1>3, FailMoves DEF StateOf
<1> QED BY <1>2, <1>3

\* DoneByAgent is inductive: only DoneEvent makes a runner report completion.
LEMMA DoneStep ==
    ASSUME TypeOK, DoneByAgent, [Next]_vars
    PROVE  DoneByAgent'
<1> USE DEF DoneByAgent, vars
<1>1. ASSUME NEW c \in Callers, NEW t \in Tasks, NEW onAsync \in BOOLEAN,
            Start(c, t, onAsync)
      PROVE  DoneByAgent'
  BY <1>1 DEF TypeOK, Start, Idle
<1>2. ASSUME NEW c \in Callers, NEW t \in Tasks, ReadRecord(c, t)
      PROVE  DoneByAgent'
  BY <1>2 DEF ReadRecord
<1>3. ASSUME NEW c \in Callers, SubscribeOrClaim(c)
      PROVE  DoneByAgent'
  <2>1. UNCHANGED <<rows, agent>>
    BY <1>3 DEF SubscribeOrClaim
  <2> QED BY <1>3, <2>1, ClaimMoves
<1>4. ASSUME NEW c \in Callers, ReadOutcome(c)
      PROVE  DoneByAgent'
  BY <1>4 DEF ReadOutcome
<1>5. ASSUME NEW t \in Tasks, OpenError(t)
      PROVE  DoneByAgent'
  BY <1>5, BrokenOutcome DEF OpenError
<1>6. ASSUME NEW t \in Tasks, StreamBroken(t)
      PROVE  DoneByAgent'
  BY <1>6, BrokenOutcome DEF StreamBroken, ErrorClasses
<1>7. ASSUME NEW t \in Tasks, StartSpawn(t)
      PROVE  DoneByAgent'
  BY <1>7 DEF TypeOK, StartSpawn
<1>8. ASSUME NEW t \in Tasks, StartRefused(t)
      PROVE  DoneByAgent'
  BY <1>8 DEF TypeOK, StartRefused, Idle
<1>9. ASSUME NEW t \in Tasks, AgentReceives(t)
      PROVE  DoneByAgent'
  BY <1>9 DEF TypeOK, AgentReceives, Agent
<1>10. ASSUME NEW t \in Tasks, OpenStream(t)
      PROVE  DoneByAgent'
  BY <1>10 DEF TypeOK, OpenStream
<1>11. ASSUME NEW t \in Tasks, Wake(t)
      PROVE  DoneByAgent'
  BY <1>11 DEF TypeOK, Wake
<1>12. ASSUME NEW t \in Tasks, ClaimResumes(t)
      PROVE  DoneByAgent'
  BY <1>12 DEF TypeOK, ClaimResumes
<1>13. ASSUME NEW t \in Tasks, ProgressEvent(t)
      PROVE  DoneByAgent'
  BY <1>13 DEF TypeOK, ProgressEvent
<1>14. ASSUME NEW t \in Tasks, Timeout(t)
      PROVE  DoneByAgent'
  BY <1>14 DEF TypeOK, Timeout, Finish
<1>15. ASSUME NEW t \in Tasks, DoneEvent(t)
      PROVE  DoneByAgent'
  BY <1>15 DEF TypeOK, DoneEvent, Finish, Runner
<1>16. ASSUME NEW t \in Tasks, AgentErrorEvent(t)
      PROVE  DoneByAgent'
  BY <1>16 DEF TypeOK, AgentErrorEvent, Finish, Runner
<1>17. ASSUME NEW t \in Tasks, OversizeEvent(t)
      PROVE  DoneByAgent'
  BY <1>17 DEF TypeOK, OversizeEvent, Finish, Runner
<1>18. ASSUME NEW t \in Tasks, TaskEvent(t)
      PROVE  DoneByAgent'
  BY <1>18 DEF TypeOK, TaskEvent, UpdateRunning, Row
<1>19. ASSUME NEW t \in Tasks, SendOutcome(t)
      PROVE  DoneByAgent'
  BY <1>19 DEF TypeOK, SendOutcome
<1>20. ASSUME NEW t \in Tasks, CloseHub(t)
      PROVE  DoneByAgent'
  BY <1>20 DEF TypeOK, CloseHub, Idle
<1>21. ASSUME NEW t \in Tasks, Panic(t)
      PROVE  DoneByAgent'
  BY <1>21 DEF TypeOK, Panic
<1>22. ASSUME NEW t \in Tasks, ClaimFails(t)
      PROVE  DoneByAgent'
  <2>1. PICK ok \in BOOLEAN, class \in Classes : Fail(t, ok, class)
    BY <1>22 DEF ClaimFails, WriteOutcomes, Classes
  <2>2. agent' = agent /\ runner'[t].pc = "close" /\ \A u \in Tasks \ {t} : runner'[u] = runner[u]
    BY <1>22 DEF TypeOK, ClaimFails
  <2> QED BY <2>1, <2>2, FailMoves
<1>23. ASSUME NEW t \in Tasks, AgentFinish(t)
      PROVE  DoneByAgent'
  BY <1>23 DEF TypeOK, AgentFinish, Agent
<1>24. ASSUME NEW t \in Tasks, RefuseResume(t)
      PROVE  DoneByAgent'
  BY <1>24, FailMoves DEF RefuseResume, WriteOutcomes
<1>25. ASSUME NEW t \in Tasks, StoreOutcome(t)
      PROVE  DoneByAgent'
  <2>1. /\ agent' = agent /\ runner'[t].outcome = runner[t].outcome
        /\ \A u \in Tasks \ {t} : runner'[u] = runner[u]
    BY <1>25 DEF TypeOK, StoreOutcome
  <2> QED BY <1>25, <2>1, OutcomeMoves DEF StoreOutcome, StateOf
<1>26. CASE Tick
  BY <1>26 DEF Tick
<1>27. CASE Crash
  BY <1>27 DEF Crash, Idle
<1>28. CASE UNCHANGED vars
  BY <1>28
<1> QED
  BY <1>1, <1>2, <1>3, <1>4, <1>5, <1>6, <1>7, <1>8, <1>9, <1>10, <1>11, <1>12, <1>13, <1>14, <1>15,
     <1>16, <1>17, <1>18, <1>19, <1>20, <1>21, <1>22, <1>23, <1>24, <1>25, <1>26, <1>27, <1>28 DEF Next

\* A step that changes no state of a record, nothing of the agent and nobody's
\* answer is a stutter of the board.
LEMMA BoardStutter ==
    ASSUME agent' = agent,
           \A t \in Tasks : rows'[t].state = rows[t].state,
           \A c \in Callers : caller'[c].got = caller[c].got
    PROVE  UNCHANGED Board!vars
BY DEF Board!vars

\* A record that is made, ended, or left: the rest is as it was.
LEMMA BoardRecord ==
    ASSUME NEW t \in Tasks, agent' = agent, caller' = caller,
           \A u \in Tasks \ {t} : rows'[u] = rows[u],
           \/ rows'[t].state = rows[t].state
           \/ rows[t].state = "none" /\ rows'[t].state = "working"
           \/ /\ rows[t].state = "working"
              /\ rows'[t].state = "failed" \/ (rows'[t].state = "completed" /\ agent[t].result = "done")
    PROVE  [Board!Next]_Board!vars
<1>1. CASE rows'[t].state = rows[t].state
  BY <1>1, BoardStutter
<1> DEFINE status == [u \in Tasks |-> rows[u].state]
<1>2. CASE rows[t].state = "none" /\ rows'[t].state = "working"
  <2>1. Board!Record(t)
    BY <1>2 DEF Board!Record
  <2> QED BY <2>1 DEF Board!Next
<1>3. CASE /\ rows[t].state = "working"
           /\ rows'[t].state = "failed" \/ (rows'[t].state = "completed" /\ agent[t].result = "done")
  <2>1. Board!End(t)
    BY <1>3 DEF Board!End
  <2> QED BY <2>1 DEF Board!Next
<1> QED BY <1>1, <1>2, <1>3

\* Callers that are told the same outcome of t at once.
LEMMA BoardTell ==
    ASSUME NEW t \in Tasks, NEW S \in SUBSET Callers,
           NEW outcome \in Terminal \cup {"unknown", "refused"},
           agent' = agent, rows' = rows,
           \A c \in S : caller[c].got = "-",
           outcome \in Terminal => rows[t].state \in {"none", outcome},
           outcome = "completed" => agent[t].result = "done",
           \A c \in Callers : caller'[c].got = IF c \in S THEN outcome ELSE caller[c].got
    PROVE  [Board!Next]_Board!vars
<1>1. Board!Tell(t, S, outcome)
  BY DEF Board!Tell, Board!Ended, Terminal
<1> QED BY <1>1 DEF Board!Next, Board!Ended, Terminal

\* Every step of the runner, the callers, the agent, the sweep or a crash is a
\* step of the board or a stutter.
LEMMA BoardStep ==
    ASSUME TypeOK, FilingInv, SharedInv, DoneByAgent, [Next]_vars
    PROVE  [Board!Next]_Board!vars
<1> USE DEF vars
<1>1. ASSUME NEW c \in Callers, NEW t \in Tasks, NEW onAsync \in BOOLEAN,
             Start(c, t, onAsync)
      PROVE  [Board!Next]_Board!vars
  <2>1. \A d \in Callers : caller'[d].got = caller[d].got
    BY <1>1 DEF TypeOK, Start, CallerState
  <2> QED BY <1>1, <2>1, BoardStutter DEF Start
<1>2. ASSUME NEW c \in Callers, NEW t \in Tasks, ReadRecord(c, t)
      PROVE  [Board!Next]_Board!vars
  <2>1. \A d \in Callers : caller'[d].got = caller[d].got
    BY <1>2 DEF TypeOK, ReadRecord, CallerState
  <2> QED BY <1>2, <2>1, BoardStutter DEF ReadRecord
<1>3. ASSUME NEW c \in Callers, SubscribeOrClaim(c)
      PROVE  [Board!Next]_Board!vars
  <2>1. \A d \in Callers : caller'[d].got = caller[d].got
    BY <1>3 DEF TypeOK, SubscribeOrClaim, CallerState
  <2> QED BY <1>3, <2>1, BoardStutter DEF SubscribeOrClaim
<1>4. ASSUME NEW c \in Callers, ReadOutcome(c)
      PROVE  [Board!Next]_Board!vars
  <2> DEFINE t == caller[c].task
             s == rows[t].state
             g == IF s \in Terminal THEN s ELSE "unknown"
  <2>1. caller[c].got = "-" /\ t \in Tasks
    BY <1>4 DEF TypeOK, ReadOutcome, CallerState
  <2>2. \A d \in Callers : caller'[d].got = IF d \in {c} THEN g ELSE caller[d].got
    <3>1. caller' = [caller EXCEPT ![c] = [caller[c] EXCEPT !.pc = "told", !.got = g]]
      BY <1>4 DEF ReadOutcome
    <3> HIDE DEF g
    <3>2. [caller[c] EXCEPT !.pc = "told", !.got = g].got = g
      BY <1>4 DEF TypeOK, ReadOutcome, CallerState
    <3> QED BY <3>1, <3>2 DEF TypeOK
  <2>3. g \in Terminal \cup {"unknown", "refused"} /\ (g \in Terminal => g = rows[t].state)
    BY DEF Terminal
  <2>4. g = "completed" => agent[t].result = "done"
    BY <2>1, <2>3 DEF DoneByAgent, Terminal
  <2>5. agent' = agent /\ rows' = rows
    BY <1>4 DEF ReadOutcome
  <2> HIDE DEF g, s, t
  <2> QED BY <2>1, <2>2, <2>3, <2>4, <2>5, BoardTell
<1>5. ASSUME NEW t \in Tasks, StartSpawn(t)
      PROVE  [Board!Next]_Board!vars
  <2>1. rows[t].state = "none"
    BY <1>5 DEF SharedInv, TaskOK, Unrecorded, StartSpawn
  <2>2. /\ \A u \in Tasks \ {t} : rows'[u] = rows[u]
        /\ rows'[t] = rows[t] \/ rows'[t].state = "working"
    BY <1>5 DEF StartSpawn, TypeOK
  <2> QED BY <1>5, <2>1, <2>2, BoardRecord DEF StartSpawn
<1>6. ASSUME NEW t \in Tasks, StartRefused(t)
      PROVE  [Board!Next]_Board!vars
  <2> DEFINE S == {c \in Callers : caller[c].pc = "waiting" /\ caller[c].task = t}
  <2>1. \A c \in S : caller[c].got = "-"
    BY DEF TypeOK, CallerState
  <2>2. \A c \in Callers : caller'[c].got = IF c \in S THEN "refused" ELSE caller[c].got
    BY <1>6 DEF StartRefused, Deliver, TypeOK, CallerState
  <2> HIDE DEF S
  <2>3. S \in SUBSET Callers
    BY DEF S
  <2> QED BY <1>6, <2>1, <2>2, <2>3, BoardTell DEF StartRefused, Terminal
<1>7. ASSUME NEW t \in Tasks, AgentReceives(t)
      PROVE  [Board!Next]_Board!vars
  <2>1. CASE runner[t].start = "dispatch"
    <3>1. agent[t].filed = 0
      BY <1>7, <2>1 DEF AgentReceives, FilingInv, UnsentIsFirst
    <3>2. /\ \A u \in Tasks \ {t} : agent'[u] = agent[u]
          /\ agent'[t].filed = 1 /\ agent'[t].result = agent[t].result
      BY <1>7, <2>1, <3>1 DEF AgentReceives, TypeOK, Agent
    <3>3. [u \in Tasks |-> agent'[u].filed]
            = [[u \in Tasks |-> agent[u].filed] EXCEPT ![t] = 1]
      BY <3>2
    <3>4. [u \in Tasks |-> agent'[u].result] = [u \in Tasks |-> agent[u].result]
      BY <3>2
    <3>5. rows' = rows /\ caller' = caller
      BY <1>7 DEF AgentReceives
    <3>6. Board!File(t)
      BY <3>1, <3>3, <3>4, <3>5 DEF Board!File
    <3> QED BY <3>6 DEF Board!Next
  <2>2. CASE runner[t].start # "dispatch"
    BY <1>7, <2>2, BoardStutter DEF AgentReceives
  <2> QED BY <2>1, <2>2
<1>8. ASSUME NEW t \in Tasks, AgentFinish(t)
      PROVE  [Board!Next]_Board!vars
  <2>1. agent[t].filed = 1 /\ agent[t].result = "none"
    BY <1>8 DEF AgentFinish, FilingInv, OneFiling, TypeOK, Agent
  <2>2. PICK r \in {"done", "error"} : agent' = [agent EXCEPT ![t].result = r]
    BY <1>8 DEF AgentFinish
  <2>3. /\ \A u \in Tasks \ {t} : agent'[u] = agent[u]
        /\ agent'[t].filed = agent[t].filed /\ agent'[t].result = r
    BY <2>2 DEF TypeOK, Agent
  <2>4. Board!Answer(t)
    BY <1>8, <2>1, <2>3 DEF Board!Answer, AgentFinish
  <2> QED BY <2>4 DEF Board!Next
<1>9. ASSUME NEW t \in Tasks, TaskEvent(t)
      PROVE  [Board!Next]_Board!vars
  <2>1. \A u \in Tasks \ {t} : rows'[u] = rows[u]
    BY <1>9 DEF TypeOK, TaskEvent, UpdateRunning
  <2>2. \/ rows'[t].state = rows[t].state
        \/ rows[t].state = "none" /\ rows'[t].state = "working"
    <3>1. CASE runner[t].pending
      <4>1. rows[t].state = "none"
        BY <3>1 DEF SharedInv, TaskOK, Unrecorded
      <4> QED BY <1>9, <3>1, <4>1 DEF TypeOK, TaskEvent
    <3>2. CASE ~runner[t].pending
      <4>1. PICK ok \in BOOLEAN : UpdateRunning(t, ok, [rows[t] EXCEPT !.up = TRUE])
        BY <1>9, <3>2 DEF TaskEvent, WriteOutcomes
      <4>2. [rows[t] EXCEPT !.up = TRUE].state = rows[t].state
        BY DEF TypeOK, Row
      <4> QED BY <4>1, <4>2 DEF TypeOK, UpdateRunning
    <3> QED BY <3>1, <3>2
  <2> QED BY <1>9, <2>1, <2>2, BoardRecord DEF TaskEvent
<1>10. ASSUME NEW t \in Tasks, StoreOutcome(t)
      PROVE  [Board!Next]_Board!vars
  <2>1. runner[t].outcome = "completed" => agent[t].result = "done"
    BY <1>10 DEF StoreOutcome, DoneByAgent
  <2> QED BY <1>10, <2>1, OutcomeMoves, BoardRecord DEF StoreOutcome, StateOf
<1>11. ASSUME NEW t \in Tasks, SendOutcome(t)
      PROVE  [Board!Next]_Board!vars
  <2> DEFINE S == {c \in Callers : caller[c].pc = "waiting" /\ caller[c].task = t}
             o == StateOf(runner[t].outcome)
  <2>1. \A c \in S : caller[c].got = "-"
    BY DEF TypeOK, CallerState
  <2>2. o \in Terminal /\ (o = "completed" => runner[t].outcome = "completed")
    BY DEF StateOf, Terminal
  <2>3. rows[t].state \in {"none", o} /\ (o = "completed" => agent[t].result = "done")
    BY <1>11, <2>2 DEF SendOutcome, SharedInv, TaskOK, StoredBeforeSend, DoneByAgent
  <2>4. caller' = Deliver(t, o) /\ agent' = agent /\ rows' = rows
    BY <1>11 DEF SendOutcome
  <2> HIDE DEF o
  <2>5. \A c \in Callers : caller'[c].got = IF c \in S THEN o ELSE caller[c].got
    BY <2>4 DEF Deliver, TypeOK, CallerState
  <2>6. S \in SUBSET Callers
    OBVIOUS
  <2> HIDE DEF S
  <2> QED BY <2>1, <2>2, <2>3, <2>4, <2>5, <2>6, BoardTell
<1>12. ASSUME NEW t \in Tasks, CloseHub(t)
      PROVE  [Board!Next]_Board!vars
  <2>1. \A c \in Callers : caller'[c].got = caller[c].got
    BY <1>12 DEF CloseHub, CloseChannel, TypeOK, CallerState
  <2> QED BY <1>12, <2>1, BoardStutter DEF CloseHub
<1>13. ASSUME NEW t \in Tasks, ClaimFails(t)
      PROVE  [Board!Next]_Board!vars
  <2>1. PICK ok \in BOOLEAN, class \in Classes : Fail(t, ok, class)
    BY <1>13 DEF ClaimFails, WriteOutcomes, Classes
  <2> QED BY <1>13, <2>1, FailMoves, BoardRecord DEF ClaimFails
<1>14. ASSUME NEW t \in Tasks, RefuseResume(t)
      PROVE  [Board!Next]_Board!vars
  BY <1>14, FailMoves, BoardRecord DEF RefuseResume, WriteOutcomes
<1>15. CASE Crash
  <2>1. \A c \in Callers : caller'[c].got = caller[c].got
    BY <1>15 DEF Crash, TypeOK, CallerState
  <2> QED BY <1>15, <2>1, BoardStutter DEF Crash
<1>16. ASSUME agent' = agent, rows' = rows, caller' = caller
       PROVE  [Board!Next]_Board!vars
  BY <1>16, BoardStutter
<1> QED
  BY <1>1, <1>2, <1>3, <1>4, <1>5, <1>6, <1>7, <1>8, <1>9, <1>10, <1>11, <1>12,
     <1>13, <1>14, <1>15, <1>16
  DEF Next, OpenStream, OpenError, Timeout, ProgressEvent, DoneEvent, AgentErrorEvent,
      OversizeEvent, StreamBroken, Wake, Panic, ClaimResumes, Tick

\* With a store that does not lose writes the task runner implements the board
\* of tasks (BoardSpec): run, start, ensure_running, the boot sweep, panics and
\* restarts together file a turn at most once, complete it only with the
\* agent's answer, end its record once, and tell everyone that one outcome.
THEOREM RunnerImplementsBoard ==
    ASSUME Reliable
    PROVE  Spec => BoardSpec
<1>1. Init => Board!Init
  BY DEF Init, Board!Init, NoRow
<1>2. Init => DoneByAgent
  BY DEF Init, DoneByAgent, Idle, NoRow
<1>3. TypeOK /\ DoneByAgent /\ [Next]_vars => DoneByAgent'
  BY DoneStep
<1>4. TypeOK /\ FilingInv /\ SharedInv /\ DoneByAgent /\ [Next]_vars => [Board!Next]_Board!vars
  BY BoardStep
<1>5. Spec => []TypeOK
  BY TypeCorrect
<1>6. Spec => []FilingInv
  BY FilingHolds
<1>7. Spec => []SharedInv
  BY Reliable, SharedHolds
<1> QED BY <1>1, <1>2, <1>3, <1>4, <1>5, <1>6, <1>7, PTL DEF Spec, BoardSpec, Board!Spec
=============================================================================
