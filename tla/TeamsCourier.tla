--------------------------- MODULE TeamsCourier ---------------------------
(***************************************************************************)
(* The out-of-band delivery of one Teams turn: the courier that follows    *)
(* the turn's task, the working card it updates in place, the delivery of  *)
(* the answer, the mark that says it arrived, and the boot sweep that      *)
(* finishes what a crashed process left.                                   *)
(*                                                                         *)
(* What the user sees is `chat`: the content of every activity that Teams  *)
(* holds.  A connector call is accepted, refused, or ends in an error that *)
(* does not say whether Teams applied it.  Tokens, typing indicators and   *)
(* texts are left out.                                                     *)
(***************************************************************************)
EXTENDS Naturals, Sequences, FiniteSets, FiniteSetsExt

CONSTANTS
    Slots,       \* capacity of the task's broadcast channel (256)
    MaxFaults,   \* bound: connector calls and marks that do not succeed
    MaxCrashes,  \* bound: restarts of the process
    MaxSent      \* bound: activities posted in one behaviour

VARIABLES
    turn,     \* how the turn came in: [personal, inPlace, tasks]
    rec,      \* the stored task record, as far as delivery reads it
    run,      \* the task's runner: "off", "live" or "over" (channel closed)
    feed,     \* events broadcast and not yet read by the courier
    w,        \* the locals and the program point of the courier
    put,      \* CardWriter::inflight: "none", "sent" or "applied"
    late,     \* the cards with an update that was given up on the way
    invoke,   \* the clicked card's own response has not been applied yet
    refresh,  \* what a viewer's refresh of the card read, or "-"
    chat,     \* chat[a]: what activity a shows
    shown,    \* history: <<activity, ending>> delivered by a courier
    doubts,   \* deliveries whose success a courier could not learn or store
    broken,   \* history: a channel closed without an ending
    faults,
    crashes

user == <<invoke, refresh, chat, shown>>
bounds == <<faults, crashes>>
teamsVars == <<turn, rec, run, feed, w, put, late, user, doubts, broken, bounds>>

None == 0
Endings == {"answer", "notice"}   \* the result, or the sanitized failure

NoRow == [state |-> "none", up |-> FALSE, card |-> None, delivered |-> FALSE]

Courier(role, pc, card) ==
    [role |-> role, pc |-> pc,
     hasCard |-> card # None,        \* task_card is Some
     card    |-> card,               \* its activity_id
     stream  |-> FALSE,              \* an open streaming shell (stream_id)
     ripe    |-> TRUE,               \* CARD_UPDATE_EVERY has passed
     settled |-> TRUE,               \* not_before has passed
     closed  |-> FALSE,              \* CardWriter::closed
     outcome |-> "-",
     tries   |-> 0]

(* A clicked card (Action.Execute) is activity 1 and becomes the working   *)
(* card; spawn_courier starts the courier with it, or without a card.      *)
TeamsInit ==
    /\ turn \in [personal : BOOLEAN, inPlace : BOOLEAN, tasks : BOOLEAN]
    /\ rec = NoRow /\ run = "off" /\ feed = <<>>
    /\ w = [Courier("live", "open", IF turn.inPlace THEN 1 ELSE None)
              EXCEPT !.settled = ~turn.inPlace]
    /\ put = "none" /\ late = {} /\ invoke = turn.inPlace /\ refresh = "-"
    /\ chat = IF turn.inPlace THEN <<"clicked">> ELSE <<>>
    /\ shown = {} /\ doubts = 0 /\ broken = FALSE /\ faults = 0 /\ crashes = 0

Fault == faults < MaxFaults /\ faults' = faults + 1
NoFault == faults' = faults

(***************************************************************************)
(* The task's runner, as its subscribers see it (TaskRunner models it).    *)
(***************************************************************************)
\* A full channel forgets its oldest event; the receiver skips what it lost.
Broadcast(ev) == feed' = LET q == Append(feed, ev) IN
                         IF Len(q) > Slots THEN Tail(q) ELSE q

RunnerAsync ==
    /\ run = "live" /\ ~rec.up /\ Broadcast("task")
    /\ rec' = IF ~turn.tasks THEN rec
              ELSE [rec EXCEPT !.state = "running", !.up = TRUE,
                               !.card = IF rec.state = "none" /\ turn.inPlace THEN 1 ELSE @]
    /\ UNCHANGED <<turn, run, w, put, late, user, doubts, broken, bounds>>

RunnerProgress ==
    /\ run = "live" /\ Broadcast("progress")
    /\ UNCHANGED <<turn, rec, run, w, put, late, user, doubts, broken, bounds>>

\* The outcome is stored before it is broadcast, and then the channel closes.
RunnerEnd(o) ==
    /\ run = "live" /\ Broadcast(o) /\ run' = "over"
    /\ rec' = IF rec.state = "running" THEN [rec EXCEPT !.state = o] ELSE rec
    /\ UNCHANGED <<turn, w, put, late, user, doubts, broken, bounds>>

\* A panic, or a direct stream that breaks: the channel closes with no ending.
RunnerBreaks ==
    /\ run = "live" /\ run' = "over" /\ broken' = TRUE /\ Fault
    /\ UNCHANGED <<turn, rec, feed, w, put, late, user, doubts, crashes>>

(***************************************************************************)
(* The connector.  An update that was given up may still be applied.       *)
(***************************************************************************)
Post(content) == /\ Len(chat) < MaxSent
                 /\ chat' = Append(chat, content)

UpdateApplied ==
    /\ put = "sent" /\ put' = "applied"
    /\ chat' = [chat EXCEPT ![w.card] = "working"]
    /\ UNCHANGED <<turn, rec, run, feed, w, late, invoke, refresh, shown, doubts, broken, bounds>>

\* The update's future ends; its request may have failed on the way.
UpdateEnds ==
    /\ w.pc = "loop" /\ put # "none" /\ put' = "none"
    /\ \/ put = "applied" /\ NoFault /\ late' = late
       \/ put = "sent" /\ Fault /\ late' \in {late, late \cup {w.card}}
    /\ UNCHANGED <<turn, rec, run, feed, w, user, doubts, broken, crashes>>

LateUpdate ==
    /\ \E a \in late : late' = late \ {a} /\ chat' = [chat EXCEPT ![a] = "working"]
    /\ UNCHANGED <<turn, rec, run, feed, w, put, invoke, refresh, shown, doubts, broken, bounds>>

\* Teams replaces the clicked card by the invoke's response.
InvokeApplied ==
    /\ invoke /\ invoke' = FALSE
    /\ chat' = [chat EXCEPT ![1] = "working"]
    /\ UNCHANGED <<turn, rec, run, feed, w, put, late, refresh, shown, doubts, broken, bounds>>

\* refresh_card: the client that shows a working card asks for it as the
\* store has it, and shows the answer when it gets it.
RefreshRead ==
    /\ turn.tasks /\ refresh = "-" /\ rec.card # None /\ chat[rec.card] = "working"
    /\ refresh' = IF rec.state \in Endings THEN rec.state ELSE "working"
    /\ UNCHANGED <<turn, rec, run, feed, w, put, late, invoke, chat, shown, doubts, broken, bounds>>

RefreshShown ==
    /\ refresh # "-" /\ refresh' = "-"
    /\ chat' = [chat EXCEPT ![rec.card] = refresh]
    /\ UNCHANGED <<turn, rec, run, feed, w, put, late, invoke, shown, doubts, broken, bounds>>

(***************************************************************************)
(* courier_deliver                                                         *)
(***************************************************************************)
\* A personal chat opens a stream, a group shows the typing indicator; a
\* clicked card is the progress itself.
OpenProgress ==
    /\ w.pc = "open"
    /\ \E ok \in BOOLEAN :
         /\ IF ok \/ ~turn.personal \/ turn.inPlace THEN NoFault ELSE Fault
         /\ w' = [w EXCEPT !.pc = "start",
                           !.stream = ok /\ turn.personal /\ ~turn.inPlace]
    /\ UNCHANGED <<turn, rec, run, feed, put, late, user, doubts, broken, crashes>>

\* Runner::start, or invoke_streaming without a runner.  A clicked card is
\* stored at once, so that its refresh finds it.
StartTurn ==
    /\ w.pc = "start" /\ run' = "live" /\ w' = [w EXCEPT !.pc = "loop"]
    /\ rec' = IF turn.tasks /\ turn.inPlace
              THEN [NoRow EXCEPT !.state = "running", !.card = 1] ELSE rec
    /\ UNCHANGED <<turn, feed, put, late, user, doubts, broken, bounds>>

StartFails ==
    /\ w.pc = "start" /\ Fault
    /\ w' = [w EXCEPT !.pc = "settle", !.outcome = "notice"]
    /\ UNCHANGED <<turn, rec, run, feed, put, late, user, doubts, broken, crashes>>

\* CardWriter::update: one update at a time, none after the answer is known.
Update(x) ==
    IF x.closed \/ put # "none" \/ x.card = None \/ ~x.settled \/ ~x.ripe
    THEN w' = x /\ put' = put
    ELSE w' = [x EXCEPT !.ripe = FALSE] /\ put' = "sent"

\* The update window, and the pause before a clicked card's first update,
\* pass.  Teams applies the invoke's response within IN_PLACE_SETTLE.
WindowPasses ==
    /\ w.pc \in {"loop", "settle", "deliver"}
    /\ \/ ~w.ripe /\ w' = [w EXCEPT !.ripe = TRUE]
       \/ ~w.settled /\ ~invoke /\ w' = [w EXCEPT !.settled = TRUE]
    /\ UNCHANGED <<turn, rec, run, feed, put, late, user, doubts, broken, bounds>>

Read(ev) == w.pc = "loop" /\ feed # <<>> /\ Head(feed) = ev /\ feed' = Tail(feed)

\* The upstream went asynchronous: one working card takes over from the
\* stream or the typing indicator.  A card that is refused is not retried.
PostCard ==
    /\ Read("task") /\ w.role = "live" /\ ~w.hasCard
    /\ \/ NoFault /\ Post("working")
          /\ w' = [w EXCEPT !.pc = "posted", !.hasCard = TRUE, !.stream = FALSE]
       \/ Fault /\ (chat' = chat \/ Post("working"))
          /\ w' = [w EXCEPT !.hasCard = TRUE, !.stream = FALSE]
    /\ UNCHANGED <<turn, rec, run, put, late, invoke, refresh, shown, doubts, broken, crashes>>

\* The card's id is stored for a later boot, unless the task is over.
StoreCard ==
    /\ w.pc = "posted" /\ w' = [w EXCEPT !.pc = "loop", !.card = Len(chat)]
    /\ rec' = IF turn.tasks /\ rec.state = "running"
              THEN [rec EXCEPT !.card = Len(chat)] ELSE rec
    /\ UNCHANGED <<turn, run, feed, put, late, user, doubts, broken, bounds>>

\* A receipt or a step: shown at once, or with the next update.
ProgressEvent ==
    /\ \/ Read("progress")
       \/ Read("task") /\ (w.hasCard \/ w.role = "sweep")
    /\ Update(w)
    /\ UNCHANGED <<turn, rec, run, late, user, doubts, broken, bounds>>

\* The trailing flush of a held step, and the running timer.
Flush ==
    /\ w.pc = "loop" /\ feed = <<>> /\ run # "over" /\ ~w.closed /\ put = "none"
    /\ w.card # None /\ w.ripe /\ w.settled
    /\ Update(w)
    /\ UNCHANGED <<turn, rec, run, feed, late, user, doubts, broken, bounds>>

Ending(o) ==
    /\ Read(o) /\ w' = [w EXCEPT !.closed = TRUE, !.outcome = o, !.pc = "settle"]
    /\ UNCHANGED <<turn, rec, run, put, late, user, doubts, broken, bounds>>

\* The channel closed before an ending was read: the stored outcome stands
\* in; without one a live courier reports a broken stream, a resumed one
\* reads the store once more.
StreamEnds ==
    /\ w.pc = "loop" /\ feed = <<>> /\ run = "over"
    /\ w' = [w EXCEPT !.closed = TRUE, !.pc = "settle",
                      !.outcome = IF turn.tasks /\ rec.state \in Endings THEN rec.state
                                  ELSE IF w.role = "live" THEN "notice" ELSE "-"]
    /\ UNCHANGED <<turn, rec, run, feed, put, late, user, doubts, broken, bounds>>

\* CardWriter::settle: the update in flight ends, or is given up.
Settle ==
    /\ w.pc = "settle" /\ put' = "none"
    /\ \/ put # "sent" /\ NoFault /\ late' = late
       \/ put = "sent" /\ Fault /\ late' \in {late, late \cup {w.card}}
    /\ w' = [w EXCEPT !.pc = IF w.outcome = "-" THEN "stored" ELSE "deliver"]
    /\ UNCHANGED <<turn, rec, run, feed, user, doubts, broken, crashes>>

(***************************************************************************)
(* deliver_terminal: replace the card, else close the stream, else post.   *)
(***************************************************************************)
Delivered == w' = [w EXCEPT !.pc = IF turn.tasks THEN "mark" ELSE "done"]
Show(a) == shown' = shown \cup {<<a, w.outcome>>}

\* Mutant: after the update the answer is posted as well.
PutAnswerThenPost ==
    /\ w.pc = "deliver" /\ w.settled /\ w.card # None
    /\ chat' = [chat EXCEPT ![w.card] = w.outcome] /\ Show(w.card)
    /\ w' = [w EXCEPT !.pc = "post"]
    /\ UNCHANGED <<turn, rec, run, feed, put, late, invoke, refresh, doubts, broken, bounds>>

PutAnswer ==
    /\ w.pc = "deliver" /\ w.settled /\ w.card # None
    /\ \/ NoFault /\ chat' = [chat EXCEPT ![w.card] = w.outcome] /\ Show(w.card)
          /\ Delivered /\ doubts' = doubts
       \/ Fault /\ UNCHANGED <<chat, shown, doubts>>     \* refused
          /\ w' = [w EXCEPT !.pc = "post"]
       \/ /\ Fault                                       \* no answer: once more
          /\ \/ UNCHANGED <<chat, shown, doubts>>
             \/ /\ chat' = [chat EXCEPT ![w.card] = w.outcome] /\ Show(w.card)
                /\ doubts' = doubts + 1
          /\ w' = [w EXCEPT !.tries = @ + 1, !.pc = IF w.tries = 1 THEN "post" ELSE @]
    /\ UNCHANGED <<turn, rec, run, feed, put, late, invoke, refresh, broken, crashes>>

NoCardToPut ==
    /\ w.pc = "deliver" /\ w.settled /\ w.card = None
    /\ w' = [w EXCEPT !.pc = "post"]
    /\ UNCHANGED <<turn, rec, run, feed, put, late, user, doubts, broken, bounds>>

\* Mutant: a post that failed counts as delivered.
PostAnswerOptimistic ==
    /\ w.pc \in {"post", "plain"} /\ Delivered
    /\ \/ NoFault /\ Post(w.outcome) /\ Show(Len(chat) + 1)
       \/ Fault /\ UNCHANGED <<chat, shown>>
    /\ UNCHANGED <<turn, rec, run, feed, put, late, invoke, refresh, doubts, broken, crashes>>

\* A streamed final that fails is posted once more as a plain message.
PostAnswer ==
    /\ w.pc \in {"post", "plain"}
    /\ \/ NoFault /\ Post(w.outcome) /\ Show(Len(chat) + 1) /\ Delivered /\ doubts' = doubts
       \/ /\ Fault
          /\ \/ UNCHANGED <<chat, shown, doubts>>
             \/ Post(w.outcome) /\ Show(Len(chat) + 1) /\ doubts' = doubts + 1
          /\ w' = [w EXCEPT !.pc = IF w.pc = "post" /\ w.stream THEN "plain" ELSE "lost"]
    /\ UNCHANGED <<turn, rec, run, feed, put, late, invoke, refresh, broken, crashes>>

\* mark_delivered; the store's answer is ignored.
MarkDelivered ==
    /\ w.pc = "mark" /\ w' = [w EXCEPT !.pc = "done"]
    /\ \/ NoFault /\ doubts' = doubts
          /\ rec' = IF rec.state = "none" THEN rec ELSE [rec EXCEPT !.delivered = TRUE]
       \/ Fault /\ rec' = rec /\ doubts' = doubts + 1
    /\ UNCHANGED <<turn, run, feed, put, late, broken, crashes, user>>

(***************************************************************************)
(* Crash, and resume_stored_tasks at the next boot, before the routes are  *)
(* served.                                                                 *)
(***************************************************************************)
\* Mutant: the sweep lists running tasks only.
CrashForgetsFinished ==
    /\ crashes < MaxCrashes /\ crashes' = crashes + 1
    /\ run' = "off" /\ feed' = <<>> /\ put' = "none"
    /\ invoke' = FALSE
    /\ chat' \in {chat} \cup (IF invoke THEN {[chat EXCEPT ![1] = "working"]} ELSE {})
    /\ late' \in {late, late \cup (IF put = "sent" THEN {w.card} ELSE {})}
    /\ doubts' = IF w.pc = "mark" THEN doubts + 1 ELSE doubts
    /\ w' = IF rec.state = "running"
            THEN Courier("sweep", "revalidate", rec.card)
            ELSE Courier("sweep", "gone", None)
    /\ UNCHANGED <<turn, rec, refresh, shown, broken, faults>>

\* The response of an invoke was applied before the reboot, or is lost.
Crash ==
    /\ crashes < MaxCrashes /\ crashes' = crashes + 1
    /\ run' = "off" /\ feed' = <<>> /\ put' = "none"
    /\ invoke' = FALSE
    /\ chat' \in {chat} \cup (IF invoke THEN {[chat EXCEPT ![1] = "working"]} ELSE {})
    /\ late' \in {late, late \cup (IF put = "sent" THEN {w.card} ELSE {})}
    /\ doubts' = IF w.pc = "mark" THEN doubts + 1 ELSE doubts
    /\ w' = IF rec.state # "none" /\ ~rec.delivered
            THEN Courier("sweep", "revalidate", rec.card)
            ELSE Courier("sweep", "gone", None)
    /\ UNCHANGED <<turn, rec, refresh, shown, broken, faults>>

\* The stored target must still be trusted; otherwise nothing is posted.
Revalidate ==
    /\ w.pc = "revalidate"
    /\ \/ w' = [w EXCEPT !.pc = IF rec.state = "running" THEN "drive" ELSE "stored"]
          /\ rec' = rec
       \/ w' = [w EXCEPT !.pc = "gone"]
          /\ rec' = [rec EXCEPT !.delivered = TRUE,
                                !.state = IF @ = "running" THEN "notice" ELSE @]
    /\ UNCHANGED <<turn, run, feed, put, late, user, doubts, broken, bounds>>

\* ensure_running: the upstream task is followed again; one that was never
\* filed upstream, or is past its deadline, fails.
Drive ==
    /\ w.pc = "drive"
    /\ \/ /\ rec.up /\ run' = "live" /\ rec' = rec
          /\ w' = [w EXCEPT !.pc = "loop"]
       \/ /\ rec' = [rec EXCEPT !.state = "notice"] /\ run' = run
          /\ w' = [w EXCEPT !.pc = "stored"]
    /\ UNCHANGED <<turn, feed, put, late, user, doubts, broken, bounds>>

\* Not driven here: the stored outcome stands, if there is one.
StoredOutcome ==
    /\ w.pc = "stored"
    /\ w' = IF rec.state \in Endings
            THEN [w EXCEPT !.pc = "deliver", !.outcome = rec.state]
            ELSE [w EXCEPT !.pc = "done"]
    /\ UNCHANGED <<turn, rec, run, feed, put, late, user, doubts, broken, bounds>>

RunnerNext == RunnerAsync \/ RunnerProgress \/ (\E o \in Endings : RunnerEnd(o)) \/ RunnerBreaks
ConnectorNext == UpdateApplied \/ LateUpdate \/ InvokeApplied \/ RefreshRead \/ RefreshShown
CourierNext ==
    \/ OpenProgress \/ StartTurn \/ StartFails
    \/ PostCard \/ StoreCard \/ ProgressEvent \/ Flush \/ UpdateEnds \/ WindowPasses
    \/ (\E o \in Endings : Ending(o)) \/ StreamEnds \/ Settle
    \/ PutAnswer \/ NoCardToPut \/ PostAnswer \/ MarkDelivered
    \/ Revalidate \/ Drive \/ StoredOutcome

TeamsNext == RunnerNext \/ ConnectorNext \/ CourierNext \/ Crash

(***************************************************************************)
(* Properties                                                              *)
(***************************************************************************)
\* A record marked delivered has been delivered: the user was shown the
\* ending it keeps, or the sweep refused the target and may show nothing.  And
\* no other ending is shown, across a restart, a lagging channel and a channel
\* that closed early; only a runner that broke off may be reported as a
\* failure although its task goes on.
DeliveredIsSeen ==
    /\ rec.delivered =>
         \/ w.pc = "gone"
         \/ \E p \in shown : p[2] = rec.state \/ rec.state = "running"
    /\ rec.state \in Endings /\ ~broken => \A p \in shown : p[2] = rec.state

\* An answer appears in one activity; a further copy needs a delivery whose
\* success the courier could not learn (an ambiguous error), or could not
\* store before it failed or crashed.
OneAnswer == Cardinality({p[1] : p \in shown}) <= 1 + doubts

\* Once a courier has put the answer on a card nothing turns it back into a
\* working card: not the response of the click, not an update in flight; only
\* an update that was given up on the way, or a viewer's refresh that read the
\* store before the task ended, can; and a task whose runner broke off shows
\* its progress again when it is resumed.
AnswerStays ==
    [][\A a \in DOMAIN chat :
           <<a, chat[a]>> \in shown /\ chat'[a] = "working"
           => a \in late \/ refresh = "working" \/ broken]_teamsVars
=============================================================================
