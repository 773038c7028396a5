----------------------------- MODULE A2aStreams -----------------------------
(***************************************************************************)
(* The readers of one task: A2A 0.3 message/stream, A2A 1.0 task streams   *)
(* and resubscribes, blocking sends and MCP calls.  They follow the task's *)
(* events on a broadcast channel that holds `Window` of them; a reader     *)
(* that falls further behind loses the oldest.  The channel closes when    *)
(* its hub entry goes.  TaskRunner models the runner and the hub in full;  *)
(* here they are as their readers see them.                                *)
(*                                                                         *)
(* The agent answers with tokens and an ending, or goes asynchronous: a    *)
(* task id, steps and an ending (upstream-agent-contract.md, section 7).   *)
(***************************************************************************)
EXTENDS Naturals, Sequences, FiniteSets

CONSTANTS
    Readers,      \* who reads; First starts the task
    First,
    Tokens,       \* how many tokens (or steps) the agent sends
    Window,       \* the capacity of the broadcast channel
    TextMax,      \* RESULT_TEXT_MAX_BYTES, in tokens
    MaxLosses     \* bound: restarts of the process and runners that break off

\* A channel holds 256 events, a record 32 KiB of the answer's text.
ASSUME A2aConstants == First \in Readers /\ Tokens \in Nat /\ Window \in Nat \ {0} /\ TextMax \in Nat

VARIABLES
    async,     \* the agent answers with a task id
    task,      \* the stored record: "none", "working", "completed" or "failed"
    filed,     \* the stored record has the agent's task id
    chans,     \* the channels so far, [log, open]; the hub's entry is the last, unless closed
    stage,     \* the runner: "off", "run", "ended", "stored", "sent"
    outcome,   \* what it came to
    broke,     \* a runner broke off without an ending
    unsaved,   \* a write of the record failed
    reader,    \* reader[c]: see NoReader
    losses

a2aVars == <<async, task, filed, chans, stage, outcome, broke, unsaved, reader, losses>>

Final == {"completed", "failed"}

\* A reader at `pc`, with its place in its channel; what a stream client has
\* put together (the tokens, or the whole answer) and which endings it saw.
NoReader == [kind |-> "none", pc |-> "idle", chan |-> 0, pos |-> 0, lagged |-> FALSE,
             text |-> <<>>, told |-> <<>>, cut |-> FALSE]
Whole == [i \in 1..Tokens |-> i]

\* clamp: what is too long is cut and ends in an ellipsis.
Ellipsis == 0
Clamp(text) == IF Len(text) <= TextMax THEN text ELSE Append(SubSeq(text, 1, TextMax), Ellipsis)

A2aInit ==
    /\ async \in BOOLEAN /\ task = "none" /\ filed = FALSE /\ chans = <<>> /\ broke = FALSE /\ unsaved = FALSE
    /\ stage = "off" /\ outcome = "none" /\ reader = [c \in Readers |-> NoReader] /\ losses = 0

\* The hub's entry.
Hub == IF chans = <<>> THEN "closed" ELSE chans[Len(chans)].open
Opened(state) == Append(chans, [log |-> <<>>, open |-> state])
HubIs(state) == [chans EXCEPT ![Len(chans)].open = state]
Log == chans[Len(chans)].log
Send(ev) == chans' = [chans EXCEPT ![Len(chans)].log = Append(@, ev)]

(***************************************************************************)
(* The runner                                                              *)
(***************************************************************************)
\* start_task, and the receiver of the caller.  MCP stores the record only
\* when the agent files a task.
StartTask(kind) ==
    /\ chans = <<>> /\ chans' = Opened("live") /\ stage' = "run"
    /\ task' = IF kind = "mcp" THEN "none" ELSE "working"
    /\ reader' = [reader EXCEPT ![First] = [@ EXCEPT !.kind = kind, !.pc = "follow", !.chan = 1]]
    /\ UNCHANGED <<async, filed, outcome, broke, unsaved, losses>>

\* update drops the error of a write that fails (once in a behaviour, a bound).
Saves(ok) == (ok \/ ~unsaved) /\ unsaved' = (unsaved \/ ~ok)

Sent(ev) == Cardinality({i \in DOMAIN Log : Log[i].type = ev})

\* The agent's tokens, or its task id, which is stored, and its steps.
RunnerSends(ok) ==
    /\ stage = "run" /\ Sent("token") + Sent("progress") < Tokens
    /\ IF async /\ Sent("async") = 0
       THEN /\ Send([type |-> "async"]) /\ Saves(ok)
            /\ filed' = (filed \/ ok) /\ task' = IF ok THEN "working" ELSE task
       ELSE /\ Send([type |-> IF async THEN "progress" ELSE "token", n |-> Sent("token") + 1])
            /\ ok /\ UNCHANGED <<filed, task, unsaved>>
    /\ UNCHANGED <<async, stage, outcome, broke, reader, losses>>

\* The agent ends once all was sent, or fails early.
RunnerEnds(o) ==
    /\ stage = "run"
    /\ o = "completed" => Sent("token") = Tokens \/ filed \/ \E i \in DOMAIN Log : Log[i].type = "async"
    /\ stage' = "ended" /\ outcome' = o
    /\ UNCHANGED <<async, task, filed, chans, broke, unsaved, reader, losses>>

\* update_running: only a record that is there and running is written.
StoreEnding(ok) ==
    /\ stage = "ended" /\ stage' = "stored" /\ Saves(ok)
    /\ task' = IF task = "working" /\ ok THEN outcome ELSE task
    /\ UNCHANGED <<async, filed, chans, outcome, broke, reader, losses>>
SendEnding ==
    /\ stage = "stored" /\ stage' = "sent" /\ Send([type |-> outcome])
    /\ UNCHANGED <<async, task, filed, outcome, broke, unsaved, reader, losses>>

\* HubGuard: the channel closes; a runner that breaks off (a panic) takes its
\* ending with it.
RunnerGone ==
    /\ stage = "sent" \/ (stage = "run" /\ losses < MaxLosses)
    /\ broke' = (broke \/ stage = "run") /\ losses' = IF stage = "run" THEN losses + 1 ELSE losses
    /\ stage' = "off" /\ outcome' = "none" /\ chans' = HubIs("closed")
    /\ UNCHANGED <<async, task, filed, unsaved, reader>>

\* The process restarts; the record stays, the readers are cut off and may
\* come back.
Restart ==
    /\ losses < MaxLosses /\ losses' = losses + 1 /\ chans # <<>>
    /\ stage' = "off" /\ outcome' = "none" /\ chans' = << [log |-> <<>>, open |-> "closed"] >>
    /\ reader' = [c \in Readers |-> NoReader]
    /\ UNCHANGED <<async, task, filed, broke, unsaved>>

(***************************************************************************)
(* Reading a stored task                                                   *)
(***************************************************************************)
\* A reader is done: what it was told, and what a stream has shown.
Ended(c, ending, text) ==
    [NoReader EXCEPT !.kind = reader[c].kind, !.pc = "ended", !.told = ending,
                     !.text = IF reader[c].kind \in {"v03", "v10", "sub"} THEN text ELSE <<>>]

\* readable_live: the record is read first; its owner may go on with it, an
\* operator or the reader of a legacy record gets what is stored.
ReadTask(c, owner) ==
    /\ reader[c].pc = "idle" /\ task # "none"
    /\ reader' = [reader EXCEPT ![c] = [@ EXCEPT !.kind = "sub",
                                         !.pc = IF owner /\ task \notin Final THEN "ensure" ELSE "reread"]]
    /\ UNCHANGED <<async, task, filed, chans, stage, outcome, broke, unsaved, losses>>

\* subscribe_or_claim, under the hub's lock: an entry is subscribed to; a
\* task that nobody runs is claimed, unless it finished since.
SubscribeOrClaim(c) ==
    /\ reader[c].pc = "ensure"
    /\ \/ /\ Hub # "closed" /\ UNCHANGED chans
          /\ reader' = [reader EXCEPT ![c] = [@ EXCEPT !.pc = "reread", !.chan = Len(chans), !.pos = Len(Log)]]
       \/ /\ Hub = "closed" /\ task \in Final /\ UNCHANGED chans
          /\ reader' = [reader EXCEPT ![c].pc = "reread"]
       \/ /\ Hub = "closed" /\ task \notin Final /\ chans' = Opened("claimed")
          /\ reader' = [reader EXCEPT ![c] = [@ EXCEPT !.pc = "claim", !.chan = Len(chans')]]
    /\ UNCHANGED <<async, task, filed, stage, outcome, broke, unsaved, losses>>

\* The claim of a task without an agent's id, or of one that is too old,
\* fails it and lets the entry go.
ClaimFailed(c, ok) ==
    /\ reader[c].pc = "claim" /\ Saves(ok) /\ task' = IF ok THEN "failed" ELSE task
    /\ chans' = HubIs("closed")
    /\ reader' = [reader EXCEPT ![c] = [@ EXCEPT !.pc = "reread", !.chan = 0]]
    /\ UNCHANGED <<async, filed, stage, outcome, broke, losses>>
ClaimResumed(c) ==
    /\ reader[c].pc = "claim" /\ filed /\ chans' = HubIs("live") /\ stage' = "run"
    /\ reader' = [reader EXCEPT ![c].pc = "reread"]
    /\ UNCHANGED <<async, task, filed, outcome, broke, unsaved, losses>>

\* The record is read again: a finished one is answered (op_subscribe sends
\* the client to GetTask), of a running one the stream begins, and ends at once
\* for a reader without a subscription.
Reread(c) ==
    /\ reader[c].pc = "reread"
    /\ reader' = [reader EXCEPT ![c] =
           CASE task \in Final -> [Ended(c, << task >>, <<>>) EXCEPT !.kind = "get"]
             [] task \notin Final /\ reader[c].chan = 0 -> Ended(c, <<>>, <<>>)
             [] OTHER -> [reader[c] EXCEPT !.pc = "follow"]]
    /\ UNCHANGED <<async, task, filed, chans, stage, outcome, broke, unsaved, losses>>

(***************************************************************************)
(* Following the channel                                                   *)
(***************************************************************************)
Following(c) == reader[c].pc = "follow" /\ reader[c].chan # 0
LogOf(c) == chans[reader[c].chan].log
Behind(c) == Len(LogOf(c)) - reader[c].pos > Window

\* RecvError::Lagged: the receiver moves to the oldest event that is left.
Lagged(c) ==
    /\ Following(c) /\ Behind(c)
    /\ reader' = [reader EXCEPT ![c] = [@ EXCEPT !.lagged = TRUE, !.pos = Len(LogOf(c)) - Window]]
    /\ UNCHANGED <<async, task, filed, chans, stage, outcome, broke, unsaved, losses>>

\* Mutant: the deltas are taken for the whole answer even after a lag.
DoneTextIgnoresLag(r) == IF r.text # <<>> THEN r.text ELSE Whole

\* The last artifact of message/stream: empty if every delta was seen.
DoneText(r) == IF r.text # <<>> /\ ~r.lagged THEN r.text ELSE Whole

\* The artifact of a task stream is read from the record (a client that takes
\* A2UI gets the text of a result with a surface from the stored result).
StoredText == IF task = "completed" THEN Clamp(Whole) ELSE <<>>

\* One event: a delta is a frame of message/stream only.
TakeEvent(c) ==
    /\ Following(c) /\ ~Behind(c) /\ reader[c].pos < Len(LogOf(c))
    /\ LET r == reader[c]
           ev == LogOf(c)[r.pos + 1]
       IN reader' = [reader EXCEPT ![c] =
           CASE ev.type = "token" /\ r.kind = "v03" ->
                  [r EXCEPT !.pos = @ + 1, !.text = Append(@, ev.n)]
             [] ev.type = "completed" ->
                  Ended(c, << ev.type >>, IF r.kind = "v03" THEN DoneText(r) ELSE StoredText)
             [] ev.type = "failed" -> Ended(c, << ev.type >>, <<>>)
             [] OTHER -> [r EXCEPT !.pos = @ + 1]]
    /\ UNCHANGED <<async, task, filed, chans, stage, outcome, broke, unsaved, losses>>

AtClose(c) == Following(c) /\ reader[c].pos = Len(LogOf(c)) /\ chans[reader[c].chan].open = "closed"

\* Mutant: a task stream whose channel closes just ends.
ClosedSilently(c) ==
    /\ AtClose(c) /\ reader' = [reader EXCEPT ![c] = Ended(c, <<>>, <<>>)]
    /\ UNCHANGED <<async, task, filed, chans, stage, outcome, broke, unsaved, losses>>

\* RecvError::Closed: message/stream ends, an MCP call is answered with the
\* result or an error, and the others with the record.
Closed(c) ==
    /\ AtClose(c)
    /\ reader' = [reader EXCEPT ![c] =
           CASE reader[c].kind = "mcp" -> Ended(c, << IF task = "completed" THEN task ELSE "failed" >>, <<>>)
             [] reader[c].kind \notin {"mcp", "v03"} /\ task \in Final -> Ended(c, << task >>, StoredText)
             [] OTHER -> Ended(c, <<>>, <<>>)]
    /\ UNCHANGED <<async, task, filed, chans, stage, outcome, broke, unsaved, losses>>

\* stream_max, the block time and the MCP wait (which runs from `async` on):
\* a stream just ends, a call is answered with the record as it is.
WaitOver(c) ==
    /\ Following(c)
    /\ reader[c].kind = "mcp" => \E i \in 1..reader[c].pos : LogOf(c)[i].type = "async"
    /\ reader' = [reader EXCEPT ![c] =
           [Ended(c, IF reader[c].kind = "block" /\ task \in Final THEN << task >> ELSE <<>>, <<>>)
               EXCEPT !.cut = TRUE]]
    /\ UNCHANGED <<async, task, filed, chans, stage, outcome, broke, unsaved, losses>>

A2aRunnerNext ==
    \/ \E ok \in BOOLEAN : RunnerSends(ok) \/ StoreEnding(ok)
    \/ (\E o \in Final : RunnerEnds(o)) \/ SendEnding \/ RunnerGone
A2aNext ==
    \/ \E k \in {"v03", "v10", "block", "mcp"} : StartTask(k)
    \/ A2aRunnerNext \/ Restart
    \/ \E c \in Readers : \/ \E owner \in BOOLEAN : ReadTask(c, owner)
                          \/ SubscribeOrClaim(c) \/ (\E ok \in BOOLEAN : ClaimFailed(c, ok))
                          \/ ClaimResumed(c) \/ Reread(c) \/ Lagged(c) \/ TakeEvent(c) \/ Closed(c) \/ WaitOver(c)

(***************************************************************************)
(* Properties                                                              *)
(***************************************************************************)
\* A message/stream that says `completed` has shown the whole answer, however
\* many deltas its reader lost.  A task stream has shown the text as the record
\* holds it, which is clamped, and nothing of it only if a write had failed.
StreamedWhole ==
    \A c \in Readers : reader[c].told = << "completed" >> =>
        /\ reader[c].kind = "v03" => reader[c].text = Whole
        /\ reader[c].kind \in {"v10", "sub"} =>
              reader[c].text = Clamp(Whole) \/ (unsaved /\ reader[c].text = <<>>)

\* A reader that ends by itself is told the one ending that is stored, also if
\* the task was failed by another reader's claim; only message/stream, whose
\* runner broke off, is told nothing, and after a lost write the two may differ.
StreamTellsOutcome ==
    [][\A c \in Readers :
         (/\ reader[c].pc # "ended" /\ reader'[c].pc = "ended" /\ ~reader'[c].cut /\ task \in Final
          /\ ~(broke /\ reader[c].kind = "v03") /\ ~unsaved)
         => reader'[c].told = << task >>]_a2aVars
=============================================================================
