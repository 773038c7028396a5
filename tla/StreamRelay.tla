---------------------------- MODULE StreamRelay ----------------------------
(***************************************************************************)
(* One open stream of events, from its source to the client.  The source   *)
(* is an agent's byte stream behind the SSE decoder of triton-upstream     *)
(* (decode_sse) and the breaker's finalizer (open_stream), an agent's      *)
(* plain JSON answer, or an in-process tool that streams.  Around it are   *)
(* the A2UI wrap and the audit finalizer of the dispatcher                 *)
(* (wrap_stream_a2ui, audited_stream), and the consumer that polls the     *)
(* stack and may drop it at any time.  Both finalizers are the combinator  *)
(* Finalized of triton-core; a terminal event passes both in one poll, so  *)
(* one flag stands for their two terminated fields.                        *)
(***************************************************************************)
EXTENDS Integers, Sequences

CONSTANTS
    Batches,      \* what one chunk may complete: sequences of frames
    MaxFrame,     \* MAX_FRAME_BYTES, in units
    MaxGrowth,    \* most units a chunk leaves without a boundary
    IdleTimeout,  \* stream_idle_timeout, in ticks
    MaxDuration   \* stream_max_duration, in ticks

RelayConstants ==
    /\ Batches \subseteq Seq({"progress", "done", "error", "comment"})
    /\ {MaxFrame, MaxGrowth} \subseteq Nat
    /\ {IdleTimeout, MaxDuration} \subseteq Nat \ {0}

VARIABLES
    source,      \* "agent" (an event stream), "json" or "tool"
    wrapping,    \* the caller negotiated A2UI and the result is wrapped
    clock,       \* time since decode_sse, up to the deadline
    waiting,     \* what is left of the read's timeout, or -1: no read
    buf,         \* Decoder::buf, its length
    pending,     \* Decoder::pending
    done,        \* Decoder::done
    terminated,  \* Finalized::terminated
    settled,     \* what the breaker's finalizer was fired with, in order
    audited,     \* what the audit's finalizer was fired with, in order
    got,         \* got.last: the terminal event the client got, or "none";
                 \* got.late: it got one after that; got.ended: it saw the end
    dropped      \* the consumer has dropped the stack

vars == <<source, wrapping, clock, waiting, buf, pending, done, terminated, settled, audited, got, dropped>>
setup == <<source, wrapping>>
decoder == <<buf, pending, done>>
finalizers == <<terminated, settled, audited>>

Events == {"progress", "done", "error"}
Terminations == {"Completed", "Failed", "Truncated", "Disconnected"}

\* The partial frame stays within MAX_FRAME_BYTES.  The source is "none" until
\* a stream is open.
TypeOK ==
    /\ source \in {"none", "agent", "json", "tool"}
    /\ wrapping \in BOOLEAN
    /\ clock \in 0 .. MaxDuration
    /\ waiting \in -1 .. IdleTimeout
    /\ buf \in 0 .. MaxFrame
    /\ pending \in Seq(Events)
    /\ done \in BOOLEAN
    /\ terminated \in BOOLEAN
    /\ settled \in Seq(Terminations)
    /\ audited \in Seq(Terminations)
    /\ got \in [last : {"none", "done", "error"}, late : BOOLEAN, ended : BOOLEAN]
    /\ dropped \in BOOLEAN

\* The state of a stack that was just built.
Init ==
    /\ clock = 0
    /\ waiting = -1
    /\ buf = 0
    /\ pending = <<>>
    /\ done = FALSE
    /\ terminated = FALSE
    /\ settled = <<>>
    /\ audited = <<>>
    /\ got = [last |-> "none", late |-> FALSE, ended |-> FALSE]
    /\ dropped = FALSE

(***************************************************************************)
(* The decoder's loop.  parse_frame drops comments and what is not UTF-8.  *)
(***************************************************************************)

Parsed(frames) ==
    LET upTo[i \in 0 .. Len(frames)] ==
            IF i = 0 THEN <<>>
            ELSE IF frames[i] = "comment" THEN upTo[i - 1] ELSE Append(upTo[i - 1], frames[i])
    IN  upTo[Len(frames)]

\* The consumer is in poll_next and the decoder's queue is empty.
Polled == ~dropped /\ ~got.ended /\ ~terminated /\ pending = <<>>
Reading == source = "agent" /\ Polled

\* Mutant: only the gaps between chunks are bounded.
StartReadNoDeadline ==
    /\ Reading /\ ~done /\ waiting = -1
    /\ waiting' = IdleTimeout
    /\ UNCHANGED <<clock, decoder, finalizers, got, dropped>>

StartRead ==
    /\ Reading /\ ~done /\ waiting = -1
    /\ clock < MaxDuration
    /\ waiting' = IF IdleTimeout < MaxDuration - clock THEN IdleTimeout ELSE MaxDuration - clock
    /\ UNCHANGED <<clock, decoder, finalizers, got, dropped>>

\* The decoder fails the stream: an error is queued and no more is read.
Fail ==
    /\ done' = TRUE
    /\ pending' = Append(pending, "error")
    /\ waiting' = -1

PastDeadline ==
    /\ Reading /\ ~done /\ waiting = -1
    /\ clock = MaxDuration
    /\ Fail
    /\ UNCHANGED <<clock, buf, finalizers, got, dropped>>

\* The read's timeout: the idle window or the deadline, whichever is sooner.
Elapsed ==
    /\ Reading /\ waiting = 0
    /\ Fail
    /\ UNCHANGED <<clock, buf, finalizers, got, dropped>>

\* drain_frames, then the cap on what remains.
Chunk(frames, rest) ==
    /\ Reading /\ waiting # -1
    /\ LET left == IF frames = <<>> THEN buf + rest ELSE rest IN
       \/ /\ left <= MaxFrame
          /\ buf' = left
          /\ pending' = Parsed(frames)
          /\ UNCHANGED done
       \/ /\ left > MaxFrame
          /\ buf' = 0
          /\ pending' = Append(Parsed(frames), "error")
          /\ done' = TRUE
    /\ waiting' = -1
    /\ UNCHANGED <<clock, finalizers, got, dropped>>

TransportError ==
    /\ Reading /\ waiting # -1
    /\ Fail
    /\ UNCHANGED <<clock, buf, finalizers, got, dropped>>

\* The agent closes: a trailing frame without a blank line is still parsed.
Eof ==
    /\ Reading /\ waiting # -1
    /\ pending' \in {<<>>} \cup (IF buf > 0 THEN {<<e>> : e \in Events} ELSE {})
    /\ buf' = 0
    /\ done' = TRUE
    /\ waiting' = -1
    /\ UNCHANGED <<clock, finalizers, got, dropped>>

(***************************************************************************)
(* The sources without a decoder.                                          *)
(***************************************************************************)

\* stream::once: the answer's done, then the end.
JsonAnswer ==
    /\ source = "json" /\ Polled /\ ~done
    /\ pending' = <<"done">>
    /\ done' = TRUE
    /\ UNCHANGED <<clock, waiting, buf, finalizers, got, dropped>>

\* A tool yields what it likes.
ToolYields ==
    /\ source = "tool" /\ Polled /\ ~done
    /\ \E e \in Events : pending' = <<e>>
    /\ UNCHANGED <<clock, waiting, buf, done, finalizers, got, dropped>>

ToolEnds ==
    /\ source = "tool" /\ Polled /\ ~done
    /\ done' = TRUE
    /\ UNCHANGED <<clock, waiting, buf, pending, finalizers, got, dropped>>

(***************************************************************************)
(* Finalized, twice, and the wrap between the two.                         *)
(***************************************************************************)

\* Finalized::fire: the finalizer is taken, so it runs once.
Fire(fired, term) == IF fired = <<>> THEN <<term>> ELSE fired

\* Only an event stream carries the breaker's finalizer.
Settle(term) == IF source = "agent" THEN Fire(settled, term) ELSE settled

TermOf(e) == IF e = "done" THEN "Completed" ELSE "Failed"

\* done_event_a2ui: a done whose payload is no surface becomes an error.
Wrapped(e) == IF wrapping /\ e = "done" THEN {"done", "error"} ELSE {e}

\* What the client has after the stack yields e.
Given(e) ==
    [got EXCEPT !.last = IF e = "progress" THEN @ ELSE e, !.late = got.last # "none"]

\* Mutant: the wrap is outside the audit finalizer.
YieldAuditedFirst ==
    /\ ~dropped /\ ~got.ended /\ ~terminated /\ pending # <<>>
    /\ pending' = Tail(pending)
    /\ \E e \in Wrapped(Head(pending)) :
       /\ got' = Given(e)
       /\ terminated' = (e # "progress")
       /\ settled' = IF e = "progress" THEN settled ELSE Settle(TermOf(Head(pending)))
       /\ audited' = IF e = "progress" THEN audited ELSE Fire(audited, TermOf(Head(pending)))
    /\ UNCHANGED <<clock, waiting, buf, done, dropped>>

Yield ==
    /\ ~dropped /\ ~got.ended /\ ~terminated /\ pending # <<>>
    /\ pending' = Tail(pending)
    /\ \E e \in Wrapped(Head(pending)) :
       /\ got' = Given(e)
       /\ terminated' = (e # "progress")
       /\ settled' = IF e = "progress" THEN settled ELSE Settle(TermOf(Head(pending)))
       /\ audited' = IF e = "progress" THEN audited ELSE Fire(audited, TermOf(e))
    /\ UNCHANGED <<clock, waiting, buf, done, dropped>>

\* The decoder ends without a terminal event: both finalizers see None.
Truncated ==
    /\ Polled /\ done
    /\ got' = [got EXCEPT !.ended = TRUE]
    /\ settled' = Settle("Truncated")
    /\ audited' = Fire(audited, "Truncated")
    /\ UNCHANGED <<clock, waiting, decoder, terminated, dropped>>

\* The poll after the terminal event.
End ==
    /\ ~dropped /\ terminated /\ ~got.ended
    /\ got' = [got EXCEPT !.ended = TRUE]
    /\ UNCHANGED <<clock, waiting, decoder, finalizers, dropped>>

\* Mutant: Drop runs the finalizer whether or not it ran before.
DropFiresAgain ==
    /\ ~dropped
    /\ dropped' = TRUE
    /\ settled' = Settle("Disconnected")
    /\ audited' = Append(audited, "Disconnected")
    /\ UNCHANGED <<clock, waiting, decoder, terminated, got>>

\* Drop for Finalized, the outer and then the inner one: the client went
\* away, the task's deadline passed, or the consumer has seen the end.
Drop ==
    /\ ~dropped
    /\ dropped' = TRUE
    /\ settled' = Settle("Disconnected")
    /\ audited' = Fire(audited, "Disconnected")
    /\ UNCHANGED <<clock, waiting, decoder, terminated, got>>

Tick ==
    /\ ~dropped /\ clock < MaxDuration
    /\ clock' = clock + 1
    /\ waiting' = IF waiting > 0 THEN waiting - 1 ELSE waiting
    /\ UNCHANGED <<decoder, finalizers, got, dropped>>

Poll == StartRead \/ PastDeadline \/ Elapsed \/ JsonAnswer \/ Yield \/ Truncated \/ End

\* What the agent, the tool, the consumer and the clock do besides.
Environment ==
    \/ \E frames \in Batches, rest \in 0 .. MaxGrowth : Chunk(frames, rest)
    \/ TransportError
    \/ Eof
    \/ ToolYields
    \/ ToolEnds
    \/ Drop
    \/ Tick
Next == UNCHANGED setup /\ (Poll \/ Environment)

(***************************************************************************)
(* Properties.                                                             *)
(***************************************************************************)

\* How the stream ended for the client.
ClientsStory ==
    CASE got.last = "done" -> "Completed"
      [] got.last = "error" -> "Failed"
      [] got.last = "none" /\ got.ended -> "Truncated"
      [] OTHER -> "Disconnected"

\* The breaker and the audit agree on the stream, except that a payload that
\* is no surface fails the caller and not the agent.
VerdictsAgree ==
    dropped /\ source = "agent" =>
        \/ settled = audited
        \/ wrapping /\ settled = <<"Completed">> /\ audited = <<"Failed">>

\* Nothing a source sends after its own terminal event reaches the client.
NothingAfterTerminal == ~got.late
=============================================================================
