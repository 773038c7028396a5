---------------------------- MODULE SignaldLink ----------------------------
(***************************************************************************)
(* The Signal adapter's link to signald: the connection loop, the bounded  *)
(* channel of events, the dispatch loop that consumes it, the shared write *)
(* half behind its mutex, and the drain when the process shuts down.       *)
(*                                                                         *)
(* signald (external) accepts connections, closes them at any time, and    *)
(* sends messages only to a connection that has subscribed.  It closes a   *)
(* connection whose client has closed its write half.  A JSON line is a    *)
(* message or one of the events the adapter ignores; lines that do not     *)
(* parse leave no trace.                                                   *)
(***************************************************************************)
EXTENDS Naturals, Sequences

CONSTANTS
    ChanCap,   \* capacity of the event channel (256)
    MaxConns   \* bound: connections in one behaviour

VARIABLES
    loop,       \* program point of spawn_connect_loop's task
    conn,       \* number of the connection it reads from
    open,       \* signald has not closed that connection
    slot,       \* the connection whose write half is in the Sender, or 0
    chan,       \* events sent and not received
    dispatch,   \* program point of the dispatch loop (spawn)
    job,        \* what it writes: "subscribe" or "reply"
    subscribed, \* the connection signald has a subscription on
    stop        \* the shutdown token is cancelled

sigVars == <<loop, conn, open, slot, chan, dispatch, job, subscribed, stop>>

SigInit ==
    /\ loop = "connect" /\ conn = 0 /\ open = FALSE /\ slot = 0 /\ chan = <<>>
    /\ dispatch = "recv" /\ job = "-" /\ subscribed = 0 /\ stop = FALSE

\* The dispatch loop holds the mutex for as long as its write takes.
WriterFree == dispatch # "writing"
Room == Len(chan) < ChanCap

SigStop == /\ ~stop /\ stop' = TRUE
           /\ UNCHANGED <<loop, conn, open, slot, chan, dispatch, job, subscribed>>

(***************************************************************************)
(* signald                                                                 *)
(***************************************************************************)
PeerCloses ==
    /\ open /\ open' = FALSE
    /\ UNCHANGED <<loop, conn, slot, chan, dispatch, job, subscribed, stop>>

\* The end of the client's stream is what signald reads next.
PeerSeesEnd ==
    /\ open /\ slot # conn /\ loop \in {"read", "forward"} /\ open' = FALSE
    /\ UNCHANGED <<loop, conn, slot, chan, dispatch, job, subscribed, stop>>

(***************************************************************************)
(* spawn_connect_loop.  Connecting, sleeping and reading watch the         *)
(* shutdown token; taking the mutex and sending into the channel do not.   *)
(***************************************************************************)
Connect ==
    /\ loop = "connect" /\ ~stop
    /\ \/ /\ conn < MaxConns /\ conn' = conn + 1 /\ open' = TRUE /\ loop' = "store"
       \/ /\ loop' = "sleep" /\ UNCHANGED <<conn, open>>
    /\ UNCHANGED <<slot, chan, dispatch, job, subscribed, stop>>

StoreWriter ==
    /\ loop = "store" /\ WriterFree /\ slot' = conn /\ loop' = "announce"
    /\ UNCHANGED <<conn, open, chan, dispatch, job, subscribed, stop>>

\* Connected goes into the channel before any line of the connection.
Announce ==
    /\ loop = "announce" /\ Room /\ chan' = Append(chan, "connected") /\ loop' = "read"
    /\ UNCHANGED <<conn, open, slot, dispatch, job, subscribed, stop>>

ReadLine ==
    /\ loop = "read" /\ open /\ loop' = "forward"
    /\ UNCHANGED <<conn, open, slot, chan, dispatch, job, subscribed, stop>>

Forward ==
    /\ loop = "forward" /\ Room /\ loop' = "read"
    /\ chan' \in {Append(chan, e) : e \in {"other"} \cup
                                          (IF subscribed = conn THEN {"message"} ELSE {})}
    /\ UNCHANGED <<conn, open, slot, dispatch, job, subscribed, stop>>

\* End of file, or a read error.
ReadEnds ==
    /\ loop = "read" /\ ~open /\ loop' = "clear"
    /\ UNCHANGED <<conn, open, slot, chan, dispatch, job, subscribed, stop>>

ClearWriter ==
    /\ loop = "clear" /\ WriterFree /\ slot' = 0 /\ loop' = "sleep"
    /\ UNCHANGED <<conn, open, chan, dispatch, job, subscribed, stop>>

Wake ==
    /\ loop = "sleep" /\ loop' = "connect"
    /\ UNCHANGED <<conn, open, slot, chan, dispatch, job, subscribed, stop>>

LoopStops ==
    /\ stop /\ loop \in {"connect", "sleep", "read"} /\ loop' = "final"
    /\ UNCHANGED <<conn, open, slot, chan, dispatch, job, subscribed, stop>>

\* The write half is shut down and both halves are dropped.
DropWriter ==
    /\ loop = "final" /\ WriterFree /\ slot' = 0 /\ open' = FALSE /\ loop' = "ended"
    /\ UNCHANGED <<conn, chan, dispatch, job, subscribed, stop>>

(***************************************************************************)
(* spawn: the dispatch loop                                                *)
(***************************************************************************)
Receive ==
    /\ dispatch = "recv" /\ chan # <<>> /\ chan' = Tail(chan)
    /\ \/ /\ Head(chan) = "connected" /\ dispatch' = "write" /\ job' = "subscribe"
       \/ /\ Head(chan) = "other" /\ UNCHANGED <<dispatch, job>>
       \/ /\ Head(chan) = "message" /\ job' = "reply"
          /\ dispatch' \in {"recv", "turn"}      \* refused, or a turn
    /\ UNCHANGED <<loop, conn, open, slot, subscribed, stop>>

\* The turn's tool answered with something to post, or did not.
TurnEnds ==
    /\ dispatch = "turn" /\ dispatch' \in {"recv", "write"}
    /\ UNCHANGED <<loop, conn, open, slot, chan, job, subscribed, stop>>

\* Sender::send: without a writer the post is Disconnected.
TakeWriter ==
    /\ dispatch = "write" /\ dispatch' = IF slot = 0 THEN "recv" ELSE "writing"
    /\ UNCHANGED <<loop, conn, open, slot, chan, job, subscribed, stop>>

\* The write ends; on a closed connection it fails, or reaches nobody.
WriteEnds ==
    /\ dispatch = "writing" /\ dispatch' = "recv"
    /\ subscribed' = IF job = "subscribe" /\ open THEN conn ELSE subscribed
    /\ UNCHANGED <<loop, conn, open, slot, chan, job, stop>>

\* Mutant: a write that times out leaves the writer in place.
WriteTimesOutInPlace ==
    /\ dispatch = "writing" /\ dispatch' = "recv"
    /\ UNCHANGED <<loop, conn, open, slot, chan, job, subscribed, stop>>

\* WRITE_TIMEOUT: the wedged writer is dropped, and with it the write half.
WriteTimesOut ==
    /\ dispatch = "writing" /\ dispatch' = "recv" /\ slot' = 0
    /\ UNCHANGED <<loop, conn, open, chan, job, subscribed, stop>>

\* The dispatch loop sees the token only between two events, then waits for
\* the connection task; the receiving end of the channel stays alive.
DispatchStops ==
    /\ dispatch = "recv" /\ stop /\ dispatch' = "join"
    /\ UNCHANGED <<loop, conn, open, slot, chan, job, subscribed, stop>>

Joined ==
    /\ dispatch = "join" /\ loop = "ended" /\ dispatch' = "ended"
    /\ UNCHANGED <<loop, conn, open, slot, chan, job, subscribed, stop>>

LoopNext == \/ Connect \/ StoreWriter \/ Announce \/ Forward \/ ReadEnds
            \/ ClearWriter \/ Wake \/ LoopStops \/ DropWriter
DispatchNext == Receive \/ TurnEnds \/ TakeWriter \/ WriteEnds \/ WriteTimesOut
SigNext == \/ SigStop \/ PeerCloses \/ PeerSeesEnd \/ ReadLine
           \/ LoopNext \/ DispatchNext \/ DispatchStops \/ Joined

(***************************************************************************)
(* Properties                                                              *)
(***************************************************************************)
\* A connection that is read is subscribed, whatever happened to the events
\* and writes of earlier ones, or it ends: a subscribe that times out does
\* not leave a connection that stays open and delivers nothing.
SignalResubscribes ==
    loop = "read" /\ open ~> subscribed = conn \/ ~open \/ stop

\* What spawn says of its handle: it resolves after shutdown is cancelled.
SignalDrains == stop ~> dispatch = "ended"
=============================================================================
