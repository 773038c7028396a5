--------------------------- MODULE DiscordGateway ---------------------------
(***************************************************************************)
(* The Discord gateway worker: one connection after another to a session   *)
(* that survives them, resumed from the last sequence number seen.         *)
(*                                                                         *)
(* Discord (external) numbers the events of a session: READY is event 1,   *)
(* the k-th message of the session is event k + 1.  It keeps a session     *)
(* across connections and replays what follows the number a RESUME names;  *)
(* an unknown session is answered with INVALID_SESSION.  A connection that *)
(* is mute stays open and carries nothing more.                            *)
(***************************************************************************)
EXTENDS Naturals, Sequences, FiniteSets

CONSTANTS
    MaxMessages,  \* bound: messages users send
    MaxTrouble    \* bound: connections Discord ends or mutes, sessions it drops

VARIABLES
    valid,     \* the session Discord keeps, or 0
    sessions,  \* sessions created so far
    events,    \* events[s]: the messages of session s, in order
    wire,      \* frames sent and not read
    sock,      \* the connection: "none", "open", "mute" or "closed"
    gw,        \* program point of the worker
    session,   \* the session it would resume, or 0
    last_seq,  \* 0 stands for -1
    awaiting,  \* awaiting_ack
    dead,      \* conn_dead is cancelled
    turnOf,    \* the message whose turn is under way, or 0
    handled,   \* history: <<session, message>> in the order of their turns
    sent,
    trouble

gwVars == <<valid, sessions, events, wire, sock, gw, session, last_seq, awaiting, dead,
            turnOf, handled, sent, trouble>>
discordVars == <<valid, sessions, events, sent>>
workerVars == <<gw, session, last_seq, awaiting, dead, turnOf, handled>>

SessionIds == 1..(MaxTrouble + 1)

GwInit ==
    /\ valid = 0 /\ sessions = 0 /\ events = [s \in SessionIds |-> <<>>] /\ wire = <<>>
    /\ sock = "none" /\ gw = "connect" /\ session = 0 /\ last_seq = 0
    /\ awaiting = FALSE /\ dead = FALSE /\ turnOf = 0 /\ handled = <<>>
    /\ sent = 0 /\ trouble = 0

Ready(s) == [op |-> "ready", s |-> 1, of |-> s, msg |-> 0]
MessageFrame(s, k) == [op |-> "message", s |-> k + 1, of |-> s, msg |-> events[s][k]]
Frame(op) == [op |-> op, s |-> 0, of |-> 0, msg |-> 0]
Carries == sock = "open" /\ gw \in {"read", "turn"}

(***************************************************************************)
(* Discord                                                                 *)
(***************************************************************************)
UserWrites ==
    /\ valid # 0 /\ sent < MaxMessages /\ sent' = sent + 1
    /\ LET k == Len(events[valid]) + 1
       IN /\ events' = [events EXCEPT ![valid] = Append(@, sent + 1)]
          /\ wire' = IF Carries
                     THEN Append(wire, [Ready(valid) EXCEPT !.op = "message", !.s = k + 1,
                                                           !.msg = sent + 1])
                     ELSE wire
    /\ UNCHANGED <<valid, sessions, sock, workerVars, trouble>>

Trouble == trouble < MaxTrouble /\ trouble' = trouble + 1

SockFails ==
    /\ Trouble /\ sock = "open" /\ sock' \in {"mute", "closed"}
    /\ wire' \in {wire, <<>>}
    /\ UNCHANGED <<discordVars, workerVars>>

\* RECONNECT asks for a resume; a close may name a code that forbids it.
DiscordEnds ==
    /\ Trouble /\ Carries
    /\ \/ wire' = Append(wire, Frame("reconnect")) /\ valid' = valid
       \/ wire' = Append(wire, Frame("close")) /\ valid' = valid
       \/ wire' = Append(wire, Frame("close fresh")) /\ valid' = 0
    /\ UNCHANGED <<sessions, events, sent, sock, workerVars>>

SessionExpires ==
    /\ Trouble /\ valid # 0 /\ sock # "open" /\ valid' = 0
    /\ UNCHANGED <<sessions, events, sent, wire, sock, workerVars>>

AsksHeartbeat ==
    /\ Trouble /\ Carries /\ wire' = Append(wire, Frame("heartbeat"))
    /\ UNCHANGED <<discordVars, sock, workerVars>>

(***************************************************************************)
(* run and run_connection                                                  *)
(***************************************************************************)
GwConnect ==
    /\ gw = "connect" /\ gw' = "hello" /\ sock' = "open" /\ wire' = <<>>
    /\ UNCHANGED <<discordVars, session, last_seq, awaiting, dead, turnOf, handled, trouble>>

\* No HELLO: the connection ended before it, and the session is kept.  On one
\* that stays open and silent the worker waits on: nothing bounds the connect
\* or read_hello but the shutdown token, and no heartbeat runs yet.
NoHello ==
    /\ gw = "hello" /\ sock = "closed" /\ gw' = "sleep"
    /\ UNCHANGED <<discordVars, wire, sock, session, last_seq, awaiting, dead, turnOf, handled, trouble>>

\* HELLO, then RESUME with the session and its last number, else IDENTIFY;
\* and what Discord answers.
Hello ==
    /\ gw = "hello" /\ sock = "open" /\ gw' = "read" /\ awaiting' = FALSE /\ dead' = FALSE
    /\ \/ /\ session # 0 /\ session = valid
          /\ wire' = [k \in 1..(Len(events[valid]) + 1 - last_seq) |-> MessageFrame(valid, last_seq + k - 1)]
          /\ UNCHANGED <<valid, sessions>>
       \/ /\ session # 0 /\ session # valid /\ wire' = <<Frame("invalid")>>
          /\ UNCHANGED <<valid, sessions>>
       \/ /\ session = 0 /\ sessions' = sessions + 1 /\ valid' = sessions + 1
          /\ wire' = <<Ready(sessions + 1)>>
    /\ UNCHANGED <<events, sent, sock, session, last_seq, turnOf, handled, trouble>>

\* A frame's number is stored before the frame is handled.
TakeSeq(f) == last_seq' = IF f.s # 0 THEN f.s ELSE last_seq

Leaves(f) == f.op \in {"reconnect", "close"}
Fresh(f) == f.op \in {"invalid", "close fresh"}

ReadFrame ==
    /\ gw = "read" /\ wire # <<>> /\ ~Fresh(Head(wire))
    /\ LET f == Head(wire)
       IN /\ wire' = IF f.op = "heartbeat" /\ sock = "open"
                     THEN Append(Tail(wire), Frame("ack")) ELSE Tail(wire)
          /\ TakeSeq(f)
          /\ session' = IF f.op = "ready" THEN f.of ELSE session
          /\ awaiting' = IF f.op = "ack" THEN FALSE ELSE awaiting \/ f.op = "heartbeat"
          /\ turnOf' = IF f.op = "message" THEN f.msg ELSE turnOf
          /\ gw' = IF f.op = "message" THEN "turn" ELSE IF Leaves(f) THEN "sleep" ELSE gw
    /\ UNCHANGED <<discordVars, sock, dead, handled, trouble>>

\* INVALID_SESSION and the close codes that cannot be resumed: ReIdentify.
ReIdentify ==
    /\ gw = "read" /\ wire # <<>> /\ Fresh(Head(wire)) /\ wire' = Tail(wire)
    /\ gw' = "sleep" /\ session' = 0 /\ last_seq' = 0
    /\ UNCHANGED <<discordVars, sock, awaiting, dead, turnOf, handled, trouble>>

\* handle_message_create runs inside the read loop: no frame, and no missed
\* heartbeat, is looked at before the turn ends.
GwTurnEnds ==
    /\ gw = "turn" /\ gw' = "read" /\ turnOf' = 0
    /\ handled' = Append(handled, <<session, turnOf>>)
    /\ UNCHANGED <<discordVars, wire, sock, session, last_seq, awaiting, dead, trouble>>

StreamFails ==
    /\ gw = "read" /\ sock = "closed" /\ wire = <<>> /\ gw' = "sleep"
    /\ UNCHANGED <<discordVars, wire, sock, session, last_seq, awaiting, dead, turnOf, handled, trouble>>

\* A beat comes after an interval: the frames that have arrived are read by
\* then, unless a turn holds the loop up.
BeatDue == gw = "turn" \/ (gw = "read" /\ (wire = <<>> \/ sock # "open"))

\* Mutant: a heartbeat that was not acknowledged is sent again.
HeartbeatAgain ==
    /\ BeatDue /\ ~dead /\ awaiting' = TRUE /\ dead' = dead
    /\ wire' = IF sock = "open" /\ ~awaiting THEN Append(wire, Frame("ack")) ELSE wire
    /\ UNCHANGED <<discordVars, sock, gw, session, last_seq, turnOf, handled, trouble>>

\* spawn_heartbeat: one that finds the last one unacknowledged declares the
\* connection dead, and so does one that cannot be sent.
Heartbeat ==
    /\ BeatDue /\ ~dead /\ awaiting' = TRUE
    /\ dead' = (awaiting \/ sock = "closed")
    /\ wire' = IF sock = "open" /\ ~awaiting THEN Append(wire, Frame("ack")) ELSE wire
    /\ UNCHANGED <<discordVars, sock, gw, session, last_seq, turnOf, handled, trouble>>

SeesDead ==
    /\ gw = "read" /\ dead /\ gw' = "sleep"
    /\ UNCHANGED <<discordVars, wire, sock, session, last_seq, awaiting, dead, turnOf, handled, trouble>>

\* The connection is dropped; back off, and connect again.
GwWake ==
    /\ gw = "sleep" /\ gw' = "connect" /\ sock' = "none" /\ wire' = <<>>
    /\ UNCHANGED <<discordVars, session, last_seq, awaiting, dead, turnOf, handled, trouble>>

\* The shutdown token is watched wherever the worker waits, and not in a turn.
GwStops ==
    /\ gw \in {"connect", "hello", "read", "sleep"} /\ gw' = "ended" /\ sock' = "none"
    /\ UNCHANGED <<discordVars, wire, session, last_seq, awaiting, dead, turnOf, handled, trouble>>

GwNext ==
    \/ UserWrites \/ SockFails \/ DiscordEnds \/ SessionExpires \/ AsksHeartbeat
    \/ GwConnect \/ NoHello \/ Hello \/ ReadFrame \/ ReIdentify \/ GwTurnEnds
    \/ StreamFails \/ Heartbeat \/ SeesDead \/ GwWake \/ GwStops

(***************************************************************************)
(* Properties                                                              *)
(***************************************************************************)
Of(s) == SelectSeq(handled, LAMBDA p : p[1] = s)

\* The messages of a session get their turns in order, each once and none
\* skipped, across reconnects, replays and turns longer than a heartbeat.
GatewayInOrder ==
    \A s \in SessionIds :
        LET h == Of(s)
        IN /\ Len(h) <= Len(events[s])
           /\ \A k \in 1..Len(h) : h[k] = <<s, events[s][k]>>

\* And a message of the session Discord keeps does get its turn, also when the
\* connection it would have come by fell silent without closing, unless that was
\* before its HELLO: such a connection is never replaced.
GatewayCatchesUp ==
    /\ []GatewayInOrder
    /\ \A n \in 1..MaxMessages :
         sent >= n /\ valid # 0 ~>
             \/ valid = 0 \/ gw = "ended" \/ (gw = "hello" /\ sock = "mute")
             \/ \E k \in 1..Len(handled) : handled[k][2] = n
             \/ n \notin {events[valid][k] : k \in 1..Len(events[valid])}
=============================================================================
