------------------------------ MODULE Delivery ------------------------------
(***************************************************************************)
(* What lives longer than a request, side by side: the Teams and Google    *)
(* Chat couriers, the signald link, the Discord gateway worker, the        *)
(* Telegram forms, the A2A streams that follow a task, and the process     *)
(* that starts and drains them.  They share no state, so a behaviour       *)
(* follows one of them (`adapter`), chosen in Init, and its environment.   *)
(***************************************************************************)
EXTENDS TeamsCourier, GoogleCourier, SignaldLink, DiscordGateway, TelegramForms, Process, A2aStreams

CONSTANT Adapters  \* the adapters of the run

VARIABLE adapter

vars == <<adapter, teamsVars, gcVars, sigVars, gwVars, formVars, procVars, a2aVars>>

Init == /\ adapter \in Adapters
        /\ GcInit /\ SigInit /\ GwInit
        /\ TeamsInit /\ (adapter = "teams" \/ turn = [personal |-> TRUE, inPlace |-> FALSE, tasks |-> TRUE])
        /\ FormsInit /\ (adapter = "telegram" \/ \A u \in Users : home[u] = CHOOSE t \in FormTenants : TRUE)
        /\ ProcInit /\ (adapter = "process" \/ <<dep, fault>> = <<CHOOSE c \in Deployments : TRUE, "none">>)
        /\ A2aInit /\ (adapter = "a2a" \/ ~async)

TeamsStep == /\ adapter = "teams" /\ TeamsNext
             /\ UNCHANGED <<adapter, gcVars, sigVars, gwVars, formVars, procVars, a2aVars>>
GoogleStep == /\ adapter = "googlechat" /\ GcNext
              /\ UNCHANGED <<adapter, teamsVars, sigVars, gwVars, formVars, procVars, a2aVars>>
SignalStep == /\ adapter = "signal" /\ SigNext
              /\ UNCHANGED <<adapter, teamsVars, gcVars, gwVars, formVars, procVars, a2aVars>>
DiscordStep == /\ adapter = "discord" /\ GwNext
               /\ UNCHANGED <<adapter, teamsVars, gcVars, sigVars, formVars, procVars, a2aVars>>
TelegramStep == /\ adapter = "telegram" /\ FormsNext
                /\ UNCHANGED <<adapter, teamsVars, gcVars, sigVars, gwVars, procVars, a2aVars>>
ProcessStep == /\ adapter = "process" /\ ProcNext
               /\ UNCHANGED <<adapter, teamsVars, gcVars, sigVars, gwVars, formVars, a2aVars>>
A2aStep == /\ adapter = "a2a" /\ A2aNext
           /\ UNCHANGED <<adapter, teamsVars, gcVars, sigVars, gwVars, formVars, procVars>>

Next == TeamsStep \/ GoogleStep \/ SignalStep \/ DiscordStep \/ TelegramStep
        \/ ProcessStep \/ A2aStep

(***************************************************************************)
(* Fairness.  tokio polls a task that can go on.                           *)
(***************************************************************************)
\* A task ends (LiveTaskEnds of TaskRunner); Teams applies the response of an
\* invoke, and an update that does not fail.
TeamsFairness ==
    /\ WF_teamsVars(adapter = "teams" /\ CourierNext)
    /\ WF_teamsVars(adapter = "teams" /\ ((\E o \in Endings : RunnerEnd(o)) \/ RunnerBreaks))
    /\ WF_teamsVars(adapter = "teams" /\ InvokeApplied) /\ WF_teamsVars(adapter = "teams" /\ UpdateApplied)

\* signald closes a connection whose client has stopped writing.  A loop that
\* waits for an event or the token takes the token when it comes, as tokio's
\* select picks among its ready branches at random.
SignalFairness ==
    /\ WF_sigVars(adapter = "signal" /\ LoopNext) /\ WF_sigVars(adapter = "signal" /\ DispatchNext)
    /\ WF_sigVars(adapter = "signal" /\ Joined) /\ WF_sigVars(adapter = "signal" /\ PeerSeesEnd)
    /\ SF_sigVars(adapter = "signal" /\ DispatchStops)
    /\ SF_sigVars(adapter = "signal" /\ LoopStops)

\* A beat follows the last one after an interval.
DiscordFairness ==
    /\ WF_gwVars(adapter = "discord" /\ (GwConnect \/ NoHello \/ Hello \/ GwWake \/ StreamFails \/ SeesDead))
    /\ WF_gwVars(adapter = "discord" /\ GwTurnEnds) /\ WF_gwVars(adapter = "discord" /\ Heartbeat)
    /\ WF_gwVars(adapter = "discord" /\ (ReadFrame \/ ReIdentify))

\* The main task goes on, and the drain deadline passes; no request and no
\* adapter has to end.
ProcessFairness ==
    /\ WF_procVars(adapter = "process" /\ MainStep) /\ WF_procVars(adapter = "process" /\ Deadline)

Spec == /\ Init /\ [][Next]_vars
        /\ TeamsFairness /\ SignalFairness /\ DiscordFairness /\ ProcessFairness

\* Every Teams courier, live or resumed, shows the user an ending, unless its last
\* post failed, its runner broke off, or it died before the turn was stored; and
\* the ending stays shown (AnswerStays).
AnswerArrives ==
    /\ AnswerStays
    /\ adapter = "teams" /\ w.pc \in {"open", "revalidate"} ~>
         \/ shown # {} \/ rec.delivered \/ w.pc = "lost" \/ broken
         \/ w.pc = "gone" /\ rec.state = "none"

\* A process that was signalled ends, at whatever point of the boot it was told,
\* and with a request or an adapter that never finishes (FR-L-2); and it cuts
\* nothing off before the deadline (CleanExit).
SignalEndsProcess ==
    /\ []CleanExit
    /\ adapter = "process" /\ signalled ~> phase = "exited"
=============================================================================
