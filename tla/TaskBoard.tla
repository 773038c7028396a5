----------------------------- MODULE TaskBoard -----------------------------
(***************************************************************************)
(* What the task subsystem promises, with no runner, hub, clock or crash   *)
(* in it: a turn is filed with its agent at most once, its record goes     *)
(* from working to exactly one outcome, it is completed only by the        *)
(* agent's own answer, and whoever is told an outcome is told that one.    *)
(***************************************************************************)
EXTENDS Naturals

CONSTANTS Tasks, Callers

VARIABLES
    status,   \* status[t]: none, working, completed or failed
    filings,  \* filings[t]: how often the agent was asked to do the work
    answer,   \* answer[t]: what the agent made of it
    told      \* told[c]: the outcome a caller was given

vars == <<status, filings, answer, told>>

Ended == {"completed", "failed"}

Init ==
    /\ status = [t \in Tasks |-> "none"]
    /\ filings = [t \in Tasks |-> 0]
    /\ answer = [t \in Tasks |-> "none"]
    /\ told = [c \in Callers |-> "-"]

File(t) ==
    /\ filings[t] = 0
    /\ filings' = [filings EXCEPT ![t] = 1]
    /\ UNCHANGED <<status, answer, told>>

Answer(t) ==
    /\ filings[t] = 1 /\ answer[t] = "none"
    /\ \E a \in {"done", "error"} : answer' = [answer EXCEPT ![t] = a]
    /\ UNCHANGED <<status, filings, told>>

Record(t) ==
    /\ status[t] = "none"
    /\ status' = [status EXCEPT ![t] = "working"]
    /\ UNCHANGED <<filings, answer, told>>

End(t) ==
    /\ status[t] = "working"
    /\ \/ answer[t] = "done" /\ status' = [status EXCEPT ![t] = "completed"]
       \/ status' = [status EXCEPT ![t] = "failed"]
    /\ UNCHANGED <<filings, answer, told>>

\* The callers in S learn the outcome of t at once.  A turn without a record
\* (a plain call) has no stored outcome to agree with.
Tell(t, S, outcome) ==
    /\ \A c \in S : told[c] = "-"
    /\ outcome \in Ended => status[t] \in {"none", outcome}
    /\ outcome = "completed" => answer[t] = "done"
    /\ told' = [c \in Callers |-> IF c \in S THEN outcome ELSE told[c]]
    /\ UNCHANGED <<status, filings, answer>>

Next ==
    \/ \E t \in Tasks : File(t) \/ Answer(t) \/ Record(t) \/ End(t)
    \/ \E t \in Tasks, S \in SUBSET Callers,
          outcome \in Ended \cup {"unknown", "refused"} : Tell(t, S, outcome)

Spec == Init /\ [][Next]_vars
=============================================================================
