-------------------------- MODULE Breaker_proofs --------------------------
(***************************************************************************)
(* What the circuit breaker guarantees for any number of callers, any      *)
(* threshold and any cooldown.                                             *)
(***************************************************************************)
EXTENDS Breaker, TLAPS

\* Lemma: a call that ends is idle and the other calls are as they were.
LEMMA OverType ==
    ASSUME NEW c \in Clients, TypeOK, Over(c)
    PROVE  call' \in [Clients -> [at : Places, probe : BOOLEAN]]
BY DEF TypeOK, Over, Idle, Places

\* Lemma: every step keeps the types, and stamps the breaker when it opens.
LEMMA TypeStep == TypeOK /\ [Next]_vars => TypeOK'
<1> SUFFICES ASSUME TypeOK, [Next]_vars PROVE TypeOK'
  OBVIOUS
<1> USE BreakerConstants
<1>1. ASSUME NEW c \in Clients, Admit(c) PROVE TypeOK'
  <2>1. ASSUME NEW b \in BOOLEAN, Send(c, b)
        PROVE  call' \in [Clients -> [at : Places, probe : BOOLEAN]]
    BY <2>1 DEF TypeOK, Send, Places
  <2>2. CASE Pass(c)
    BY <1>1, <2>1, <2>2 DEF TypeOK, Admit, Pass, history
  <2>3. CASE Arm(c)
    BY <1>1, <2>1, <2>3 DEF TypeOK, Admit, Arm, Armed
  <2> QED
    BY <1>1, <2>2, <2>3 DEF Admit
<1>2. ASSUME NEW c \in Clients, Answered(c) \/ Completed(c) PROVE TypeOK'
  BY <1>2, OverType DEF TypeOK, Answered, Completed, Close, None, history
<1>3. ASSUME NEW c \in Clients, Failed(c) \/ StreamFailed(c) PROVE TypeOK'
  <2>1. call' \in [Clients -> [at : Places, probe : BOOLEAN]]
    BY <1>3, OverType DEF Failed, StreamFailed
  <2>2. Failure(c) /\ Fault /\ UNCHANGED history
    BY <1>3 DEF Failed, StreamFailed
  <2> QED
    BY <2>1, <2>2 DEF TypeOK, Failure, Fault, ProbeFailure, OrdinaryFailure, Reopen, None, history
<1>4. ASSUME NEW c \in Clients, OpenStream(c) PROVE TypeOK'
  BY <1>4 DEF TypeOK, OpenStream, Places, history
<1>5. ASSUME NEW c \in Clients, Disconnected(c) PROVE TypeOK'
  BY <1>5, OverType DEF TypeOK, Disconnected, ProbeFailure, Reopen, None, history
<1>6. ASSUME NEW c \in Clients, Refused(c) \/ Dropped(c) PROVE TypeOK'
  BY <1>6, OverType DEF TypeOK, Refused, Dropped, Unobserved
<1>7. CASE Tick
  BY <1>7 DEF TypeOK, Tick, None, history
<1>8. CASE UNCHANGED vars
  BY <1>8 DEF TypeOK, vars
<1> QED
  BY <1>1, <1>2, <1>3, <1>4, <1>5, <1>6, <1>7, <1>8 DEF Next

\* The breaker's variables keep their types, and a breaker that is not closed
\* is stamped, so check_and_arm's cooldown test can come true.
THEOREM BreakerTypeCorrect == Spec => []TypeOK
<1>1. Init => TypeOK
  <2> SUFFICES ASSUME Init PROVE TypeOK
    OBVIOUS
  <2>1. abandoned \in BOOLEAN /\ overtaken \in BOOLEAN
    BY Zenon DEF Init
  <2>2. call \in [Clients -> [at : Places, probe : BOOLEAN]]
    BY DEF Init, Idle, Places
  <2> QED
    BY <2>1, <2>2, BreakerConstants DEF Init, TypeOK, None
<1> QED
  BY <1>1, TypeStep, PTL DEF Spec

(***************************************************************************)
(* While the breaker is closed its count is the length of the run of       *)
(* faults.  It is not when the breaker is open: a probe that fails adds to *)
(* the run and not to the count.                                           *)
(***************************************************************************)
ClosedCounts == state = "Closed" => failures = streak /\ streak < OpenAfter

\* Lemma: every step keeps the count of a closed breaker below the threshold.
LEMMA ClosedStep == TypeOK /\ ClosedCounts /\ [Next]_vars => ClosedCounts'
<1> SUFFICES ASSUME TypeOK, ClosedCounts, [Next]_vars PROVE ClosedCounts'
  OBVIOUS
<1> USE BreakerConstants
<1>1. ASSUME NEW c \in Clients, Admit(c) PROVE ClosedCounts'
  BY <1>1 DEF ClosedCounts, Admit, Pass, Arm
<1>2. ASSUME NEW c \in Clients, Answered(c) \/ Completed(c) PROVE ClosedCounts'
  BY <1>2 DEF ClosedCounts, Answered, Completed, Close
<1>3. ASSUME NEW c \in Clients, Failed(c) \/ StreamFailed(c) PROVE ClosedCounts'
  <2>1. Failure(c) /\ Fault
    BY <1>3 DEF Failed, StreamFailed
  <2>2. CASE ProbeFailure
    BY <2>2 DEF ClosedCounts, ProbeFailure, Reopen
  <2>3. CASE OrdinaryFailure
    BY <2>1, <2>3 DEF TypeOK, ClosedCounts, OrdinaryFailure, Reopen, Fault
  <2> QED
    BY <2>1, <2>2, <2>3 DEF Failure
<1>4. ASSUME NEW c \in Clients, OpenStream(c) PROVE ClosedCounts'
  BY <1>4 DEF ClosedCounts, OpenStream
<1>5. ASSUME NEW c \in Clients, Disconnected(c) PROVE ClosedCounts'
  BY <1>5 DEF ClosedCounts, Disconnected, ProbeFailure, Reopen
<1>6. ASSUME NEW c \in Clients, Refused(c) \/ Dropped(c) PROVE ClosedCounts'
  BY <1>6 DEF ClosedCounts, Refused, Dropped, Unobserved
<1>7. CASE Tick
  BY <1>7 DEF ClosedCounts, Tick
<1>8. CASE UNCHANGED vars
  BY <1>8 DEF ClosedCounts, vars
<1> QED
  BY <1>1, <1>2, <1>3, <1>4, <1>5, <1>6, <1>7, <1>8 DEF Next

\* A run of circuit_open_after agent faults opens the breaker, however the
\* calls that saw them overlapped.
THEOREM BreakerTripsInTime == Spec => []TrippedInTime
<1>1. Init => ClosedCounts
  BY BreakerConstants DEF Init, ClosedCounts
<1>2. ClosedCounts => TrippedInTime
  BY DEF ClosedCounts, TrippedInTime
<1> QED
  BY <1>1, <1>2, ClosedStep, BreakerTypeCorrect, PTL DEF Spec

(***************************************************************************)
(* A half-open breaker and its probe.                                      *)
(***************************************************************************)

\* Lemma: the end of a call that is no probe takes no probe away.
LEMMA OrdinaryEnd ==
    ASSUME NEW c \in Clients, TypeOK, Over(c), ~call[c].probe
    PROVE  Probes' = Probes
<1>1. \A d \in Clients : d # c => call'[d] = call[d]
  BY DEF Over, TypeOK
<1>2. call'[c] = Idle
  BY DEF Over, TypeOK
<1> QED
  BY <1>1, <1>2 DEF Probes, InFlight, Idle

\* Lemma: a step that leaves a half-open breaker half-open either keeps a probe
\* or abandons one.
LEMMA ProbeStep == TypeOK /\ HalfOpenHasProbe /\ [Next]_vars => HalfOpenHasProbe'
<1> SUFFICES ASSUME TypeOK, HalfOpenHasProbe, [Next]_vars PROVE HalfOpenHasProbe'
  OBVIOUS
<1>1. ASSUME NEW c \in Clients, Admit(c) PROVE HalfOpenHasProbe'
  <2>1. CASE Pass(c)
    BY <2>1 DEF Pass, HalfOpenHasProbe
  <2>2. CASE Arm(c)
    <3>1. call'[c].at # "idle" /\ call'[c].probe = TRUE
      BY <2>2 DEF Arm, Send, TypeOK
    <3> QED
      BY <3>1 DEF HalfOpenHasProbe, Probes, InFlight
  <2> QED
    BY <1>1, <2>1, <2>2 DEF Admit
<1>2. ASSUME NEW c \in Clients, Answered(c) \/ Completed(c) PROVE HalfOpenHasProbe'
  BY <1>2 DEF Answered, Completed, Close, HalfOpenHasProbe
<1>3. ASSUME NEW c \in Clients, Failed(c) \/ StreamFailed(c) PROVE HalfOpenHasProbe'
  <2>1. Failure(c) /\ Over(c) /\ UNCHANGED history
    BY <1>3 DEF Failed, StreamFailed
  <2>2. CASE call[c].probe
    BY <2>1, <2>2 DEF Failure, ProbeFailure, Reopen, HalfOpenHasProbe
  <2>3. CASE ~call[c].probe
    <3>1. Probes' = Probes
      BY <2>1, <2>3, OrdinaryEnd
    <3>2. state' = state \/ state' = "Open"
      BY <2>1, <2>3 DEF Failure, OrdinaryFailure, Reopen
    <3> QED
      BY <2>1, <3>1, <3>2 DEF HalfOpenHasProbe, history
  <2> QED
    BY <2>2, <2>3
<1>4. ASSUME NEW c \in Clients, OpenStream(c) PROVE HalfOpenHasProbe'
  <2>1. \A d \in Clients : call'[d].probe = call[d].probe /\ (InFlight(d) => call'[d].at # "idle")
    BY <1>4 DEF OpenStream, TypeOK, InFlight
  <2> QED
    BY <1>4, <2>1 DEF OpenStream, HalfOpenHasProbe, Probes, InFlight, history
<1>5. ASSUME NEW c \in Clients, Disconnected(c) PROVE HalfOpenHasProbe'
  <2>1. CASE call[c].probe
    BY <1>5, <2>1 DEF Disconnected, ProbeFailure, Reopen, HalfOpenHasProbe
  <2>2. CASE ~call[c].probe
    <3>1. Probes' = Probes
      BY <1>5, <2>2, OrdinaryEnd DEF Disconnected
    <3> QED
      BY <1>5, <2>2, <3>1 DEF Disconnected, HalfOpenHasProbe, history
  <2> QED
    BY <2>1, <2>2
<1>6. ASSUME NEW c \in Clients, Refused(c) \/ Dropped(c) PROVE HalfOpenHasProbe'
  <2>1. Unobserved(c)
    BY <1>6 DEF Refused, Dropped
  <2>2. CASE call[c].probe
    BY <2>1, <2>2 DEF Unobserved, HalfOpenHasProbe
  <2>3. CASE ~call[c].probe
    <3>1. Probes' = Probes
      BY <2>1, <2>3, OrdinaryEnd DEF Unobserved
    <3>2. abandoned' = abandoned
      BY <2>1, <2>3 DEF Unobserved, TypeOK
    <3> QED
      BY <2>1, <3>1, <3>2 DEF Unobserved, HalfOpenHasProbe
  <2> QED
    BY <2>2, <2>3
<1>7. CASE Tick
  BY <1>7 DEF Tick, HalfOpenHasProbe, Probes, InFlight, history
<1>8. CASE UNCHANGED vars
  BY <1>8 DEF vars, HalfOpenHasProbe, Probes, InFlight
<1> QED
  BY <1>1, <1>2, <1>3, <1>4, <1>5, <1>6, <1>7, <1>8 DEF Next

\* A half-open breaker has a probe in flight unless a probe was abandoned
\* before the agent's answer, even when late results reopen the breaker and
\* several probes overlap.
THEOREM HalfOpenIsProbed == Spec => []HalfOpenHasProbe
<1>1. Init => HalfOpenHasProbe
  BY DEF Init, HalfOpenHasProbe
<1> QED
  BY <1>1, ProbeStep, BreakerTypeCorrect, PTL DEF Spec

(***************************************************************************)
(* What may open the breaker, and what may end its half-open phase.        *)
(***************************************************************************)

\* Unless a call of before met a probe, the probe is the only call in flight
\* while the breaker is half-open, and there is none when it is not.
ProbeIsAlone ==
    ~overtaken =>
        /\ state # "HalfOpen" => Probes = {}
        /\ state = "HalfOpen" => /\ \A d \in Clients : InFlight(d) => call[d].probe
                                 /\ \A c, d \in Probes : c = d

\* Lemma: the end of a call leaves the others in flight as they were.
LEMMA CallEnds ==
    ASSUME NEW c \in Clients, TypeOK, Over(c)
    PROVE  /\ Probes' = Probes \ {c} /\ call'[c].at = "idle"
           /\ \A d \in Clients : d # c => call'[d] = call[d]
<1>1. \A d \in Clients : d # c => call'[d] = call[d]
  BY DEF Over, TypeOK
<1>2. call'[c] = Idle
  BY DEF Over, TypeOK
<1> QED
  BY <1>1, <1>2 DEF Probes, InFlight, Idle

\* Lemma: a call that ends keeps a probe alone, whether it settles the breaker
\* or not.
LEMMA EndKeepsAlone ==
    ASSUME NEW c \in Clients, TypeOK, ProbeIsAlone, Over(c), overtaken' = overtaken,
           InFlight(c), state' \in {state, "Open", "Closed"}
    PROVE  ProbeIsAlone'
<1> SUFFICES ASSUME ~overtaken PROVE ProbeIsAlone'
  BY DEF ProbeIsAlone
<1>1. /\ Probes' = Probes \ {c} /\ call'[c].at = "idle"
      /\ \A d \in Clients : d # c => call'[d] = call[d]
  BY CallEnds
<1>2. CASE state = "HalfOpen"
  <2>1. c \in Probes /\ \A d \in Probes : d = c
    BY <1>2 DEF ProbeIsAlone, Probes
  <2>2. Probes' = {}
    BY <1>1, <2>1
  <2>3. \A d \in Clients : (InFlight(d) => call[d].probe)'
    BY <1>1, <1>2 DEF ProbeIsAlone, InFlight
  <2> QED
    BY <2>2, <2>3 DEF ProbeIsAlone
<1>3. CASE state # "HalfOpen"
  <2>1. Probes' = {} /\ state' # "HalfOpen"
    BY <1>1, <1>3 DEF ProbeIsAlone
  <2> QED
    BY <2>1 DEF ProbeIsAlone
<1> QED
  BY <1>2, <1>3

\* Lemma: what a call that ends does to the breaker.
LEMMA EndOfCall ==
    ASSUME NEW c \in Clients,
           \/ Answered(c) \/ Completed(c) \/ Failed(c) \/ StreamFailed(c)
           \/ Disconnected(c) \/ Refused(c) \/ Dropped(c)
    PROVE  Over(c) /\ InFlight(c) /\ overtaken' = overtaken /\ state' \in {state, "Open", "Closed"}
<1>1. CASE Answered(c) \/ Completed(c)
  BY <1>1 DEF Answered, Completed, Close, InFlight, history
<1>2. CASE Failed(c) \/ StreamFailed(c)
  BY <1>2 DEF Failed, StreamFailed, Failure, ProbeFailure, OrdinaryFailure, Reopen, InFlight, history
<1>3. CASE Disconnected(c)
  BY <1>3 DEF Disconnected, ProbeFailure, Reopen, InFlight, history
<1>4. CASE Refused(c) \/ Dropped(c)
  BY <1>4 DEF Refused, Dropped, Unobserved, InFlight
<1> QED
  BY <1>1, <1>2, <1>3, <1>4

\* Lemma: every step keeps a probe alone that no call of before meets.
LEMMA AloneStep == TypeOK /\ ProbeIsAlone /\ [Next]_vars => ProbeIsAlone'
<1> SUFFICES ASSUME TypeOK, ProbeIsAlone, [Next]_vars PROVE ProbeIsAlone'
  OBVIOUS
<1>1. ASSUME NEW c \in Clients, Admit(c) PROVE ProbeIsAlone'
  <2>1. CASE Pass(c)
    <3>1. call'[c].probe = FALSE /\ \A d \in Clients : d # c => call'[d] = call[d]
      BY <2>1 DEF Pass, Send, TypeOK
    <3>2. Probes' \subseteq Probes
      BY <3>1 DEF Probes, InFlight
    <3> QED
      BY <2>1, <3>2 DEF Pass, ProbeIsAlone, history
  <2>2. CASE Arm(c)
    <3> SUFFICES ASSUME ~overtaken' PROVE ProbeIsAlone'
      BY DEF ProbeIsAlone
    <3>1. call'[c].probe = TRUE /\ \A d \in Clients : d # c => call'[d] = call[d]
      BY <2>2 DEF Arm, Send, TypeOK
    <3>2. (~overtaken \/ Probes = {}) /\ \A d \in Clients : InFlight(d) => call[d].probe
      BY <2>2 DEF Arm, Armed
    <3>3. Probes = {}
      BY <2>2, <3>2 DEF Arm, ProbeIsAlone
    <3>4. \A d \in Clients : ~InFlight(d)
      BY <3>2, <3>3 DEF Probes
    <3>5. Probes' \subseteq {c}
      BY <3>1, <3>4 DEF Probes, InFlight
    <3>6. \A d \in Clients : (InFlight(d) => call[d].probe)'
      BY <3>1, <3>4 DEF InFlight
    <3> QED
      BY <2>2, <3>5, <3>6 DEF Arm, ProbeIsAlone
  <2> QED
    BY <1>1, <2>1, <2>2 DEF Admit
<1>2. ASSUME NEW c \in Clients,
             \/ Answered(c) \/ Completed(c) \/ Failed(c) \/ StreamFailed(c)
             \/ Disconnected(c) \/ Refused(c) \/ Dropped(c)
      PROVE  ProbeIsAlone'
  BY <1>2, EndOfCall, EndKeepsAlone
<1>3. ASSUME NEW c \in Clients, OpenStream(c) PROVE ProbeIsAlone'
  <2>1. \A d \in Clients : call'[d].probe = call[d].probe /\ (InFlight(d) <=> call'[d].at # "idle")
    BY <1>3 DEF OpenStream, TypeOK, InFlight
  <2>2. Probes' = Probes
    BY <2>1 DEF Probes, InFlight
  <2> QED
    BY <1>3, <2>1, <2>2 DEF OpenStream, ProbeIsAlone, InFlight, history
<1>4. CASE Tick
  BY <1>4 DEF Tick, ProbeIsAlone, Probes, InFlight, history
<1>5. CASE UNCHANGED vars
  BY <1>5 DEF vars, ProbeIsAlone, Probes, InFlight
<1> QED
  BY <1>1, <1>2, <1>3, <1>4, <1>5 DEF Next

\* Lemma: a closed breaker that opens with the same probes in flight has met
\* its threshold.
LEMMA OpeningStep ==
    ASSUME TypeOK, ClosedCounts, [Next]_vars, state = "Closed", state' = "Open", Probes' = Probes
    PROVE  streak' = OpenAfter
<1> USE BreakerConstants
<1>1. PICK c \in Clients : Failed(c) \/ StreamFailed(c) \/ Disconnected(c)
  BY DEF Next, Admit, Pass, Arm, Answered, Completed, Close, OpenStream, Refused, Dropped, Unobserved,
         Tick, vars
<1>2. Over(c) /\ InFlight(c)
  BY <1>1, EndOfCall
<1>3. ~call[c].probe
  <2>1. Probes' = Probes \ {c}
    BY <1>2, CallEnds
  <2> QED
    BY <1>2, <2>1 DEF Probes
<1>4. CASE Failed(c) \/ StreamFailed(c)
  <2>1. OrdinaryFailure /\ Fault
    BY <1>3, <1>4 DEF Failed, StreamFailed, Failure
  <2> QED
    BY <2>1 DEF TypeOK, ClosedCounts, OrdinaryFailure, Reopen, Fault
<1>5. CASE Disconnected(c)
  BY <1>3, <1>5 DEF Disconnected
<1> QED
  BY <1>1, <1>4, <1>5

\* Lemma: half-open ends with its one probe, if no call of before meets it.
LEMMA SettlingStep ==
    ASSUME TypeOK, ProbeIsAlone, [Next]_vars, state = "HalfOpen", state' # "HalfOpen", ~overtaken
    PROVE  Probes # {} /\ Probes' = {}
<1>1. PICK c \in Clients : \/ Answered(c) \/ Completed(c) \/ Failed(c) \/ StreamFailed(c)
                           \/ Disconnected(c) \/ Refused(c) \/ Dropped(c)
  BY DEF Next, Admit, Pass, Arm, OpenStream, Tick, vars
<1>2. Over(c) /\ InFlight(c)
  BY <1>1, EndOfCall
<1>3. c \in Probes /\ \A d \in Probes : d = c
  BY <1>2 DEF ProbeIsAlone, Probes
<1> QED
  BY <1>2, <1>3, CallEnds

\* An ordinary call opens a closed breaker only as the last of
\* circuit_open_after agent faults without a success, and half-open ends with
\* its one probe unless a call of before meets it: for any number of
\* overlapping calls (check_and_arm, observe).
THEOREM BreakerMovesExplained == Spec => MovesExplained
<1>1. Init => ClosedCounts /\ ProbeIsAlone
  BY BreakerConstants DEF Init, ClosedCounts, ProbeIsAlone, Probes, InFlight, Idle
<1>2. TypeOK /\ ClosedCounts /\ [Next]_vars =>
          [state = "Closed" /\ state' = "Open" /\ Probes' = Probes => streak' = OpenAfter]_vars
  BY OpeningStep
<1>3. TypeOK /\ ProbeIsAlone /\ [Next]_vars =>
          [state = "HalfOpen" /\ state' # "HalfOpen" /\ ~overtaken => Probes # {} /\ Probes' = {}]_vars
  BY SettlingStep
<1> QED
  BY <1>1, <1>2, <1>3, ClosedStep, AloneStep, BreakerTypeCorrect, PTL
  DEF Spec, MovesExplained, TripsOnAgentFaults, ProbeDecides
=============================================================================
