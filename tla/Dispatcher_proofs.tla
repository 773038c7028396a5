-------------------------- MODULE Dispatcher_proofs --------------------------
(***************************************************************************)
(* What the dispatcher and the stream stack guarantee of every call, for   *)
(* any frames an agent sends, any limits and any consumer.                 *)
(***************************************************************************)
EXTENDS Dispatcher, SequenceTheorems, WellFoundedInduction, TLAPS

(***************************************************************************)
(* The invariants.                                                         *)
(***************************************************************************)

\* The types the arguments below need.
StreamTypes ==
    /\ shape \in AllShapes
    /\ at \in {"called", "running", "streaming", "over", "vanished"}
    /\ wrapping \in BOOLEAN
    /\ pending \in Seq(Relay!Events)
    /\ terminated \in BOOLEAN /\ dropped \in BOOLEAN
    /\ got \in [last : {"none", "done", "error"}, late : BOOLEAN, ended : BOOLEAN]

\* How the open stream ended, as far as it has.
EndOf ==
    IF terminated THEN <<Relay!TermOf(got.last)>>
    ELSE IF got.ended THEN <<"Truncated">>
    ELSE IF dropped THEN <<"Disconnected">>
    ELSE <<>>

\* The audit's finalizer was fired with how the stream ended, the breaker's
\* with the same unless the wrap came between, and nothing came after.
StreamInv ==
    /\ ~got.late
    /\ terminated <=> got.last # "none"
    /\ audited = EndOf
    /\ source # "agent" => settled = <<>>
    /\ source = "agent" => \/ settled = audited
                           \/ wrapping /\ settled = <<"Completed">> /\ audited = <<"Failed">>

\* A call that is not over has written no line itself, one that does not
\* stream has no stream to write one, and its line tells its outcome.
CallInv ==
    /\ at # "streaming" => ~terminated /\ ~got.ended /\ ~dropped
    /\ at # "over" => lines = <<>>
    /\ at = "over" =>
          \/ lines = <<"error">> /\ answer = "error"
          \/ lines = <<"ok">> /\ (answer = "ok" \/ LateWrap) /\ ~Refusable
          \/ lines = <<>> /\ shape.entry = "resume" /\ ~shape.upstream /\ ~Refusable
    /\ Refusable => ~ran /\ at \in {"called", "over"}

(***************************************************************************)
(* Frames.                                                                 *)
(***************************************************************************)

\* Lemma: some natural is a least one.
LEMMA LeastNatural ==
    ASSUME NEW B \in SUBSET Nat, B # {}
    PROVE  \E m \in B : \A y \in B : m <= y
<1> DEFINE R == {ss \in Nat \X Nat : ss[1] < ss[2]}
<1>1. IsWellFoundedOn(R, Nat)
  BY NatLessThanWellFounded DEF OpToRel
<1> HIDE DEF R
<1>2. PICK m \in B : \A y \in B : ~(<<y, m>> \in R)
  BY <1>1, WFMin
<1>3. ASSUME NEW y \in B, y < m PROVE FALSE
  <2>1. <<y, m>> \in Nat \X Nat /\ <<y, m>>[1] < <<y, m>>[2]
    BY <1>3
  <2>2. <<y, m>> \in R
    BY <2>1 DEF R
  <2> QED BY <1>2, <2>2
<1> QED BY <1>3

\* The events of the first 0, 1 ... n frames, as a table.
Table(f, frames, n) ==
    f = [i \in 0 .. n |-> IF i = 0 THEN <<>>
                          ELSE IF frames[i] = "comment" THEN f[i - 1]
                          ELSE Append(f[i - 1], frames[i])]

\* Lemma: there is such a table.
LEMMA TableExists ==
    ASSUME NEW frames, NEW n \in Nat
    PROVE  \E f : Table(f, frames, n)
<1> DEFINE B == {m \in Nat : ~\E f : Table(f, frames, m)}
<1> SUFFICES ASSUME B # {} PROVE FALSE
  OBVIOUS
<1>1. PICK m \in B : \A y \in B : m <= y
  BY LeastNatural
<1>2. m \in Nat /\ ~\E f : Table(f, frames, m)
  OBVIOUS
<1>3. CASE m = 0
  <2>1. Table([i \in 0 .. 0 |-> <<>>], frames, 0)
    BY DEF Table
  <2> QED BY <1>2, <1>3, <2>1
<1>4. CASE m # 0
  <2>1. m - 1 \in Nat /\ m - 1 \notin B
    BY <1>1, <1>2, <1>4
  <2>2. PICK f : Table(f, frames, m - 1)
    BY <2>1
  <2> DEFINE g == [i \in 0 .. m |-> IF i = 0 THEN <<>>
                          ELSE IF frames[i] = "comment" THEN f[i - 1]
                          ELSE Append(f[i - 1], frames[i])]
  <2>3. ASSUME NEW i \in 0 .. m - 1 PROVE g[i] = f[i]
    <3>1. i \in 0 .. m
      BY <1>2
    <3>2. f[i] = IF i = 0 THEN <<>> ELSE IF frames[i] = "comment" THEN f[i - 1]
                 ELSE Append(f[i - 1], frames[i])
      BY <2>2 DEF Table
    <3> QED BY <3>1, <3>2
  <2>4. ASSUME NEW i \in 0 .. m, i # 0 PROVE g[i - 1] = f[i - 1]
    <3>1. i - 1 \in 0 .. m - 1
      BY <1>2, <2>4
    <3> HIDE DEF g
    <3> QED BY <2>3, <3>1
  <2>5. Table(g, frames, m)
    BY <2>4 DEF Table
  <2> QED BY <1>2, <2>5
<1> QED BY <1>3, <1>4

\* Lemma: the table holds events only.
LEMMA TableOfEvents ==
    ASSUME NEW n \in Nat, NEW frames, NEW f, Table(f, frames, n), 
           \A i \in 1 .. n : frames[i] \in Relay!Events \cup {"comment"}
    PROVE  \A i \in 0 .. n : f[i] \in Seq(Relay!Events)
<1> DEFINE B == {i \in 0 .. n : f[i] \notin Seq(Relay!Events)}
<1> SUFFICES ASSUME B # {} PROVE FALSE
  OBVIOUS
<1>1. PICK m \in B : \A y \in B : m <= y
  <2>1. B \in SUBSET Nat
    OBVIOUS
  <2> HIDE DEF B
  <2> QED BY <2>1, LeastNatural
<1>2. m \in 0 .. n /\ f[m] \notin Seq(Relay!Events)
  OBVIOUS
<1>3. f[m] = IF m = 0 THEN <<>> ELSE IF frames[m] = "comment" THEN f[m - 1]
                          ELSE Append(f[m - 1], frames[m])
  BY <1>2 DEF Table
<1>4. m # 0
  BY <1>2, <1>3
<1>5. m - 1 \in 0 .. n /\ m - 1 \notin B
  BY <1>1, <1>2, <1>4
<1>6. f[m - 1] \in Seq(Relay!Events)
  BY <1>5
<1> QED BY <1>2, <1>3, <1>4, <1>6

\* Lemma: what drain_frames queues are events, whatever the chunk held.
LEMMA ParsedEvents ==
    ASSUME NEW frames \in Seq(Relay!Events \cup {"comment"})
    PROVE  Relay!Parsed(frames) \in Seq(Relay!Events)
<1> DEFINE n == Len(frames)
           t == CHOOSE f : Table(f, frames, n)
<1>1. n \in Nat /\ \A i \in 1 .. n : frames[i] \in Relay!Events \cup {"comment"}
  OBVIOUS
<1>2. Table(t, frames, n)
  BY <1>1, TableExists
<1>3. Relay!Parsed(frames) = t[n]
  BY DEF Relay!Parsed, Table
<1> HIDE DEF t
<1> QED BY <1>1, <1>2, <1>3, TableOfEvents

(***************************************************************************)
(* The open stream.                                                        *)
(***************************************************************************)

\* Lemma: what the decoder, the sources and the clock do changes nothing that
\* the client or a finalizer has seen, and queues events only.
LEMMA QueueStep ==
    ASSUME StreamTypes, StreamInv, UNCHANGED <<shape, at, source, wrapping>>,
           UNCHANGED <<terminated, settled, audited, got, dropped>>,
           pending' \in Seq(Relay!Events)
    PROVE  StreamTypes' /\ StreamInv'
  BY DEF StreamTypes, StreamInv, EndOf

\* Lemma: an event, the end or the drop of the stream fires each finalizer
\* once, with what the client has of it.
LEMMA RelayStep ==
    ASSUME StreamTypes, StreamInv, Relay!Next, UNCHANGED call
    PROVE  StreamTypes' /\ StreamInv'
<1>0. UNCHANGED <<shape, at, source, wrapping>>
  BY DEF call, Relay!Next, Relay!setup
<1>1. ASSUME Relay!Yield PROVE StreamTypes' /\ StreamInv'
  <2>1. /\ ~dropped /\ ~got.ended /\ ~terminated /\ pending # <<>>
        /\ pending' = Tail(pending) /\ dropped' = dropped
    BY <1>1 DEF Relay!Yield
  <2>2. Head(pending) \in Relay!Events /\ pending' \in Seq(Relay!Events)
    BY <2>1, HeadTailProperties DEF StreamTypes
  <2>3. got.last = "none" /\ ~got.late /\ audited = <<>> /\ settled = <<>>
    BY <2>1 DEF StreamInv, EndOf
  <2>4. PICK e \in Relay!Wrapped(Head(pending)) :
           /\ got' = Relay!Given(e)
           /\ terminated' = (e # "progress")
           /\ settled' = IF e = "progress" THEN settled
                         ELSE Relay!Settle(Relay!TermOf(Head(pending)))
           /\ audited' = IF e = "progress" THEN audited
                         ELSE Relay!Fire(audited, Relay!TermOf(e))
    BY <1>1 DEF Relay!Yield
  <2>5. /\ e \in Relay!Events
        /\ e = Head(pending) \/ (wrapping /\ e = "error" /\ Head(pending) = "done")
    BY <2>2 DEF Relay!Wrapped, Relay!Events
  <2>6. got' = [last |-> IF e = "progress" THEN "none" ELSE e, late |-> FALSE, ended |-> FALSE]
    BY <2>1, <2>3, <2>4 DEF Relay!Given, StreamTypes
  <2>7. CASE e = "progress"
    BY <1>0, <2>1, <2>2, <2>3, <2>4, <2>6, <2>7 DEF StreamTypes, StreamInv, EndOf
  <2>8. CASE e # "progress"
    <3>1. /\ audited' = <<Relay!TermOf(e)>>
          /\ settled' = IF source = "agent" THEN <<Relay!TermOf(Head(pending))>> ELSE <<>>
      BY <2>3, <2>4, <2>8 DEF Relay!Fire, Relay!Settle
    <3>2. e \in {"done", "error"} /\ terminated' = TRUE /\ got'.last = e /\ ~got'.late
      <4>1. e \in {"done", "error"}
        BY <2>5, <2>8 DEF Relay!Events
      <4>2. terminated' = TRUE
        BY <2>4, <2>8
      <4>3. got'.last = e /\ ~got'.late
        BY <2>6, <2>8
      <4> QED BY <4>1, <4>2, <4>3
    <3>3. StreamTypes'
      BY <1>0, <2>1, <2>2, <2>4, <2>6, <3>2 DEF StreamTypes
    <3>4. audited' = EndOf'
      BY <3>1, <3>2 DEF EndOf, Relay!TermOf
    <3>5. source = "agent" =>
             \/ settled' = audited'
             \/ wrapping /\ settled' = <<"Completed">> /\ audited' = <<"Failed">>
      BY <2>5, <3>1, <3>2 DEF Relay!TermOf
    <3> QED BY <1>0, <3>1, <3>2, <3>3, <3>4, <3>5 DEF StreamInv
  <2> QED BY <2>7, <2>8
<1>2. ASSUME Relay!Truncated PROVE StreamTypes' /\ StreamInv'
  <2>1. /\ ~dropped /\ ~got.ended /\ ~terminated /\ audited = <<>> /\ settled = <<>>
        /\ got.last = "none"
    BY <1>2 DEF Relay!Truncated, Relay!Polled, StreamInv, EndOf
  <2>2. /\ got' = [got EXCEPT !.ended = TRUE]
        /\ audited' = <<"Truncated">>
        /\ settled' = IF source = "agent" THEN <<"Truncated">> ELSE <<>>
        /\ UNCHANGED <<pending, terminated, dropped>>
    BY <1>2, <2>1 DEF Relay!Truncated, Relay!Fire, Relay!Settle, Relay!decoder
  <2>3. got' \in [last : {"none", "done", "error"}, late : BOOLEAN, ended : BOOLEAN]
        /\ got'.last = got.last /\ got'.late = got.late /\ got'.ended
    BY <2>2 DEF StreamTypes
  <2> QED BY <1>0, <2>1, <2>2, <2>3 DEF StreamTypes, StreamInv, EndOf
<1>3. ASSUME Relay!End PROVE StreamTypes' /\ StreamInv'
  <2>1. /\ terminated /\ got' = [got EXCEPT !.ended = TRUE]
        /\ UNCHANGED <<pending, terminated, dropped, audited, settled>>
    BY <1>3 DEF Relay!End, Relay!decoder, Relay!finalizers
  <2>2. got' \in [last : {"none", "done", "error"}, late : BOOLEAN, ended : BOOLEAN]
        /\ got'.last = got.last /\ got'.late = got.late
    BY <2>1 DEF StreamTypes
  <2> QED BY <1>0, <2>1, <2>2 DEF StreamTypes, StreamInv, EndOf, Relay!TermOf
<1>4. ASSUME Relay!Drop PROVE StreamTypes' /\ StreamInv'
  <2>1. /\ ~dropped /\ dropped' /\ UNCHANGED <<pending, terminated, got>>
        /\ audited' = IF audited = <<>> THEN <<"Disconnected">> ELSE audited
        /\ settled' = IF source # "agent" THEN settled
                      ELSE IF settled = <<>> THEN <<"Disconnected">> ELSE settled
    BY <1>4 DEF Relay!Drop, Relay!Fire, Relay!Settle, Relay!decoder
  <2>2. dropped' = TRUE
    BY <1>4 DEF Relay!Drop
  <2>3. audited = <<>> <=> ~terminated /\ ~got.ended
    BY <2>1 DEF StreamInv, EndOf
  <2>4. audited' = EndOf'
    BY <2>1, <2>3 DEF StreamInv, EndOf, Relay!TermOf
  <2>5. source = "agent" => \/ settled' = audited'
                            \/ wrapping /\ settled' = <<"Completed">> /\ audited' = <<"Failed">>
    BY <2>1 DEF StreamInv
  <2>6. StreamTypes'
    BY <1>0, <2>1, <2>2 DEF StreamTypes
  <2> QED BY <1>0, <2>1, <2>4, <2>5, <2>6 DEF StreamInv
<1>5. ASSUME \/ Relay!StartRead \/ Relay!ToolEnds \/ Relay!Tick
      PROVE  StreamTypes' /\ StreamInv'
  <2>1. UNCHANGED <<terminated, settled, audited, got, dropped, pending>>
    BY <1>5 DEF Relay!StartRead, Relay!ToolEnds, Relay!Tick, Relay!decoder, Relay!finalizers
  <2> QED BY <1>0, <2>1, QueueStep DEF StreamTypes
<1>6. ASSUME \/ Relay!PastDeadline \/ Relay!Elapsed \/ Relay!TransportError
             \/ Relay!JsonAnswer \/ Relay!ToolYields \/ Relay!Eof
      PROVE  StreamTypes' /\ StreamInv'
  <2>1. UNCHANGED <<terminated, settled, audited, got, dropped>>
    BY <1>6 DEF Relay!PastDeadline, Relay!Elapsed, Relay!TransportError, Relay!JsonAnswer,
                Relay!ToolYields, Relay!Eof, Relay!finalizers
  <2>2. pending' \in Seq(Relay!Events)
    <3>1. CASE Relay!PastDeadline \/ Relay!Elapsed \/ Relay!TransportError
      <4>1. pending' = Append(pending, "error") /\ "error" \in Relay!Events
        BY <3>1 DEF Relay!PastDeadline, Relay!Elapsed, Relay!TransportError, Relay!Fail, Relay!Events
      <4> QED BY <4>1, AppendProperties DEF StreamTypes
    <3>2. CASE Relay!JsonAnswer \/ Relay!ToolYields \/ Relay!Eof
      <4>1. pending' = <<>> \/ \E e \in Relay!Events : pending' = <<e>>
        BY <3>2 DEF Relay!JsonAnswer, Relay!ToolYields, Relay!Eof, Relay!Events
      <4>2. \A e \in Relay!Events : <<e>> \in Seq(Relay!Events)
        OBVIOUS
      <4>3. <<>> \in Seq(Relay!Events)
        BY EmptySeq
      <4> QED BY <4>1, <4>2, <4>3
    <3> QED BY <1>6, <3>1, <3>2
  <2> QED BY <1>0, <2>1, <2>2, QueueStep
<1>7. ASSUME NEW frames \in Batches, NEW rest \in 0 .. MaxGrowth, Relay!Chunk(frames, rest)
      PROVE  StreamTypes' /\ StreamInv'
  <2>1. UNCHANGED <<terminated, settled, audited, got, dropped>>
    BY <1>7 DEF Relay!Chunk, Relay!finalizers
  <2>2. frames \in Seq(Relay!Events \cup {"comment"})
    <3>1. Batches \subseteq Seq({"progress", "done", "error", "comment"})
      BY DispatcherConstants DEF Relay!RelayConstants
    <3>2. {"progress", "done", "error", "comment"} = Relay!Events \cup {"comment"}
      BY DEF Relay!Events
    <3> QED BY <3>1, <3>2
  <2>3. Relay!Parsed(frames) \in Seq(Relay!Events)
    BY <2>2, ParsedEvents
  <2>4. pending' \in {Relay!Parsed(frames), Append(Relay!Parsed(frames), "error")}
    BY <1>7 DEF Relay!Chunk
  <2>5. Append(Relay!Parsed(frames), "error") \in Seq(Relay!Events)
    BY <2>3, AppendProperties DEF Relay!Events
  <2> QED BY <1>0, <2>1, <2>3, <2>4, <2>5, QueueStep
<1> QED BY <1>1, <1>2, <1>3, <1>4, <1>5, <1>6, <1>7
        DEF Relay!Next, Relay!Poll, Relay!Environment

(***************************************************************************)
(* The call.                                                               *)
(***************************************************************************)

\* The inductive invariant of a call and its stream.
DispatchInv == StreamTypes /\ StreamInv /\ CallInv

\* Lemma: a call's gates decide the same from its first step to its last.
LEMMA GatesStay ==
    ASSUME UNCHANGED shape
    PROVE  (Refusable' <=> Refusable) /\ (LateWrap' <=> LateWrap)
  BY DEF Refusable, InvokeRefuses, StreamRefuses, ResumeRefuses, ResourceRefuses,
         ContextRefuses, CanInvoke, Restricts, LateWrap

\* Lemma: who is kept out is refused by each entry point's own gates.
LEMMA KeptOutIsRefused ==
    ASSUME shape \in AllShapes, KeptOut
    PROVE  Refusable
<1>1. ASSUME ~shape.denied PROVE ~CanInvoke
  <2> DEFINE B == {i \in DOMAIN shape.scopes : Restricts(i)}
  <2>1. shape.scopes \in Seq(Scopes)
    BY DispatcherConstants DEF AllShapes
  <2>2. B \in SUBSET Nat
    BY <2>1
  <2>3. B # {} /\ \A i \in B : shape.name \notin Allowed[shape.scopes[i]]
    BY <1>1 DEF KeptOut, Excluding
  <2>4. PICK m \in B : \A y \in B : m <= y
    <3> HIDE DEF B
    <3> QED BY <2>2, <2>3, LeastNatural
  <2>5. ASSUME NEW j \in 1 .. m - 1 PROVE ~Restricts(j)
    <3>1. m \in 1 .. Len(shape.scopes) /\ m \in Nat /\ Len(shape.scopes) \in Nat
      BY <2>1
    <3>2. j \in DOMAIN shape.scopes /\ ~(m <= j)
      BY <2>1, <3>1
    <3> QED BY <2>4, <3>2
  <2>6. m \in DOMAIN shape.scopes /\ Restricts(m) /\ shape.name \notin Allowed[shape.scopes[m]]
    BY <2>3
  <2> QED BY <2>5, <2>6 DEF CanInvoke
<1>2. shape.entry \in {"invoke", "stream", "resume", "resource", "context"}
  BY DEF AllShapes
<1> QED BY <1>1, <1>2 DEF Refusable, InvokeRefuses, StreamRefuses, ResumeRefuses, ResourceRefuses, ContextRefuses

\* Lemma: it holds when the call is made.
LEMMA DispatchStart == Init => DispatchInv
<1> SUFFICES ASSUME Init PROVE DispatchInv
  OBVIOUS
<1>1. shape \in AllShapes
  BY DispatcherConstants DEF Init
<1>2. StreamTypes
  <2>1. <<>> \in Seq(Relay!Events)
    BY EmptySeq
  <2> QED BY <1>1, <2>1 DEF Init, Relay!Init, StreamTypes
<1>3. StreamInv
  BY DEF Init, Relay!Init, StreamInv, EndOf
<1>4. CallInv
  BY DEF Init, Relay!Init, CallInv
<1> QED BY <1>2, <1>3, <1>4 DEF DispatchInv

\* Lemma: a step of the call that leaves the stream alone.
LEMMA CallStep ==
    ASSUME StreamTypes, StreamInv, UNCHANGED <<shape, relay>>,
           at' \in {"called", "running", "streaming", "over", "vanished"}
    PROVE  StreamTypes' /\ StreamInv'
  BY DEF StreamTypes, StreamInv, EndOf, relay, stream

\* Lemma: every step of a call, of its stream and of its client keeps it.
LEMMA DispatchStep == DispatchInv /\ [Next]_vars => DispatchInv'
<1> SUFFICES ASSUME DispatchInv, [Next]_vars PROVE DispatchInv'
  OBVIOUS
<1> USE DEF DispatchInv
<1>1. ASSUME NEW line, NEW outcome, Ended(line, outcome), at \in {"called", "running"},
             \/ line = <<"error">> /\ outcome = "error" /\ (Refusable => ~ran)
             \/ line = <<"ok">> /\ (outcome = "ok" \/ LateWrap) /\ ~Refusable
             \/ line = <<>> /\ shape.entry = "resume" /\ ~shape.upstream /\ ~Refusable
      PROVE  DispatchInv'
  <2>1. /\ at' = "over" /\ answer' = outcome /\ UNCHANGED <<shape, ran, relay>>
        /\ lines' = lines \o line /\ lines = <<>>
    BY <1>1 DEF Ended, CallInv
  <2>2. lines' = line
    BY <1>1, <2>1
  <2>3. StreamTypes' /\ StreamInv'
    BY <2>1, CallStep
  <2>4. CallInv'
    BY <1>1, <2>1, <2>2, GatesStay DEF CallInv, relay, stream
  <2> QED BY <2>3, <2>4
<1>2. ASSUME Refuse PROVE DispatchInv'
  <2>1. Ended(<<"error">>, "error") /\ at = "called" /\ ~ran
    BY <1>2 DEF Refuse, CallInv
  <2> QED BY <1>1, <2>1
<1>3. ASSUME Unroutable PROVE DispatchInv'
  <2>1. at = "called" /\ ~Refusable /\ ~Routable
        /\ Ended(IF shape.entry = "resume" THEN <<>> ELSE <<"error">>, "error")
    BY <1>3 DEF Unroutable
  <2>2. CASE shape.entry = "resume"
    BY <1>1, <2>1, <2>2 DEF Routable
  <2>3. CASE shape.entry # "resume"
    BY <1>1, <2>1, <2>3
  <2> QED BY <2>2, <2>3
<1>4. ASSUME Start PROVE DispatchInv'
  BY <1>4, CallStep, GatesStay DEF Start, CallInv, relay, stream
<1>5. ASSUME Open PROVE DispatchInv'
  <2>1. /\ at = "running" /\ at' = "streaming" /\ UNCHANGED <<shape, lines, answer, ran, stream>>
        /\ wrapping' \in BOOLEAN
    BY <1>5 DEF Open
  <2>2. audited = <<>> /\ settled = <<>> /\ ~terminated /\ ~got.ended /\ ~dropped
    BY <2>1 DEF CallInv, StreamInv, EndOf
  <2>3. StreamTypes'
    BY <2>1 DEF StreamTypes, stream
  <2>4. StreamInv'
    BY <2>1, <2>2 DEF StreamInv, EndOf, stream
  <2>5. CallInv'
    BY <2>1, GatesStay DEF CallInv
  <2> QED BY <2>3, <2>4, <2>5
<1>6. ASSUME RunFails PROVE DispatchInv'
  <2>1. Ended(<<"error">>, "error") /\ at = "running" /\ ~Refusable
    BY <1>6 DEF RunFails, CallInv
  <2> QED BY <1>1, <2>1
<1>7. ASSUME RunSucceeds PROVE DispatchInv'
  <2>1. PICK outcome \in {"ok"} \cup (IF LateWrap THEN {"error"} ELSE {}) : Ended(<<"ok">>, outcome)
    BY <1>7 DEF RunSucceeds
  <2>2. at = "running" /\ ~Refusable /\ (outcome = "ok" \/ LateWrap)
    BY <1>7, <2>1 DEF RunSucceeds, CallInv
  <2> QED BY <1>1, <2>1, <2>2
<1>8. ASSUME Vanish PROVE DispatchInv'
  BY <1>8, CallStep, GatesStay DEF Vanish, CallInv, relay, stream
<1>9. ASSUME Stream(Relay!Next) PROVE DispatchInv'
  <2>1. at = "streaming" /\ UNCHANGED call /\ Relay!Next
    BY <1>9 DEF Stream
  <2>2. StreamTypes' /\ StreamInv'
    BY <2>1, RelayStep
  <2>3. CallInv'
    BY <2>1, GatesStay DEF CallInv, call
  <2> QED BY <2>2, <2>3
<1>10. CASE UNCHANGED vars
  BY <1>10, CallStep, GatesStay DEF vars, call, relay, stream, StreamTypes, CallInv
<1> QED BY <1>2, <1>3, <1>4, <1>5, <1>6, <1>7, <1>8, <1>9, <1>10 DEF Next

\* Lemma: hence it always holds.
LEMMA DispatchHolds == Spec => []DispatchInv
  BY DispatchStart, DispatchStep, PTL DEF Spec

(***************************************************************************)
(* The lines of a call.                                                    *)
(***************************************************************************)

\* Lemma: a call's lines are its own, or the one line of its stream.
LEMMA LinesAre ==
    ASSUME DispatchInv
    PROVE  /\ at # "streaming" => Lines = lines /\ audited = <<>> /\ settled = <<>>
           /\ at = "streaming" /\ EndOf = <<>> => Lines = <<>> /\ settled = <<>>
           /\ \A t : at = "streaming" /\ EndOf = <<t>> => Lines = <<LineOf(t)>>
<1> USE DEF DispatchInv
<1>1. audited = EndOf /\ (at # "streaming" => EndOf = <<>>)
  BY DEF StreamInv, CallInv, EndOf
<1>2. at = "streaming" => lines = <<>>
  BY DEF CallInv
<1>3. lines \in {<<>>, <<"ok">>, <<"error">>}
  BY DEF CallInv, StreamTypes
<1>4. ASSUME EndOf = <<>> PROVE Lines = lines /\ audited = <<>> /\ settled = <<>>
  <2>1. audited = <<>> /\ settled = <<>>
    BY <1>1, <1>4 DEF StreamInv
  <2>2. [i \in DOMAIN audited |-> LineOf(audited[i])] = <<>>
    BY <2>1
  <2> QED BY <1>3, <2>1, <2>2 DEF Lines
<1>5. ASSUME NEW t, at = "streaming", EndOf = <<t>> PROVE Lines = <<LineOf(t)>>
  <2>1. audited = <<t>>
    BY <1>1, <1>5
  <2>2. [i \in DOMAIN audited |-> LineOf(audited[i])] = <<LineOf(t)>>
    BY <2>1
  <2> QED BY <1>2, <1>5, <2>2 DEF Lines
<1> QED BY <1>1, <1>2, <1>4, <1>5

\* ADR-6: a call leaves at most one audit line, and exactly one once it has an
\* outcome, through every entry point and however its stream ends; the
\* breaker's verdict on a stream is fired at most once and by the same end.
THEOREM ExactlyOneLine == Spec => []OneLine
<1>1. DispatchInv => OneLine
  <2> SUFFICES ASSUME DispatchInv PROVE OneLine
    OBVIOUS
  <2> USE DEF DispatchInv
  <2>1. EndOf = <<>> \/ \E t \in Relay!Terminations : EndOf = <<t>>
    BY DEF EndOf, Relay!TermOf, Relay!Terminations
  <2>2. Len(settled) <= 1
    BY <2>1 DEF StreamInv
  <2>3. lines = <<>> \/ lines = <<"ok">> \/ lines = <<"error">>
    BY DEF CallInv, StreamTypes
  <2>4. Len(Lines) <= 1
    <3>1. Lines = lines \/ Lines = <<>> \/ \E t \in Relay!Terminations : Lines = <<LineOf(t)>>
      BY <2>1, LinesAre
    <3>2. Len(lines) <= 1
      <4>1. CASE lines = <<>>
        BY <4>1
      <4>2. CASE lines = <<"ok">>
        BY <4>2
      <4>3. CASE lines = <<"error">>
        BY <4>3
      <4> QED BY <2>3, <4>1, <4>2, <4>3
    <3>3. CASE \E t \in Relay!Terminations : Lines = <<LineOf(t)>>
      <4>1. PICK t \in Relay!Terminations : Lines = <<LineOf(t)>>
        BY <3>3
      <4> QED BY <4>1
    <3>4. CASE Lines = <<>>
      BY <3>4
    <3> QED BY <3>1, <3>2, <3>3, <3>4
  <2>5. Relay!VerdictsAgree
    BY DEF StreamInv, Relay!VerdictsAgree
  <2>6. ASSUME Finished, ~(shape.entry = "resume" /\ ~shape.upstream /\ ~Refusable)
        PROVE  Len(Lines) = 1
    <3>1. CASE at = "over"
      <4>1. lines = <<"ok">> \/ lines = <<"error">>
        BY <2>6, <3>1 DEF CallInv
      <4> QED BY <3>1, <4>1, LinesAre
    <3>2. CASE at = "streaming" /\ dropped
      <4>1. EndOf # <<>>
        BY <3>2 DEF EndOf
      <4> QED BY <2>1, <3>2, <4>1, LinesAre
    <3> QED BY <2>6, <3>1, <3>2 DEF Finished
  <2> QED BY <2>2, <2>4, <2>5, <2>6 DEF OneLine
<1> QED BY <1>1, DispatchHolds, PTL

\* The audit line tells what the caller was told, and a stream tells nothing
\* after its terminal event.
THEOREM LineTellsAnswer == Spec => []LineMatchesAnswer
<1>1. DispatchInv => LineMatchesAnswer
  <2> SUFFICES ASSUME DispatchInv PROVE LineMatchesAnswer
    OBVIOUS
  <2> USE DEF DispatchInv
  <2>1. Relay!NothingAfterTerminal
    BY DEF StreamInv, Relay!NothingAfterTerminal
  <2>2. ASSUME at = "over", Lines # <<>>, ~LateWrap PROVE Lines[1] = answer
    <3>1. Lines = lines
      BY <2>2, LinesAre
    <3> QED BY <2>2, <3>1 DEF CallInv
  <2>3. ASSUME at = "streaming", dropped PROVE Lines[1] = StreamAnswer
    <3>1. EndOf = <<Relay!ClientsStory>>
      <4>1. CASE terminated
        <5>1. got.last \in {"done", "error"}
          BY <4>1 DEF StreamInv, StreamTypes
        <5> QED BY <4>1, <5>1 DEF EndOf, Relay!ClientsStory, Relay!TermOf
      <4>2. CASE ~terminated
        <5>1. got.last = "none"
          BY <4>2 DEF StreamInv
        <5>2. got.ended \in BOOLEAN
          BY DEF StreamTypes
        <5> QED BY <2>3, <4>2, <5>1, <5>2 DEF EndOf, Relay!ClientsStory
      <4> QED BY <4>1, <4>2
    <3>2. Lines = <<LineOf(Relay!ClientsStory)>>
      BY <2>3, <3>1, LinesAre
    <3>3. LineOf(Relay!ClientsStory) = StreamAnswer
      BY DEF LineOf, StreamAnswer
    <3> QED BY <3>2, <3>3
  <2> QED BY <2>1, <2>2, <2>3 DEF LineMatchesAnswer, Finished
<1> QED BY <1>1, DispatchHolds, PTL

\* Who was revoked, or holds restricting scopes none of which maps to what it
\* asks for, reaches neither a tool nor an agent through any of the five entry
\* points, for every list of scopes and every set of restrictions.
THEOREM RefusedStaysOut == Spec => []RefusedNeverRuns
<1>1. DispatchInv => RefusedNeverRuns
  <2> SUFFICES ASSUME DispatchInv, KeptOut
               PROVE  ~ran /\ (Finished => Lines = <<"error">>)
    BY DEF RefusedNeverRuns
  <2> USE DEF DispatchInv
  <2>1. Refusable
    BY KeptOutIsRefused DEF StreamTypes
  <2>2. ~ran /\ at \in {"called", "over"}
    BY <2>1 DEF CallInv
  <2>3. at = "over" => lines = <<"error">>
    BY <2>1 DEF CallInv
  <2> QED BY <2>2, <2>3, LinesAre DEF Finished
<1> QED BY <1>1, DispatchHolds, PTL
=============================================================================
