--------------------------- MODULE Delivery_proofs ---------------------------
(***************************************************************************)
(* What the couriers, the form store and the task streams guarantee,       *)
(* whatever the number of faults, crashes, users and readers.              *)
(***************************************************************************)
EXTENDS Delivery, SequenceTheorems, FiniteSetTheorems, TLAPS

(***************************************************************************)
(* Google Chat.                                                            *)
(***************************************************************************)

Messages == {"working", "partial", "answer", "notice"}

\* The messages of the turn, with the placeholder among them if there is one.
GcTypes ==
    /\ step \in {"placeholder", "stream", "deliver", "create", "notice", "done"}
    /\ space \in Seq(Messages)
    /\ placeholder \in 0..Len(space)
    /\ postLines \in Seq({"posted", "dropped", "retry"})
    /\ chatFaults \in Nat /\ straggler \in BOOLEAN /\ overtaken \in BOOLEAN
    /\ straggler => placeholder # 0
    /\ step = "placeholder" => placeholder = 0

\* One line is written, by the step that ends the turn, and it tells what the
\* space shows.
GcLines ==
    /\ step \in {"placeholder", "stream", "deliver", "create"} => postLines = <<>>
    /\ step \in {"deliver", "create"} => result = "answer"
    /\ step = "notice" => postLines = <<"dropped">>
    /\ step = "done" => /\ Len(postLines) = 1
                        /\ postLines[1] = "posted" => result = "answer" /\ (Shows("answer") \/ overtaken)

\* Without a fault the placeholder is the only message, and nothing is given up.
GcFaultless ==
    chatFaults = 0 =>
        /\ ~straggler
        /\ step = "placeholder" => space = <<>>
        /\ step # "placeholder" => Len(space) = 1 /\ placeholder = 1
        /\ step # "create"
        /\ step = "done" => space[1] \in {"answer", "notice"}

GcInv == GcTypes /\ GcLines /\ GcFaultless

\* What a call to Google Chat does to the messages of the turn.
Posted(text) == space' = Append(space, text)
Patched(text) == space' = [space EXCEPT ![placeholder] = text]

\* Lemma: a posted message is the last one, a patched one is the placeholder,
\* and the others stay.
LEMMA SpaceMoves ==
    ASSUME GcTypes, NEW text \in Messages
    PROVE  /\ Posted(text) => /\ space' \in Seq(Messages) /\ Len(space') = Len(space) + 1
                              /\ space'[Len(space) + 1] = text
                              /\ \A m \in 1..Len(space) : space'[m] = space[m]
           /\ Patched(text) /\ placeholder # 0 =>
                              /\ space' \in Seq(Messages) /\ Len(space') = Len(space)
                              /\ placeholder \in 1..Len(space)
                              /\ space'[placeholder] = text
                              /\ \A m \in 1..Len(space) : m # placeholder => space'[m] = space[m]
<1>1. space \in Seq(Messages) /\ Len(space) \in Nat /\ placeholder \in 0..Len(space)
  BY DEF GcTypes
<1>2. DOMAIN space = 1..Len(space)
  BY <1>1
<1>3. ASSUME Posted(text)
      PROVE  /\ space' \in Seq(Messages) /\ Len(space') = Len(space) + 1
             /\ space'[Len(space) + 1] = text
             /\ \A m \in 1..Len(space) : space'[m] = space[m]
  BY <1>1, <1>3, AppendProperties DEF Posted
<1>4. ASSUME Patched(text), placeholder # 0
      PROVE  /\ space' \in Seq(Messages) /\ Len(space') = Len(space)
             /\ placeholder \in 1..Len(space)
             /\ space'[placeholder] = text
             /\ \A m \in 1..Len(space) : m # placeholder => space'[m] = space[m]
  <2>1. placeholder \in 1..Len(space)
    BY <1>1, <1>4
  <2> QED BY <1>1, <1>2, <1>4, <2>1, ExceptSeq DEF Patched
<1> QED BY <1>3, <1>4

\* Lemma: one line is appended.
LEMMA LineMoves ==
    ASSUME GcTypes, postLines = <<>>, NEW o \in {"posted", "dropped", "retry"}, Line(o)
    PROVE  /\ postLines' \in Seq({"posted", "dropped", "retry"})
           /\ postLines' = <<o>> /\ Len(postLines') = 1 /\ postLines'[1] = o
BY DEF GcTypes, Line

\* Lemma: every step of the courier keeps its invariant.
LEMMA GcStep == GcInv /\ [GcNext]_gcVars => GcInv'
<1> SUFFICES ASSUME GcInv, [GcNext]_gcVars PROVE GcInv'
  OBVIOUS
<1> USE DEF GcInv
<1>1. CASE UNCHANGED gcVars
  BY <1>1 DEF gcVars, GcTypes, GcLines, GcFaultless, Shows
<1>2. CASE PostPlaceholder
  <2>1. step = "placeholder" /\ step' = "stream" /\ UNCHANGED <<result, straggler, overtaken, postLines>>
    BY <1>2 DEF PostPlaceholder
  <2>2. \/ chatFaults' = chatFaults /\ Posted("working") /\ placeholder' = Len(space) + 1
        \/ chatFaults' = chatFaults + 1 /\ space' = space /\ placeholder' = 0
        \/ chatFaults' = chatFaults + 1 /\ Posted("working") /\ placeholder' = 0
    BY <1>2 DEF PostPlaceholder, Create, GcWell, GcFault, Posted
  <2>3. "working" \in Messages
    BY DEF Messages
  <2>4. Len(space) \in Nat /\ chatFaults \in Nat /\ chatFaults + 1 # 0
    BY DEF GcTypes
  <2>a. /\ space' \in Seq(Messages) /\ placeholder' \in 0..Len(space')
        /\ chatFaults' = chatFaults => Len(space') = Len(space) + 1 /\ placeholder' = Len(space) + 1
        /\ chatFaults' \in Nat /\ (chatFaults' = 0 => chatFaults = 0 /\ chatFaults' = chatFaults)
    <3>1. space \in Seq(Messages)
      BY DEF GcTypes
    <3>2. Posted("working") => space' \in Seq(Messages) /\ Len(space') = Len(space) + 1
      BY <2>3, SpaceMoves
    <3>3. CASE Posted("working")
      BY <2>2, <2>4, <3>2, <3>3
    <3>4. CASE ~Posted("working")
      BY <2>2, <2>4, <3>1, <3>4
    <3> QED BY <3>3, <3>4
  <2>5. GcTypes'
    <3>1. ~straggler'
      BY <2>1 DEF GcTypes
    <3> QED BY <2>1, <2>a, <3>1 DEF GcTypes
  <2>6. GcLines'
    BY <2>1 DEF GcLines
  <2>7. GcFaultless'
    <3>1. ASSUME chatFaults' = 0 PROVE Len(space') = 1 /\ placeholder' = 1 /\ ~straggler
      <4>1. space = <<>> /\ ~straggler
        BY <2>1, <2>a, <3>1 DEF GcFaultless
      <4>2. Len(space) = 0
        BY <4>1
      <4> QED BY <2>a, <3>1, <4>1, <4>2
    <3> QED BY <2>1, <3>1 DEF GcFaultless
  <2> QED BY <2>5, <2>6, <2>7
<1>3. CASE PatchProgress
  <2>1. step = "stream" /\ placeholder # 0 /\ UNCHANGED <<step, placeholder, result, overtaken, postLines>>
    BY <1>3 DEF PatchProgress
  <2>2. \/ chatFaults' = chatFaults /\ Patched("partial") /\ straggler' = straggler
        \/ chatFaults' = chatFaults + 1 /\ space' = space /\ straggler' \in {straggler, TRUE}
        \/ chatFaults' = chatFaults + 1 /\ Patched("partial") /\ straggler' \in {straggler, TRUE}
    BY <1>3 DEF PatchProgress, Patch, GcWell, GcFault, Patched
  <2>3. "partial" \in Messages
    BY DEF Messages
  <2>4. chatFaults \in Nat /\ chatFaults + 1 # 0
    BY DEF GcTypes
  <2>a. /\ space' \in Seq(Messages) /\ Len(space') = Len(space)
        /\ chatFaults' \in Nat /\ straggler' \in BOOLEAN
    <3>1. space \in Seq(Messages) /\ straggler \in BOOLEAN
      BY DEF GcTypes
    <3>2. Patched("partial") => space' \in Seq(Messages) /\ Len(space') = Len(space)
      BY <2>1, <2>3, SpaceMoves
    <3>0. chatFaults' = chatFaults \/ chatFaults' = chatFaults + 1
      BY <2>2, Zenon
    <3>3. chatFaults' \in Nat
      BY <2>4, <3>0
    <3>4. straggler' = straggler \/ straggler' = TRUE
      BY <2>2
    <3>5. straggler' \in BOOLEAN
      BY <3>1, <3>4, Zenon
    <3> QED BY <2>2, <3>1, <3>2, <3>3, <3>5
  <2>5. GcTypes'
    BY <2>1, <2>a DEF GcTypes
  <2>6. GcLines'
    BY <2>1 DEF GcLines
  <2>7. GcFaultless'
    BY <2>1, <2>2, <2>3, <2>4, SpaceMoves DEF GcFaultless
  <2> QED BY <2>5, <2>6, <2>7
<1>4. CASE StragglerArrives
  <2>1. /\ straggler /\ straggler' = FALSE /\ Patched("partial") /\ placeholder # 0
        /\ overtaken' = (overtaken \/ step # "stream")
        /\ UNCHANGED <<step, placeholder, result, postLines, chatFaults>>
    BY <1>4 DEF StragglerArrives, Patched, GcTypes
  <2>2. "partial" \in Messages
    BY DEF Messages
  <2>3. GcTypes'
    BY <2>1, <2>2, SpaceMoves DEF GcTypes
  <2>4. GcLines'
    BY <2>1 DEF GcLines
  <2>5. GcFaultless'
    BY <2>1 DEF GcFaultless
  <2> QED BY <2>3, <2>4, <2>5
<1>5. ASSUME NEW r \in {"answer", "empty", "error"}, StreamDone(r) PROVE GcInv'
  <2>1. /\ step = "stream" /\ result' = r /\ postLines = <<>>
        /\ UNCHANGED <<placeholder, space, straggler, overtaken, chatFaults>>
    BY <1>5 DEF StreamDone, GcLines
  <2>2. CASE r = "answer"
    <3>1. step' = "deliver" /\ postLines' = postLines
      BY <1>5, <2>2 DEF StreamDone
    <3> QED BY <2>1, <2>2, <3>1 DEF GcTypes, GcLines, GcFaultless
  <2>3. CASE r # "answer"
    <3>1. Line("dropped") /\ step' = IF r = "empty" /\ placeholder = 0 THEN "done" ELSE "notice"
      BY <1>5, <2>3 DEF StreamDone
    <3>2. /\ postLines' \in Seq({"posted", "dropped", "retry"})
          /\ postLines' = <<"dropped">> /\ Len(postLines') = 1 /\ postLines'[1] = "dropped"
      BY <2>1, <3>1, LineMoves
    <3>3. GcTypes'
      BY <2>1, <3>1, <3>2 DEF GcTypes
    <3>4. GcLines'
      BY <3>1, <3>2 DEF GcLines
    <3>5. GcFaultless'
      BY <2>1, <3>1 DEF GcFaultless
    <3> QED BY <3>3, <3>4, <3>5
  <2> QED BY <2>2, <2>3
<1>6. CASE Notice
  <2>1. step = "notice" /\ step' = "done" /\ UNCHANGED <<placeholder, result, straggler, overtaken, postLines>>
    BY <1>6 DEF Notice
  <2>2. \/ chatFaults' = chatFaults + 1 /\ space' = space
        \/ /\ chatFaults' \in {chatFaults, chatFaults + 1}
           /\ (placeholder # 0 /\ Patched("notice")) \/ (placeholder = 0 /\ Posted("notice"))
    BY <1>6 DEF Notice, Patch, Create, GcWell, GcFault, Patched, Posted
  <2>3. "notice" \in Messages
    BY DEF Messages
  <2>4. chatFaults \in Nat /\ chatFaults + 1 # 0 /\ Len(space) \in Nat
    BY DEF GcTypes
  <2>5. GcTypes'
    BY <2>1, <2>2, <2>3, <2>4, SpaceMoves DEF GcTypes
  <2>6. GcLines'
    BY <2>1 DEF GcLines
  <2>7. GcFaultless'
    BY <2>1, <2>2, <2>3, <2>4, SpaceMoves DEF GcFaultless
  <2> QED BY <2>5, <2>6, <2>7
<1>7. CASE PatchAnswer
  <2>1. step = "deliver" /\ placeholder # 0 /\ UNCHANGED <<placeholder, result, straggler, overtaken>>
    BY <1>7 DEF PatchAnswer
  <2>2. \/ chatFaults' = chatFaults /\ Patched("answer") /\ step' = "done" /\ Line("posted")
        \/ /\ chatFaults' = chatFaults + 1 /\ step' = "create" /\ postLines' = postLines
           /\ space' = space \/ Patched("answer")
    BY <1>7 DEF PatchAnswer, Patch, GcWell, GcFault, Patched, Goto
  <2>3. "answer" \in Messages /\ postLines = <<>> /\ result = "answer"
    BY <2>1 DEF Messages, GcLines
  <2>4. chatFaults \in Nat /\ chatFaults + 1 # 0 /\ Len(space) \in Nat
    BY DEF GcTypes
  <2>a. /\ space' \in Seq(Messages) /\ Len(space') = Len(space) /\ chatFaults' \in Nat
        /\ postLines' \in Seq({"posted", "dropped", "retry"})
    <3>1. space \in Seq(Messages) /\ postLines \in Seq({"posted", "dropped", "retry"})
      BY DEF GcTypes
    <3>2. Patched("answer") => space' \in Seq(Messages) /\ Len(space') = Len(space)
      BY <2>1, <2>3, SpaceMoves
    <3>3. Line("posted") => postLines' \in Seq({"posted", "dropped", "retry"})
      BY <2>3, LineMoves
    <3>4. chatFaults' \in Nat
      BY <2>2, <2>4
    <3> QED BY <2>2, <3>1, <3>2, <3>3, <3>4
  <2>5. GcTypes'
    BY <2>1, <2>2, <2>a DEF GcTypes
  <2>6. GcLines'
    BY <2>1, <2>2, <2>3, SpaceMoves, LineMoves DEF GcLines, Shows
  <2>7. GcFaultless'
    BY <2>1, <2>2, <2>3, <2>4, SpaceMoves DEF GcFaultless
  <2> QED BY <2>5, <2>6, <2>7
<1>8. CASE CreateAnswer
  <2>1. /\ step = "create" \/ (step = "deliver" /\ placeholder = 0)
        /\ step' = "done" /\ UNCHANGED <<placeholder, result, straggler, overtaken>>
    BY <1>8 DEF CreateAnswer, Goto
  <2>2. \/ chatFaults' = chatFaults /\ Posted("answer") /\ Line("posted")
        \/ /\ chatFaults' = chatFaults + 1 /\ (Line("dropped") \/ Line("retry"))
           /\ space' = space \/ Posted("answer")
    BY <1>8 DEF CreateAnswer, Create, GcWell, GcFault, Posted
  <2>3. "answer" \in Messages /\ postLines = <<>> /\ result = "answer"
    BY <2>1 DEF Messages, GcLines
  <2>4. chatFaults \in Nat /\ chatFaults + 1 # 0 /\ Len(space) \in Nat
    BY DEF GcTypes
  <2>5. GcTypes'
    BY <2>1, <2>2, <2>3, <2>4, SpaceMoves, LineMoves DEF GcTypes
  <2>6. GcLines'
    BY <2>1, <2>2, <2>3, <2>4, SpaceMoves, LineMoves DEF GcLines, Shows
  <2>7. GcFaultless'
    BY <2>1, <2>2, <2>4 DEF GcFaultless
  <2> QED BY <2>5, <2>6, <2>7
<1> QED BY <1>1, <1>2, <1>3, <1>4, <1>5, <1>6, <1>7, <1>8 DEF GcNext, CourierReply

\* A finished Google Chat turn has one post line, which says "posted" only of
\* an answer that is there or was overtaken by a patch given up earlier; and
\* without a failed call no placeholder stays unresolved: for any number of
\* faults and of progress patches.
THEOREM ChatTurnSettles == Spec => []ChatAnswerSettles
<1>1. Init => GcInv
  <2> SUFFICES ASSUME GcInit PROVE GcInv
    BY DEF Init
  <2> USE DEF GcInit
  <2>1. GcTypes
    <3>1. space \in Seq(Messages) /\ postLines \in Seq({"posted", "dropped", "retry"})
      OBVIOUS
    <3>2. placeholder \in 0..Len(space)
      OBVIOUS
    <3> QED BY <3>1, <3>2 DEF GcTypes
  <2>2. GcLines /\ GcFaultless
    BY DEF GcLines, GcFaultless
  <2> QED BY <2>1, <2>2 DEF GcInv
<1>2. GcInv /\ [Next]_vars => GcInv'
  <2>1. [Next]_vars => [GcNext]_gcVars
    BY DEF Next, TeamsStep, GoogleStep, SignalStep, DiscordStep, TelegramStep, ProcessStep, A2aStep, vars
  <2> QED BY <2>1, GcStep
<1>3. GcInv => ChatAnswerSettles
  <2> SUFFICES ASSUME GcInv, step = "done" PROVE ChatAnswerSettles
    BY DEF ChatAnswerSettles
  <2>1. chatFaults = 0 => ~Shows("working") /\ ~Shows("partial")
    <3> SUFFICES ASSUME chatFaults = 0, NEW m \in 1..Len(space) PROVE space[m] \notin {"working", "partial"}
      BY DEF Shows
    <3>1. Len(space) = 1 /\ space[1] \in {"answer", "notice"}
      BY DEF GcInv, GcFaultless
    <3>2. m = 1
      BY <3>1
    <3> QED BY <3>1, <3>2
  <2> QED BY <2>1 DEF GcInv, GcLines, ChatAnswerSettles
<1> QED BY <1>1, <1>2, <1>3, PTL DEF Spec

(***************************************************************************)
(* Teams: the invariants.                                                  *)
(***************************************************************************)

Points == {"open", "start", "loop", "posted", "settle", "deliver", "post", "plain", "mark", "done",
           "lost", "revalidate", "drive", "stored", "gone"}
Contents == {"clicked", "working"} \cup Endings

RecordType ==
    rec \in [state : {"none", "running"} \cup Endings, up : BOOLEAN, card : Nat, delivered : BOOLEAN]
CourierType ==
    w \in [role : {"live", "sweep"}, pc : Points, hasCard : BOOLEAN, card : Nat, stream : BOOLEAN,
           ripe : BOOLEAN, settled : BOOLEAN, closed : BOOLEAN, outcome : {"-"} \cup Endings, tries : Nat]
FeedType == feed \in Seq({"task", "progress"} \cup Endings)
ChatType == chat \in Seq(Contents)

TeamsTypes ==
    /\ RecordType /\ CourierType /\ FeedType /\ ChatType
    /\ turn \in [personal : BOOLEAN, inPlace : BOOLEAN, tasks : BOOLEAN]
    /\ run \in {"off", "live", "over"} /\ refresh \in {"-", "working"} \cup Endings
    /\ doubts \in Nat

\* Who may be where: a runner is alive only while a courier follows it, and
\* the record is open as long; an ending on the channel is the stored one;
\* what a courier is to deliver is what the record says.
TeamsFlow ==
    /\ run = "live" => w.pc \in {"loop", "posted"} /\ rec.state \in {"none", "running"}
    /\ run = "off" => feed = <<>>
    /\ run = "over" /\ ~broken => rec.state # "running"
    /\ w.pc \in {"open", "start", "revalidate", "drive"} => run = "off"
    /\ w.pc \in {"open", "start"} => rec.state = "none"
    /\ w.pc = "revalidate" => rec.state # "none"
    /\ w.pc = "drive" => rec.state = "running"
    /\ \A i \in 1..Len(feed) : feed[i] \in Endings => run = "over" /\ rec.state \in {"none", feed[i]}
    /\ ~turn.tasks => rec.state = "none"
    /\ rec.delivered => w.pc \in {"done", "gone"}
    /\ w.pc \in {"open", "start", "loop", "posted", "revalidate", "drive", "stored"} => w.outcome = "-"
    /\ w.pc \in {"deliver", "post", "plain", "mark"} => w.outcome \in Endings
    /\ w.pc = "settle" /\ w.role = "live" => w.outcome \in Endings
    /\ rec.state \in Endings /\ w.outcome # "-" => w.outcome = rec.state
    /\ rec.state = "running" /\ w.outcome # "-" => broken

\* What was shown, and by whom: nothing while the task runs or the card waits
\* for the click's own response.
TeamsSeen ==
    /\ ~broken /\ rec.state = "running" => shown = {}
    /\ ~broken /\ w.pc \in {"open", "start", "loop", "posted", "settle"} => shown = {}
    /\ \A p \in shown : p[2] \in Endings
    /\ w.pc = "mark" => \E p \in shown : p[2] = w.outcome
    /\ put # "none" => w.pc \in {"loop", "posted", "settle"}
    /\ invoke => ~w.settled
    /\ ~w.settled => w.role = "live" /\ shown = {}
                     /\ w.pc \in {"open", "start", "loop", "posted", "settle", "deliver"}

\* A delivery that no later courier repeats.
Closing == w.pc = "mark" \/ rec.delivered \/ (w.pc \in {"done", "gone"} /\ rec.state = "none")

\* Every activity but that of a closing delivery is paid for by a doubt.
Places == {p[1] : p \in shown}
Owed == IF Closing THEN 1 ELSE 0
TeamsCount == IsFiniteSet(Places) /\ Cardinality(Places) <= doubts + Owed

TeamsInv == TeamsTypes /\ TeamsFlow /\ TeamsSeen /\ DeliveredIsSeen

(***************************************************************************)
(* Teams: every step keeps them.                                           *)
(***************************************************************************)

\* Lemma: what a step may do to the channel: nothing, lose it, read its first
\* event, or broadcast one.
LEMMA FeedMoves ==
    [TeamsNext]_teamsVars =>
        \/ feed' = feed \/ feed' = <<>> \/ (feed # <<>> /\ feed' = Tail(feed))
        \/ \E ev \in {"task", "progress"} \cup Endings : Broadcast(ev)
<1> SUFFICES ASSUME [TeamsNext]_teamsVars
             PROVE  \/ feed' = feed \/ feed' = <<>> \/ (feed # <<>> /\ feed' = Tail(feed))
                    \/ \E ev \in {"task", "progress"} \cup Endings : Broadcast(ev)
  OBVIOUS
<1>1. CASE RunnerNext
  BY <1>1 DEF RunnerNext, RunnerAsync, RunnerProgress, RunnerEnd, RunnerBreaks
<1>2. CASE ConnectorNext \/ Crash \/ UNCHANGED teamsVars
  BY <1>2 DEF ConnectorNext, UpdateApplied, LateUpdate, InvokeApplied, RefreshRead, RefreshShown, Crash,
     teamsVars
<1>3. CASE CourierNext
  BY <1>3 DEF CourierNext, OpenProgress, StartTurn, StartFails, PostCard, StoreCard, ProgressEvent, Flush,
              UpdateEnds, WindowPasses, Ending, StreamEnds, Settle, PutAnswer, NoCardToPut, PostAnswer,
              MarkDelivered, Revalidate, Drive, StoredOutcome, Read
<1> QED BY <1>1, <1>2, <1>3 DEF TeamsNext

\* Lemma: the channel stays a sequence of events.
LEMMA FeedStep == FeedType /\ [TeamsNext]_teamsVars => FeedType'
<1> DEFINE E == {"task", "progress"} \cup Endings
<1>1. ASSUME FeedType, NEW ev \in E, Broadcast(ev) PROVE FeedType'
  <2>1. Append(feed, ev) \in Seq(E) /\ Len(Append(feed, ev)) = Len(feed) + 1
    BY <1>1, AppendProperties DEF FeedType
  <2>2. Append(feed, ev) # <<>>
    BY <1>1, AppendProperties DEF FeedType
  <2>3. Tail(Append(feed, ev)) \in Seq(E)
    BY <2>1, <2>2, HeadTailProperties
  <2> QED BY <1>1, <2>1, <2>3 DEF Broadcast, FeedType
<1>2. ASSUME FeedType, feed # <<>>, feed' = Tail(feed) PROVE FeedType'
  BY <1>2, HeadTailProperties DEF FeedType
<1>3. ASSUME feed' = <<>> PROVE FeedType'
  BY <1>3 DEF FeedType
<1>4. ASSUME FeedType, feed' = feed PROVE FeedType'
  BY <1>4 DEF FeedType
<1> QED BY <1>1, <1>2, <1>3, <1>4, FeedMoves

\* Lemma: what a step may do to the chat: nothing, post an activity, or replace
\* the content of one.
LEMMA ChatMoves ==
    TeamsTypes /\ TeamsFlow /\ [TeamsNext]_teamsVars =>
        \/ chat' = chat
        \/ \E x \in Contents : chat' = Append(chat, x) \/ \E a : chat' = [chat EXCEPT ![a] = x]
<1> SUFFICES ASSUME TeamsTypes, TeamsFlow, [TeamsNext]_teamsVars
             PROVE  \/ chat' = chat
                    \/ \E x \in Contents : chat' = Append(chat, x) \/ \E a : chat' = [chat EXCEPT ![a] = x]
  OBVIOUS
<1>1. CASE RunnerNext \/ UNCHANGED teamsVars
  BY <1>1 DEF RunnerNext, RunnerAsync, RunnerProgress, RunnerEnd, RunnerBreaks, teamsVars, user
<1>2. CASE ConnectorNext \/ Crash
  BY <1>2 DEF ConnectorNext, UpdateApplied, LateUpdate, InvokeApplied, RefreshRead, RefreshShown, Crash,
              user, Contents, TeamsTypes
<1>3. CASE PutAnswer \/ PostAnswer
  BY <1>3 DEF PutAnswer, PostAnswer, Post, TeamsFlow, Contents
<1>4. CASE PostCard
  BY <1>4 DEF PostCard, Post, Contents
<1>5. CASE CourierNext /\ ~PutAnswer /\ ~PostAnswer /\ ~PostCard
  BY <1>5 DEF CourierNext, OpenProgress, StartTurn, StartFails, StoreCard, ProgressEvent, Flush,
              UpdateEnds, WindowPasses, Ending, StreamEnds, Settle, NoCardToPut,
              MarkDelivered, Revalidate, Drive, StoredOutcome, user
<1> QED BY <1>1, <1>2, <1>3, <1>4, <1>5 DEF TeamsNext

\* Lemma: the chat stays a sequence of contents; what is delivered is an ending.
LEMMA ChatStep == TeamsTypes /\ TeamsFlow /\ [TeamsNext]_teamsVars => ChatType'
<1> SUFFICES ASSUME TeamsTypes, TeamsFlow, [TeamsNext]_teamsVars PROVE ChatType'
  OBVIOUS
<1>1. chat \in Seq(Contents)
  BY DEF TeamsTypes, ChatType
<1>2. ASSUME NEW x \in Contents PROVE Append(chat, x) \in Seq(Contents)
  BY <1>1, AppendProperties
<1>3. ASSUME NEW x \in Contents, NEW a PROVE [chat EXCEPT ![a] = x] \in Seq(Contents)
  <2>1. CASE a \in 1..Len(chat)
    BY <1>1, <2>1, ExceptSeq
  <2>2. CASE a \notin 1..Len(chat)
    <3>1. [chat EXCEPT ![a] = x] = chat
      BY <1>1, <2>2
    <3> QED BY <1>1, <3>1
  <2> QED BY <2>1, <2>2
<1> QED BY <1>1, <1>2, <1>3, ChatMoves DEF ChatType

\* Lemma: the courier keeps its type.
LEMMA CourierStep == TeamsTypes /\ [TeamsNext]_teamsVars => CourierType'
<1> SUFFICES ASSUME TeamsTypes, [TeamsNext]_teamsVars PROVE CourierType'
  OBVIOUS
<1> USE DEF user, bounds, TeamsTypes, RecordType, CourierType, Points, Endings, None
<1>1. CASE UNCHANGED teamsVars
  BY <1>1 DEF teamsVars
<1>2. CASE RunnerAsync
  BY <1>2 DEF RunnerAsync, Broadcast
<1>3. CASE RunnerProgress
  BY <1>3 DEF RunnerProgress, Broadcast
<1>4. ASSUME NEW o \in Endings, RunnerEnd(o) PROVE CourierType'
  BY <1>4 DEF RunnerEnd, Broadcast
<1>5. CASE RunnerBreaks
  BY <1>5 DEF RunnerBreaks, Fault
<1>6. CASE UpdateApplied
  BY <1>6 DEF UpdateApplied
<1>7. CASE LateUpdate
  BY <1>7 DEF LateUpdate
<1>8. CASE InvokeApplied
  BY <1>8 DEF InvokeApplied
<1>9. CASE RefreshRead
  BY <1>9 DEF RefreshRead
<1>10. CASE RefreshShown
  BY <1>10 DEF RefreshShown
<1>11. CASE OpenProgress
  BY <1>11 DEF OpenProgress, Fault, NoFault
<1>12. CASE StartTurn
  BY <1>12 DEF StartTurn, NoRow
<1>13. CASE StartFails
  BY <1>13 DEF StartFails, Fault
<1>14. CASE PostCard
  BY <1>14 DEF PostCard, Read, Post, Fault, NoFault
<1>15. CASE StoreCard
  <2>1. Len(chat) \in Nat
    BY DEF TeamsTypes, ChatType
  <2>2. w' = [w EXCEPT !.pc = "loop", !.card = Len(chat)]
    BY <1>15 DEF StoreCard
  <2> QED BY <2>1, <2>2 DEF TeamsTypes, CourierType, Points
<1>16. CASE ProgressEvent
  BY <1>16 DEF ProgressEvent, Read, Update
<1>17. CASE Flush
  BY <1>17 DEF Flush, Update
<1>18. CASE UpdateEnds
  BY <1>18 DEF UpdateEnds, Fault, NoFault
<1>19. CASE WindowPasses
  BY <1>19 DEF WindowPasses
<1>20. ASSUME NEW o \in Endings, Ending(o) PROVE CourierType'
  BY <1>20 DEF Ending, Read
<1>21. CASE StreamEnds
  BY <1>21 DEF StreamEnds
<1>22. CASE Settle
  BY <1>22 DEF Settle, Fault, NoFault
<1>23. CASE PutAnswer
  <2>1. \/ \E q \in {"mark", "done", "post"} : w' = [w EXCEPT !.pc = q]
        \/ w' = [w EXCEPT !.tries = @ + 1, !.pc = IF w.tries = 1 THEN "post" ELSE @]
    BY <1>23 DEF PutAnswer, Delivered
  <2>2. CASE \E q \in {"mark", "done", "post"} : w' = [w EXCEPT !.pc = q]
    BY <2>2 DEF TeamsTypes, CourierType, Points
  <2>3. CASE w' = [w EXCEPT !.tries = @ + 1, !.pc = IF w.tries = 1 THEN "post" ELSE @]
    <3> DEFINE n == w.tries + 1
               q == IF w.tries = 1 THEN "post" ELSE w.pc
    <3>1. n \in Nat /\ q \in Points
      BY DEF TeamsTypes, CourierType, Points
    <3>2. w' = [w EXCEPT !.tries = n, !.pc = q]
      BY <2>3
    <3> HIDE DEF n, q
    <3> QED BY <3>1, <3>2 DEF TeamsTypes, CourierType
  <2> QED BY <2>1, <2>2, <2>3
<1>24. CASE NoCardToPut
  BY <1>24 DEF NoCardToPut
<1>25. CASE PostAnswer
  BY <1>25 DEF PostAnswer, Delivered, Show, Post, Fault, NoFault
<1>26. CASE MarkDelivered
  BY <1>26 DEF MarkDelivered, Fault, NoFault
<1>27. CASE Revalidate
  BY <1>27 DEF Revalidate
<1>28. CASE Drive
  BY <1>28 DEF Drive
<1>29. CASE StoredOutcome
  BY <1>29 DEF StoredOutcome
<1>30. CASE Crash
  BY <1>30 DEF Crash, Courier
<1> QED BY <1>1, <1>2, <1>3, <1>4, <1>5, <1>6, <1>7, <1>8, <1>9, <1>10, <1>11, <1>12, <1>13, <1>14,
           <1>15, <1>16, <1>17, <1>18, <1>19, <1>20, <1>21, <1>22, <1>23, <1>24, <1>25, <1>26, <1>27,
           <1>28, <1>29, <1>30 DEF TeamsNext, RunnerNext, ConnectorNext, CourierNext

\* Lemma: every step keeps the runner, the record and the courier in step.
LEMMA TeamsFlowStep == TeamsTypes /\ TeamsFlow /\ [TeamsNext]_teamsVars => TeamsFlow'
<1> SUFFICES ASSUME TeamsTypes, TeamsFlow, [TeamsNext]_teamsVars PROVE TeamsFlow'
  OBVIOUS
<1> USE DEF user, bounds, TeamsTypes, RecordType, CourierType, FeedType, TeamsFlow, Points, Endings, None
<1>1. CASE UNCHANGED teamsVars
  BY <1>1 DEF teamsVars
<1>2. CASE RunnerAsync
  BY <1>2 DEF RunnerAsync, Broadcast
<1>3. CASE RunnerProgress
  BY <1>3 DEF RunnerProgress, Broadcast
<1>4. ASSUME NEW o \in Endings, RunnerEnd(o) PROVE TeamsFlow'
  BY <1>4 DEF RunnerEnd, Broadcast
<1>5. CASE RunnerBreaks
  BY <1>5 DEF RunnerBreaks, Fault
<1>6. CASE UpdateApplied
  BY <1>6 DEF UpdateApplied
<1>7. CASE LateUpdate
  BY <1>7 DEF LateUpdate
<1>8. CASE InvokeApplied
  BY <1>8 DEF InvokeApplied
<1>9. CASE RefreshRead
  BY <1>9 DEF RefreshRead
<1>10. CASE RefreshShown
  BY <1>10 DEF RefreshShown
<1>11. CASE OpenProgress
  BY <1>11 DEF OpenProgress, Fault, NoFault
<1>12. CASE StartTurn
  BY <1>12 DEF StartTurn, NoRow
<1>13. CASE StartFails
  BY <1>13 DEF StartFails, Fault
<1>14. CASE PostCard
  <2>1. feed # <<>> /\ feed \in Seq({"task", "progress"} \cup Endings) /\ feed' = Tail(feed)
    BY <1>14 DEF PostCard, Read, TeamsTypes, FeedType
  <2>2. \A i \in 1..Len(feed') : i + 1 \in 1..Len(feed) /\ feed'[i] = feed[i + 1]
    BY <2>1
  <2>3. /\ UNCHANGED <<turn, rec, run, broken>> /\ w.pc = "loop" /\ w'.pc \in {"loop", "posted"}
        /\ w'.outcome = w.outcome
    BY <1>14 DEF PostCard, Read, TeamsTypes, CourierType
  <2> QED BY <2>1, <2>2, <2>3 DEF TeamsFlow
<1>15. CASE StoreCard
  BY <1>15 DEF StoreCard
<1>16. CASE ProgressEvent
  <2>1. feed # <<>> /\ feed \in Seq({"task", "progress"} \cup Endings) /\ feed' = Tail(feed)
    BY <1>16 DEF ProgressEvent, Read, TeamsTypes, FeedType
  <2>2. \A i \in 1..Len(feed') : i + 1 \in 1..Len(feed) /\ feed'[i] = feed[i + 1]
    BY <2>1
  <2>3. /\ UNCHANGED <<turn, rec, run, broken>> /\ w.pc = "loop" /\ w'.pc = "loop"
        /\ w'.outcome = w.outcome
    BY <1>16 DEF ProgressEvent, Update, Read, TeamsTypes, CourierType
  <2> QED BY <2>1, <2>2, <2>3 DEF TeamsFlow
<1>17. CASE Flush
  BY <1>17 DEF Flush, Update
<1>18. CASE UpdateEnds
  BY <1>18 DEF UpdateEnds, Fault, NoFault
<1>19. CASE WindowPasses
  BY <1>19 DEF WindowPasses
<1>20. ASSUME NEW o \in Endings, Ending(o) PROVE TeamsFlow'
  <2>1. feed # <<>> /\ feed \in Seq({"task", "progress"} \cup Endings) /\ feed' = Tail(feed)
    BY <1>20 DEF Ending, Read, TeamsTypes, FeedType
  <2>2. \A i \in 1..Len(feed') : i + 1 \in 1..Len(feed) /\ feed'[i] = feed[i + 1]
    BY <2>1
  <2>3. /\ UNCHANGED <<turn, rec, run, broken>> /\ w.pc = "loop" /\ w'.pc = "settle" /\ w'.outcome = o
    BY <1>20 DEF Ending, Read, TeamsTypes, CourierType
  <2>4. 1 \in 1..Len(feed) /\ feed[1] = o
    BY <1>20, <2>1 DEF Ending, Read
  <2>5. run = "over" /\ rec.state \in {"none", o}
    BY <1>20, <2>4 DEF TeamsFlow
  <2> QED BY <1>20, <2>1, <2>2, <2>3, <2>5 DEF TeamsFlow, Endings
<1>21. CASE StreamEnds
  BY <1>21 DEF StreamEnds
<1>22. CASE Settle
  BY <1>22 DEF Settle, Fault, NoFault
<1>23. CASE PutAnswer
  BY <1>23 DEF PutAnswer, Delivered, Show, Fault, NoFault
<1>24. CASE NoCardToPut
  BY <1>24 DEF NoCardToPut
<1>25. CASE PostAnswer
  BY <1>25 DEF PostAnswer, Delivered, Show, Post, Fault, NoFault
<1>26. CASE MarkDelivered
  BY <1>26 DEF MarkDelivered, Fault, NoFault
<1>27. CASE Revalidate
  BY <1>27 DEF Revalidate
<1>28. CASE Drive
  BY <1>28 DEF Drive
<1>29. CASE StoredOutcome
  BY <1>29 DEF StoredOutcome
<1>30. CASE Crash
  BY <1>30 DEF Crash, Courier
<1> QED BY <1>1, <1>2, <1>3, <1>4, <1>5, <1>6, <1>7, <1>8, <1>9, <1>10, <1>11, <1>12, <1>13, <1>14,
           <1>15, <1>16, <1>17, <1>18, <1>19, <1>20, <1>21, <1>22, <1>23, <1>24, <1>25, <1>26, <1>27,
           <1>28, <1>29, <1>30 DEF TeamsNext, RunnerNext, ConnectorNext, CourierNext

\* Lemma: every step keeps what was shown in step with them.
LEMMA TeamsSeenStep == TeamsTypes /\ TeamsFlow /\ TeamsSeen /\ [TeamsNext]_teamsVars => TeamsSeen'
<1> SUFFICES ASSUME TeamsTypes, TeamsFlow, TeamsSeen, [TeamsNext]_teamsVars PROVE TeamsSeen'
  OBVIOUS
<1> USE DEF user, bounds, TeamsTypes, RecordType, CourierType, TeamsFlow, TeamsSeen, Points, Endings, None
<1>1. CASE UNCHANGED teamsVars
  BY <1>1 DEF teamsVars
<1>2. CASE RunnerAsync
  BY <1>2 DEF RunnerAsync, Broadcast
<1>3. CASE RunnerProgress
  BY <1>3 DEF RunnerProgress, Broadcast
<1>4. ASSUME NEW o \in Endings, RunnerEnd(o) PROVE TeamsSeen'
  BY <1>4 DEF RunnerEnd, Broadcast
<1>5. CASE RunnerBreaks
  BY <1>5 DEF RunnerBreaks, Fault
<1>6. CASE UpdateApplied
  BY <1>6 DEF UpdateApplied
<1>7. CASE LateUpdate
  BY <1>7 DEF LateUpdate
<1>8. CASE InvokeApplied
  BY <1>8 DEF InvokeApplied
<1>9. CASE RefreshRead
  BY <1>9 DEF RefreshRead
<1>10. CASE RefreshShown
  BY <1>10 DEF RefreshShown
<1>11. CASE OpenProgress
  BY <1>11 DEF OpenProgress, Fault, NoFault
<1>12. CASE StartTurn
  BY <1>12 DEF StartTurn, NoRow
<1>13. CASE StartFails
  BY <1>13 DEF StartFails, Fault
<1>14. CASE PostCard
  BY <1>14 DEF PostCard, Read, Post, Fault, NoFault
<1>15. CASE StoreCard
  BY <1>15 DEF StoreCard
<1>16. CASE ProgressEvent
  BY <1>16 DEF ProgressEvent, Read, Update
<1>17. CASE Flush
  BY <1>17 DEF Flush, Update
<1>18. CASE UpdateEnds
  BY <1>18 DEF UpdateEnds, Fault, NoFault
<1>19. CASE WindowPasses
  BY <1>19 DEF WindowPasses
<1>20. ASSUME NEW o \in Endings, Ending(o) PROVE TeamsSeen'
  BY <1>20 DEF Ending, Read
<1>21. CASE StreamEnds
  BY <1>21 DEF StreamEnds
<1>22. CASE Settle
  <2>1. /\ w.pc = "settle" /\ put' = "none" /\ UNCHANGED <<rec, invoke, shown, broken>>
        /\ w'.pc = (IF w.outcome = "-" THEN "stored" ELSE "deliver") /\ w'.settled = w.settled
        /\ w'.role = w.role /\ w'.outcome = w.outcome
    BY <1>22 DEF Settle, user, TeamsTypes, CourierType
  <2>2. w.role = "live" => w.outcome # "-"
    BY <2>1 DEF TeamsFlow, Endings
  <2> QED BY <2>1, <2>2 DEF TeamsSeen
<1>23. CASE PutAnswer
  <2>1. /\ w.pc = "deliver" /\ w.settled /\ UNCHANGED <<rec, put, invoke, broken>> /\ w'.role = w.role
        /\ w'.settled = w.settled /\ w'.outcome = w.outcome
        /\ w'.pc \in {"deliver", "mark", "done", "post"}
        /\ w'.pc = "mark" => Show(w.card)
        /\ shown' = shown \/ Show(w.card)
    BY <1>23 DEF PutAnswer, Delivered, TeamsTypes, CourierType
  <2>2. w.outcome \in Endings
    BY <2>1 DEF TeamsFlow
  <2>3. ASSUME Show(w.card) PROVE \E p \in shown' : p[2] = w.outcome
    <3>1. <<w.card, w.outcome>> \in shown'
      BY <2>3 DEF Show
    <3> QED BY <3>1
  <2>4. rec.state = "running" => broken
    BY <2>2 DEF TeamsFlow, Endings
  <2>5. \A p \in shown' : p[2] \in Endings
    <3>1. <<w.card, w.outcome>>[2] = w.outcome
      OBVIOUS
    <3> QED BY <2>1, <2>2, <3>1 DEF TeamsSeen, Show
  <2> QED BY <2>1, <2>3, <2>4, <2>5 DEF TeamsSeen
<1>24. CASE NoCardToPut
  BY <1>24 DEF NoCardToPut
<1>25. CASE PostAnswer
  <2>1. /\ w.pc \in {"post", "plain"} /\ UNCHANGED <<rec, put, invoke, broken>> /\ w'.role = w.role
        /\ w'.settled = w.settled /\ w'.outcome = w.outcome
        /\ w'.pc \in {"plain", "lost", "mark", "done"}
        /\ w'.pc = "mark" => Show(Len(chat) + 1)
        /\ shown' = shown \/ Show(Len(chat) + 1)
    BY <1>25 DEF PostAnswer, Delivered, TeamsTypes, CourierType
  <2>2. w.outcome \in Endings
    BY <2>1 DEF TeamsFlow
  <2>3. ASSUME Show(Len(chat) + 1) PROVE \E p \in shown' : p[2] = w.outcome
    <3>1. <<Len(chat) + 1, w.outcome>> \in shown'
      BY <2>3 DEF Show
    <3> QED BY <3>1
  <2>4. rec.state = "running" => broken
    BY <2>2 DEF TeamsFlow, Endings
  <2>5. \A p \in shown' : p[2] \in Endings
    <3>1. <<Len(chat) + 1, w.outcome>>[2] = w.outcome
      OBVIOUS
    <3> QED BY <2>1, <2>2, <3>1 DEF TeamsSeen, Show
  <2> QED BY <2>1, <2>3, <2>4, <2>5 DEF TeamsSeen
<1>26. CASE MarkDelivered
  BY <1>26 DEF MarkDelivered, Fault, NoFault
<1>27. CASE Revalidate
  BY <1>27 DEF Revalidate
<1>28. CASE Drive
  BY <1>28 DEF Drive
<1>29. CASE StoredOutcome
  BY <1>29 DEF StoredOutcome
<1>30. CASE Crash
  BY <1>30 DEF Crash, Courier
<1> QED BY <1>1, <1>2, <1>3, <1>4, <1>5, <1>6, <1>7, <1>8, <1>9, <1>10, <1>11, <1>12, <1>13, <1>14,
           <1>15, <1>16, <1>17, <1>18, <1>19, <1>20, <1>21, <1>22, <1>23, <1>24, <1>25, <1>26, <1>27,
           <1>28, <1>29, <1>30 DEF TeamsNext, RunnerNext, ConnectorNext, CourierNext

\* Lemma: every step keeps DeliveredIsSeen.
LEMMA DeliveredStep == TeamsInv /\ [TeamsNext]_teamsVars => DeliveredIsSeen'
<1> SUFFICES ASSUME TeamsInv, [TeamsNext]_teamsVars PROVE DeliveredIsSeen'
  OBVIOUS
<1> USE DEF user, bounds, DeliveredIsSeen, TeamsTypes, RecordType, CourierType, TeamsFlow, TeamsSeen, Endings, None, TeamsInv
<1>1. CASE UNCHANGED teamsVars
  BY <1>1 DEF teamsVars
<1>2. CASE RunnerAsync
  BY <1>2 DEF RunnerAsync, Broadcast
<1>3. CASE RunnerProgress
  BY <1>3 DEF RunnerProgress, Broadcast
<1>4. ASSUME NEW o \in Endings, RunnerEnd(o) PROVE DeliveredIsSeen'
  BY <1>4 DEF RunnerEnd, Broadcast
<1>5. CASE RunnerBreaks
  BY <1>5 DEF RunnerBreaks, Fault
<1>6. CASE UpdateApplied
  BY <1>6 DEF UpdateApplied
<1>7. CASE LateUpdate
  BY <1>7 DEF LateUpdate
<1>8. CASE InvokeApplied
  BY <1>8 DEF InvokeApplied
<1>9. CASE RefreshRead
  BY <1>9 DEF RefreshRead
<1>10. CASE RefreshShown
  BY <1>10 DEF RefreshShown
<1>11. CASE OpenProgress
  BY <1>11 DEF OpenProgress, Fault, NoFault
<1>12. CASE StartTurn
  BY <1>12 DEF StartTurn, NoRow
<1>13. CASE StartFails
  BY <1>13 DEF StartFails, Fault
<1>14. CASE PostCard
  BY <1>14 DEF PostCard, Read, Post, Fault, NoFault
<1>15. CASE StoreCard
  BY <1>15 DEF StoreCard
<1>16. CASE ProgressEvent
  BY <1>16 DEF ProgressEvent, Read, Update
<1>17. CASE Flush
  BY <1>17 DEF Flush, Update
<1>18. CASE UpdateEnds
  BY <1>18 DEF UpdateEnds, Fault, NoFault
<1>19. CASE WindowPasses
  BY <1>19 DEF WindowPasses
<1>20. ASSUME NEW o \in Endings, Ending(o) PROVE DeliveredIsSeen'
  BY <1>20 DEF Ending, Read
<1>21. CASE StreamEnds
  BY <1>21 DEF StreamEnds
<1>22. CASE Settle
  BY <1>22 DEF Settle, Fault, NoFault
<1>23. CASE PutAnswer
  BY <1>23 DEF PutAnswer, Delivered, Show, Fault, NoFault
<1>24. CASE NoCardToPut
  BY <1>24 DEF NoCardToPut
<1>25. CASE PostAnswer
  BY <1>25 DEF PostAnswer, Delivered, Show, Post, Fault, NoFault
<1>26. CASE MarkDelivered
  BY <1>26 DEF MarkDelivered, Fault, NoFault
<1>27. CASE Revalidate
  BY <1>27 DEF Revalidate
<1>28. CASE Drive
  BY <1>28 DEF Drive
<1>29. CASE StoredOutcome
  BY <1>29 DEF StoredOutcome
<1>30. CASE Crash
  BY <1>30 DEF Crash, Courier
<1> QED BY <1>1, <1>2, <1>3, <1>4, <1>5, <1>6, <1>7, <1>8, <1>9, <1>10, <1>11, <1>12, <1>13, <1>14,
           <1>15, <1>16, <1>17, <1>18, <1>19, <1>20, <1>21, <1>22, <1>23, <1>24, <1>25, <1>26, <1>27,
           <1>28, <1>29, <1>30 DEF TeamsNext, RunnerNext, ConnectorNext, CourierNext

\* A step shows nothing new and keeps a closing delivery closed, or pays for it
\* with a doubt; or it shows the answer, closing or paying.
CountMoves ==
    \/ /\ shown' = shown /\ doubts' \in {doubts, doubts + 1}
       /\ Closing => Closing' \/ doubts' = doubts + 1
    \/ /\ \E a : Show(a)
       /\ ~Closing /\ (doubts' = doubts + 1 \/ (doubts' = doubts /\ Closing'))

\* Lemma: such a step keeps the count of the activities.
LEMMA CountStep ==
    ASSUME CountMoves, TeamsCount, doubts \in Nat PROVE TeamsCount'
<1>1. IsFiniteSet(Places) /\ Cardinality(Places) \in Nat /\ Cardinality(Places) <= doubts + Owed
  BY FS_CardinalityType DEF TeamsCount
<1>2. Owed \in Nat /\ Owed <= 1 /\ (~Closing => Owed = 0)
  BY DEF Owed
<1>3. Owed' \in Nat /\ Owed' <= 1 /\ (Closing' => Owed' = 1)
  BY DEF Owed
<1>4. CASE shown' = shown /\ doubts' \in {doubts, doubts + 1} /\ (Closing => Closing' \/ doubts' = doubts + 1)
  <2>1. Places' = Places
    BY <1>4 DEF Places
  <2>2. doubts' = doubts + 1 \/ (doubts' = doubts /\ Owed <= Owed')
    <3>1. CASE Closing
      BY <1>2, <1>3, <1>4, <3>1
    <3>2. CASE ~Closing
      BY <1>2, <1>3, <1>4, <3>2
    <3> QED BY <3>1, <3>2
  <2>3. Cardinality(Places) <= doubts' + Owed'
    BY <1>1, <1>2, <1>3, <2>2
  <2> QED BY <1>1, <2>1, <2>3 DEF TeamsCount
<1>5. CASE (\E a : Show(a)) /\ ~Closing /\ (doubts' = doubts + 1 \/ (doubts' = doubts /\ Closing'))
  <2>1. PICK a : Show(a)
    BY <1>5
  <2>2. Places' = Places \cup {a}
    <3>1. shown' = shown \cup {<<a, w.outcome>>}
      BY <2>1 DEF Show
    <3>2. <<a, w.outcome>>[1] = a
      OBVIOUS
    <3> QED BY <3>1, <3>2 DEF Places
  <2>3. IsFiniteSet(Places') /\ Cardinality(Places') \in {Cardinality(Places), Cardinality(Places) + 1}
    BY <1>1, <2>2, FS_AddElement
  <2>4. Owed = 0 /\ (doubts' = doubts + 1 \/ (doubts' = doubts /\ Owed' = 1))
    BY <1>2, <1>3, <1>5
  <2>5. Cardinality(Places') <= doubts' + Owed'
    BY <1>1, <1>3, <2>3, <2>4
  <2> QED BY <2>3, <2>5 DEF TeamsCount
<1> QED BY <1>4, <1>5 DEF CountMoves

\* Lemma: the stored record keeps its type.
LEMMA RecordStep == TeamsTypes /\ [TeamsNext]_teamsVars => RecordType'
<1> SUFFICES ASSUME TeamsTypes, [TeamsNext]_teamsVars PROVE RecordType'
  OBVIOUS
<1> USE DEF user, bounds, TeamsTypes, RecordType, CourierType, ChatType, Endings, None
<1>1. CASE UNCHANGED teamsVars
  BY <1>1 DEF teamsVars
<1>2. CASE RunnerAsync
  BY <1>2 DEF RunnerAsync, Broadcast
<1>3. CASE RunnerProgress
  BY <1>3 DEF RunnerProgress, Broadcast
<1>4. ASSUME NEW o \in Endings, RunnerEnd(o) PROVE RecordType'
  BY <1>4 DEF RunnerEnd, Broadcast
<1>5. CASE RunnerBreaks
  BY <1>5 DEF RunnerBreaks, Fault
<1>6. CASE UpdateApplied
  BY <1>6 DEF UpdateApplied
<1>7. CASE LateUpdate
  BY <1>7 DEF LateUpdate
<1>8. CASE InvokeApplied
  BY <1>8 DEF InvokeApplied
<1>9. CASE RefreshRead
  BY <1>9 DEF RefreshRead
<1>10. CASE RefreshShown
  BY <1>10 DEF RefreshShown
<1>11. CASE OpenProgress
  BY <1>11 DEF OpenProgress, Fault, NoFault
<1>12. CASE StartTurn
  BY <1>12 DEF StartTurn, NoRow
<1>13. CASE StartFails
  BY <1>13 DEF StartFails, Fault
<1>14. CASE PostCard
  BY <1>14 DEF PostCard, Read, Post, Fault, NoFault
<1>15. CASE StoreCard
  BY <1>15 DEF StoreCard
<1>16. CASE ProgressEvent
  BY <1>16 DEF ProgressEvent, Read, Update
<1>17. CASE Flush
  BY <1>17 DEF Flush, Update
<1>18. CASE UpdateEnds
  BY <1>18 DEF UpdateEnds, Fault, NoFault
<1>19. CASE WindowPasses
  BY <1>19 DEF WindowPasses
<1>20. ASSUME NEW o \in Endings, Ending(o) PROVE RecordType'
  BY <1>20 DEF Ending, Read
<1>21. CASE StreamEnds
  BY <1>21 DEF StreamEnds
<1>22. CASE Settle
  BY <1>22 DEF Settle, Fault, NoFault
<1>23. CASE PutAnswer
  BY <1>23 DEF PutAnswer, Delivered, Show, Fault, NoFault
<1>24. CASE NoCardToPut
  BY <1>24 DEF NoCardToPut
<1>25. CASE PostAnswer
  BY <1>25 DEF PostAnswer, Delivered, Show, Post, Fault, NoFault
<1>26. CASE MarkDelivered
  BY <1>26 DEF MarkDelivered, Fault, NoFault
<1>27. CASE Revalidate
  BY <1>27 DEF Revalidate
<1>28. CASE Drive
  BY <1>28 DEF Drive
<1>29. CASE StoredOutcome
  BY <1>29 DEF StoredOutcome
<1>30. CASE Crash
  BY <1>30 DEF Crash, Courier
<1> QED BY <1>1, <1>2, <1>3, <1>4, <1>5, <1>6, <1>7, <1>8, <1>9, <1>10, <1>11, <1>12, <1>13, <1>14,
           <1>15, <1>16, <1>17, <1>18, <1>19, <1>20, <1>21, <1>22, <1>23, <1>24, <1>25, <1>26, <1>27,
           <1>28, <1>29, <1>30 DEF TeamsNext, RunnerNext, ConnectorNext, CourierNext

\* Lemma: every step is of one of those two kinds.
LEMMA CountMovesStep == TeamsInv /\ [TeamsNext]_teamsVars => CountMoves
<1> SUFFICES ASSUME TeamsInv, [TeamsNext]_teamsVars PROVE CountMoves
  OBVIOUS
<1> USE DEF user, bounds, CountMoves, Closing, TeamsInv, TeamsTypes, RecordType, CourierType, TeamsFlow, TeamsSeen, Endings, None
<1>1. CASE UNCHANGED teamsVars
  BY <1>1 DEF teamsVars
<1>2. CASE RunnerAsync
  BY <1>2 DEF RunnerAsync, Broadcast
<1>3. CASE RunnerProgress
  BY <1>3 DEF RunnerProgress, Broadcast
<1>4. ASSUME NEW o \in Endings, RunnerEnd(o) PROVE CountMoves
  BY <1>4 DEF RunnerEnd, Broadcast
<1>5. CASE RunnerBreaks
  BY <1>5 DEF RunnerBreaks, Fault
<1>6. CASE UpdateApplied
  BY <1>6 DEF UpdateApplied
<1>7. CASE LateUpdate
  BY <1>7 DEF LateUpdate
<1>8. CASE InvokeApplied
  BY <1>8 DEF InvokeApplied
<1>9. CASE RefreshRead
  BY <1>9 DEF RefreshRead
<1>10. CASE RefreshShown
  BY <1>10 DEF RefreshShown
<1>11. CASE OpenProgress
  BY <1>11 DEF OpenProgress, Fault, NoFault
<1>12. CASE StartTurn
  BY <1>12 DEF StartTurn, NoRow
<1>13. CASE StartFails
  BY <1>13 DEF StartFails, Fault
<1>14. CASE PostCard
  BY <1>14 DEF PostCard, Read, Post, Fault, NoFault
<1>15. CASE StoreCard
  BY <1>15 DEF StoreCard
<1>16. CASE ProgressEvent
  BY <1>16 DEF ProgressEvent, Read, Update
<1>17. CASE Flush
  BY <1>17 DEF Flush, Update
<1>18. CASE UpdateEnds
  BY <1>18 DEF UpdateEnds, Fault, NoFault
<1>19. CASE WindowPasses
  BY <1>19 DEF WindowPasses
<1>20. ASSUME NEW o \in Endings, Ending(o) PROVE CountMoves
  BY <1>20 DEF Ending, Read
<1>21. CASE StreamEnds
  BY <1>21 DEF StreamEnds
<1>22. CASE Settle
  BY <1>22 DEF Settle, Fault, NoFault
<1>23. CASE PutAnswer
  BY <1>23 DEF PutAnswer, Delivered, Show, Fault, NoFault
<1>24. CASE NoCardToPut
  BY <1>24 DEF NoCardToPut
<1>25. CASE PostAnswer
  BY <1>25 DEF PostAnswer, Delivered, Show, Post, Fault, NoFault
<1>26. CASE MarkDelivered
  BY <1>26 DEF MarkDelivered, Fault, NoFault
<1>27. CASE Revalidate
  BY <1>27 DEF Revalidate
<1>28. CASE Drive
  BY <1>28 DEF Drive
<1>29. CASE StoredOutcome
  BY <1>29 DEF StoredOutcome
<1>30. CASE Crash
  BY <1>30 DEF Crash, Courier
<1> QED BY <1>1, <1>2, <1>3, <1>4, <1>5, <1>6, <1>7, <1>8, <1>9, <1>10, <1>11, <1>12, <1>13, <1>14,
           <1>15, <1>16, <1>17, <1>18, <1>19, <1>20, <1>21, <1>22, <1>23, <1>24, <1>25, <1>26, <1>27,
           <1>28, <1>29, <1>30 DEF TeamsNext, RunnerNext, ConnectorNext, CourierNext

\* AnswerStays, of one step.
Stays == \A a \in DOMAIN chat :
           <<a, chat[a]>> \in shown /\ chat'[a] = "working"
           => a \in late \/ refresh = "working" \/ broken

\* Lemma: a step turns an activity that shows an ending into a working card only
\* for one of the reasons that AnswerStays allows.
LEMMA StaysStep == TeamsInv /\ [TeamsNext]_teamsVars => Stays
<1> SUFFICES ASSUME TeamsInv, [TeamsNext]_teamsVars, NEW a \in DOMAIN chat,
                    <<a, chat[a]>> \in shown, chat'[a] = "working",
                    a \notin late, refresh # "working", ~broken
             PROVE  FALSE
  BY DEF Stays
<1> USE DEF TeamsInv
<1>1. chat \in Seq(Contents) /\ a \in 1..Len(chat) /\ DOMAIN chat = 1..Len(chat)
  BY DEF TeamsTypes, ChatType
<1>2. chat[a] \in Endings
  <2>1. <<a, chat[a]>>[2] \in Endings
    BY DEF TeamsSeen
  <2> QED BY <2>1
<1>3. chat[a] # "working" /\ shown # {}
  BY <1>2 DEF Endings
<1>4. chat'[a] # chat[a]
  BY <1>3
<1>5. ASSUME NEW x, chat' = Append(chat, x) PROVE FALSE
  BY <1>1, <1>4, <1>5, AppendProperties
<1>6. CASE RunnerNext \/ UNCHANGED teamsVars
  BY <1>4, <1>6 DEF RunnerNext, RunnerAsync, RunnerProgress, RunnerEnd, RunnerBreaks, teamsVars, user
<1>7. CASE UpdateApplied
  BY <1>3, <1>7 DEF UpdateApplied, TeamsSeen
<1>8. CASE LateUpdate
  BY <1>4, <1>8 DEF LateUpdate
<1>9. CASE InvokeApplied \/ Crash
  BY <1>3, <1>4, <1>9 DEF InvokeApplied, Crash, TeamsSeen
<1>10. CASE RefreshRead \/ RefreshShown
  <2>1. chat' = chat \/ chat'[a] = chat[a] \/ chat'[a] = refresh
    BY <1>10 DEF RefreshRead, RefreshShown
  <2> QED BY <1>4, <2>1
<1>11. CASE PostCard \/ PostAnswer
  BY <1>4, <1>5, <1>11 DEF PostCard, PostAnswer, Post
<1>12. CASE PutAnswer
  <2>1. w.outcome \in Endings
    BY <1>12 DEF PutAnswer, TeamsFlow
  <2>2. chat'[a] = chat[a] \/ chat'[a] = w.outcome
    BY <1>12 DEF PutAnswer
  <2> QED BY <1>4, <2>1, <2>2 DEF Endings
<1>13. CASE CourierNext /\ ~PutAnswer /\ ~PostAnswer /\ ~PostCard
  <2>1. chat' = chat
    BY <1>13 DEF CourierNext, OpenProgress, StartTurn, StartFails, StoreCard, ProgressEvent, Flush,
              UpdateEnds, WindowPasses, Ending, StreamEnds, Settle, NoCardToPut,
              MarkDelivered, Revalidate, Drive, StoredOutcome, user
  <2> QED BY <1>4, <2>1
<1> QED BY <1>6, <1>7, <1>8, <1>9, <1>10, <1>11, <1>12, <1>13 DEF TeamsNext, ConnectorNext

\* Lemma: the other variables keep their types.
LEMMA RestStep ==
    TeamsTypes /\ [TeamsNext]_teamsVars => /\ turn' = turn /\ run' \in {"off", "live", "over"}
                                           /\ refresh' \in {"-", "working"} \cup Endings
<1> SUFFICES ASSUME TeamsTypes, [TeamsNext]_teamsVars
             PROVE  /\ turn' = turn /\ run' \in {"off", "live", "over"}
                    /\ refresh' \in {"-", "working"} \cup Endings
  OBVIOUS
<1> USE DEF TeamsTypes, user
<1>1. CASE RunnerNext
  BY <1>1 DEF RunnerNext, RunnerAsync, RunnerProgress, RunnerEnd, RunnerBreaks
<1>2. CASE ConnectorNext \/ Crash \/ UNCHANGED teamsVars
  BY <1>2 DEF ConnectorNext, UpdateApplied, LateUpdate, InvokeApplied, RefreshRead, RefreshShown, Crash,
     teamsVars
<1>3. CASE CourierNext
  BY <1>3 DEF CourierNext, OpenProgress, StartTurn, StartFails, PostCard, StoreCard, ProgressEvent, Flush,
              UpdateEnds, WindowPasses, Ending, StreamEnds, Settle, PutAnswer, NoCardToPut, PostAnswer,
              MarkDelivered, Revalidate, Drive, StoredOutcome
<1> QED BY <1>1, <1>2, <1>3 DEF TeamsNext

\* Lemma: a turn begins in the invariant.
LEMMA TeamsStart == TeamsInit => TeamsInv /\ TeamsCount
<1> SUFFICES ASSUME TeamsInit PROVE TeamsInv /\ TeamsCount
  OBVIOUS
<1> USE DEF TeamsInit
<1>1. /\ w.role = "live" /\ w.pc = "open" /\ w.outcome = "-" /\ w.settled = ~turn.inPlace
      /\ rec.state = "none" /\ rec.delivered = FALSE
  BY DEF Courier, NoRow
<1>2. TeamsTypes
  <2>1. RecordType
    BY DEF RecordType, NoRow, None
  <2>2. CourierType
    BY DEF CourierType, Courier, Points, None
  <2>3. FeedType
    BY DEF FeedType
  <2>4. ChatType
    <3>1. <<"clicked">> \in Seq(Contents) /\ <<>> \in Seq(Contents)
      BY DEF Contents
    <3> QED BY <3>1 DEF ChatType
  <2> QED BY <2>1, <2>2, <2>3, <2>4 DEF TeamsTypes
<1>3. TeamsFlow
  BY <1>1 DEF TeamsFlow, Endings
<1>4. TeamsSeen /\ DeliveredIsSeen
  BY <1>1 DEF TeamsSeen, DeliveredIsSeen, Endings
<1>5. TeamsCount
  <2>1. Places = {}
    BY DEF Places
  <2>2. IsFiniteSet({}) /\ Cardinality({}) = 0
    BY FS_EmptySet
  <2>3. Owed = 0
    BY <1>1 DEF Owed, Closing
  <2>4. Cardinality(Places) <= doubts + Owed
    BY <2>1, <2>2, <2>3
  <2> QED BY <2>1, <2>2, <2>4 DEF TeamsCount
<1> QED BY <1>2, <1>3, <1>4, <1>5 DEF TeamsInv

\* Lemma: every step of the Teams turn keeps it.
LEMMA TeamsKept == TeamsInv /\ TeamsCount /\ [TeamsNext]_teamsVars => TeamsInv' /\ TeamsCount'
<1> SUFFICES ASSUME TeamsInv, TeamsCount, [TeamsNext]_teamsVars PROVE TeamsInv' /\ TeamsCount'
  OBVIOUS
<1>1. TeamsTypes /\ TeamsFlow /\ TeamsSeen
  BY DEF TeamsInv
<1>2. doubts \in Nat
  BY <1>1 DEF TeamsTypes
<1>3. CountMoves
  BY CountMovesStep
<1>4. doubts' \in Nat
  BY <1>2, <1>3 DEF CountMoves
<1>5. TeamsTypes'
  BY <1>1, <1>4, RecordStep, CourierStep, FeedStep, ChatStep, RestStep DEF TeamsTypes
<1>6. TeamsFlow' /\ TeamsSeen'
  BY <1>1, TeamsFlowStep, TeamsSeenStep
<1>7. DeliveredIsSeen'
  BY DeliveredStep
<1>8. TeamsCount'
  BY <1>2, <1>3, CountStep
<1> QED BY <1>5, <1>6, <1>7, <1>8 DEF TeamsInv

(***************************************************************************)
(* Teams: the theorems.                                                    *)
(***************************************************************************)

\* Lemma: the invariant holds in every reachable state.
LEMMA TeamsHolds == Spec => [](TeamsInv /\ TeamsCount)
<1>1. Init => TeamsInv /\ TeamsCount
  BY TeamsStart DEF Init
<1>2. TeamsInv /\ TeamsCount /\ [Next]_vars => TeamsInv' /\ TeamsCount'
  <2>1. [Next]_vars => [TeamsNext]_teamsVars
    BY DEF Next, TeamsStep, GoogleStep, SignalStep, DiscordStep, TelegramStep, ProcessStep, A2aStep, vars
  <2> QED BY <2>1, TeamsKept
<1> QED BY <1>1, <1>2, PTL DEF Spec

\* A record marked delivered has been shown to the user, or the sweep refused its
\* target; and no other ending than the stored one is ever shown, across any
\* number of crashes, faults, lost events and resumed couriers, unless the
\* runner broke off.
THEOREM DeliveriesAreSeen == Spec => []DeliveredIsSeen
<1>1. TeamsInv => DeliveredIsSeen
  BY DEF TeamsInv
<1> QED BY <1>1, TeamsHolds, PTL

\* The answer appears in one activity; every further one is paid for by a
\* delivery whose success a courier could not learn, or could not store.
THEOREM OneAnswerPerTurn == Spec => []OneAnswer
<1>1. TeamsInv /\ TeamsCount => OneAnswer
  <2> SUFFICES ASSUME TeamsInv, TeamsCount PROVE OneAnswer
    OBVIOUS
  <2>1. doubts \in Nat
    BY DEF TeamsInv, TeamsTypes
  <2>2. Cardinality(Places) \in Nat /\ Cardinality(Places) <= doubts + Owed /\ Owed \in Nat /\ Owed <= 1
    BY FS_CardinalityType DEF TeamsCount, Owed
  <2>3. Cardinality(Places) <= 1 + doubts
    BY <2>1, <2>2
  <2> QED BY <2>3 DEF OneAnswer, Places
<1> QED BY <1>1, TeamsHolds, PTL

\* An answer that is shown is not turned back into a working card by the response
\* of the click, by an update in flight or by a restart: only by an update that
\* was given up, a refresh that read the record before, or after a broken runner.
THEOREM AnswersStay == Spec => AnswerStays
<1>1. TeamsInv /\ [Next]_vars => [Stays]_teamsVars
  <2>1. [Next]_vars => [TeamsNext]_teamsVars
    BY DEF Next, TeamsStep, GoogleStep, SignalStep, DiscordStep, TelegramStep, ProcessStep, A2aStep, vars
  <2> QED BY <2>1, StaysStep
<1>2. Spec => [][Stays]_teamsVars
  BY <1>1, TeamsHolds, PTL DEF Spec
<1> QED BY <1>2 DEF AnswerStays, Stays

(***************************************************************************)
(* Telegram forms.                                                         *)
(***************************************************************************)

Forms == [id : Nat \ {0}, tenant : FormTenants, step : Nat, args : Seq(Nat)]

FormsTypes ==
    /\ installed \in Nat /\ home \in [Users -> FormTenants]
    /\ forms \in [Users -> Forms \cup {NoForm}]

\* A form has an answer for every field it is past, and a submission for all.
FormsArgs ==
    /\ \A u \in Users : Active(u) => Len(forms[u].args) = forms[u].step /\ forms[u].step < FieldCount
    /\ \A x \in submits : Len(x.args) = FieldCount
    /\ submitted \subseteq {FieldCount}

\* No key stands in a queue twice.
Distinct(q) == \A i, j \in 1..Len(q) : q[i] = q[j] => i = j

\* While nobody changes tenant with a form active: a form is of its user's
\* tenant, and stands once in that tenant's queue.
FormsQueues ==
    /\ order \in [FormTenants -> Seq(Users)]
    /\ \A u \in Users : Active(u) => forms[u].tenant = home[u]
    /\ \A t \in FormTenants :
         /\ Distinct(order[t]) /\ Len(order[t]) <= FormCap
         /\ ToSet(order[t]) = FormsOf(t)
    /\ \A x \in evictions : x.of = x.by

FormsInv == FormsTypes /\ FormsArgs /\ (~moved => FormsQueues)

\* Lemma: what stands behind the front of a queue.
LEMMA QueueTail ==
    ASSUME NEW q \in Seq(Users), q # <<>>, Distinct(q)
    PROVE  /\ Tail(q) \in Seq(Users) /\ Len(Tail(q)) = Len(q) - 1 /\ Len(q) >= 1
           /\ Distinct(Tail(q)) /\ ToSet(Tail(q)) = ToSet(q) \ {q[1]} /\ q[1] \in ToSet(q)
<1>1. /\ Tail(q) \in Seq(Users) /\ Len(Tail(q)) = Len(q) - 1 /\ Len(q) \in Nat /\ Len(q) >= 1
      /\ \A i \in 1..Len(q) - 1 : Tail(q)[i] = q[i + 1]
  BY HeadTailProperties
<1> DEFINE p == Tail(q)
<1> HIDE DEF p
<1>2. /\ p \in Seq(Users) /\ Len(p) = Len(q) - 1
      /\ \A i \in 1..Len(p) : p[i] = q[i + 1] /\ i + 1 \in 1..Len(q)
  BY <1>1 DEF p
<1>3. Distinct(p)
  BY <1>1, <1>2 DEF Distinct
<1>4. DOMAIN p = 1..Len(p) /\ DOMAIN q = 1..Len(q)
  BY <1>2
<1>5. ToSet(p) \subseteq ToSet(q) \ {q[1]}
  <2> SUFFICES ASSUME NEW i \in 1..Len(p) PROVE p[i] \in ToSet(q) \ {q[1]}
    BY <1>4 DEF ToSet
  <2>1. p[i] = q[i + 1] /\ i + 1 \in 1..Len(q) /\ 1 \in 1..Len(q) /\ i + 1 # 1
    BY <1>1, <1>2
  <2>2. q[i + 1] # q[1]
    BY <2>1 DEF Distinct
  <2> QED BY <1>4, <2>1, <2>2 DEF ToSet
<1>6. ASSUME NEW v \in ToSet(q), v # q[1] PROVE v \in ToSet(p)
  <2>1. PICK i \in 1..Len(q) : v = q[i]
    BY <1>4 DEF ToSet
  <2>2. i - 1 \in 1..Len(p) /\ p[i - 1] = q[i]
    BY <1>1, <1>2, <1>6, <2>1
  <2> QED BY <1>4, <2>1, <2>2 DEF ToSet
<1>7. q[1] \in ToSet(q)
  BY <1>1, <1>4 DEF ToSet
<1> QED BY <1>1, <1>3, <1>5, <1>6, <1>7 DEF p

\* Lemma: a key that is new to a queue joins it.
LEMMA QueueAppend ==
    ASSUME NEW q \in Seq(Users), Distinct(q), NEW u \in Users, u \notin ToSet(q)
    PROVE  /\ Append(q, u) \in Seq(Users) /\ Len(Append(q, u)) = Len(q) + 1
           /\ Distinct(Append(q, u)) /\ ToSet(Append(q, u)) = ToSet(q) \cup {u}
<1> DEFINE p == Append(q, u)
<1>1. /\ p \in Seq(Users) /\ Len(p) = Len(q) + 1 /\ p[Len(q) + 1] = u
      /\ \A i \in 1..Len(q) : p[i] = q[i]
  BY AppendProperties
<1> HIDE DEF p
<1>2. DOMAIN p = 1..Len(p) /\ DOMAIN q = 1..Len(q) /\ Len(q) \in Nat
  BY <1>1
<1>3. \A i \in 1..Len(q) : q[i] # u
  BY <1>2 DEF ToSet
<1>4. ASSUME NEW i \in 1..Len(p), NEW j \in 1..Len(p), p[i] = p[j] PROVE i = j
  <2>1. CASE i = Len(q) + 1 \/ j = Len(q) + 1
    BY <1>1, <1>2, <1>3, <1>4, <2>1
  <2>2. CASE i # Len(q) + 1 /\ j # Len(q) + 1
    BY <1>1, <1>2, <1>4, <2>2 DEF Distinct
  <2> QED BY <2>1, <2>2
<1>5. ToSet(p) = ToSet(q) \cup {u}
  <2>1. ASSUME NEW i \in 1..Len(p) PROVE p[i] \in ToSet(q) \cup {u}
    BY <1>1, <1>2 DEF ToSet
  <2>2. ASSUME NEW i \in 1..Len(q) PROVE q[i] \in ToSet(p)
    BY <1>1, <1>2 DEF ToSet
  <2>3. u \in ToSet(p)
    BY <1>1, <1>2 DEF ToSet
  <2> QED BY <1>2, <2>1, <2>2, <2>3 DEF ToSet
<1> QED BY <1>1, <1>4, <1>5 DEF p, Distinct

\* Lemma: a key that stands in a queue leaves it, and the others stay.
LEMMA QueueRemove ==
    ASSUME NEW q \in Seq(Users), Distinct(q), NEW u \in ToSet(q)
    PROVE  /\ RemoveFirst(q, u) \in Seq(Users) /\ Len(RemoveFirst(q, u)) <= Len(q)
           /\ Distinct(RemoveFirst(q, u)) /\ ToSet(RemoveFirst(q, u)) = ToSet(q) \ {u}
<1> DEFINE I == {i \in 1..Len(q) : q[i] = u}
           k == Min(I)
           l == SubSeq(q, 1, k - 1)
           r == SubSeq(q, k + 1, Len(q))
           p == l \o r
<1>1. DOMAIN q = 1..Len(q) /\ Len(q) \in Nat
  OBVIOUS
<1>2. PICK m \in 1..Len(q) : q[m] = u
  BY <1>1 DEF ToSet
<1>3. I = {m}
  BY <1>1, <1>2 DEF Distinct
<1>4. k = m
  BY <1>1, <1>3 DEF Min
<1>5. RemoveFirst(q, u) = p
  BY <1>2, <1>3 DEF RemoveFirst, SelectInSeq, RemoveAt
<1> HIDE DEF I, k
<1>6. l \in Seq(Users) /\ Len(l) = m - 1 /\ \A i \in 1..m - 1 : l[i] = q[i]
  BY <1>1, <1>4, SubSeqProperties
<1>7. r \in Seq(Users) /\ Len(r) = Len(q) - m /\ \A i \in 1..Len(q) - m : r[i] = q[m + i]
  <2>1. r = SubSeq(q, m + 1, Len(q))
    BY <1>4
  <2> HIDE DEF r
  <2>2. m + 1 \in 1..Len(q) + 1 /\ Len(q) \in (m + 1) - 1..Len(q)
    BY <1>1
  <2>3. /\ r \in Seq(Users) /\ Len(r) = Len(q) - (m + 1) + 1
        /\ \A i \in 1..Len(q) - (m + 1) + 1 : r[i] = q[(m + 1) + i - 1]
    BY <2>1, <2>2, SubSeqProperties
  <2>4. Len(q) - (m + 1) + 1 = Len(q) - m /\ \A i \in 1..Len(q) - m : (m + 1) + i - 1 = m + i
    BY <1>1
  <2> QED BY <2>3, <2>4
<1> HIDE DEF l, r
<1>8. /\ p \in Seq(Users) /\ Len(p) = Len(l) + Len(r)
      /\ \A i \in 1..Len(l) + Len(r) : p[i] = IF i <= Len(l) THEN l[i] ELSE r[i - Len(l)]
  BY <1>6, <1>7, ConcatProperties
<1> HIDE DEF p
<1>9. Len(p) = Len(q) - 1
  BY <1>1, <1>6, <1>7, <1>8
<1>10. ASSUME NEW i \in 1..Len(p) PROVE p[i] = q[IF i < m THEN i ELSE i + 1]
  <2>1. CASE i < m
    BY <1>1, <1>6, <1>7, <1>8, <1>9, <2>1
  <2>2. CASE ~(i < m)
    <3>1. i - (m - 1) \in 1..Len(q) - m /\ m + (i - (m - 1)) = i + 1
      BY <1>1, <1>9, <2>2
    <3>2. p[i] = r[i - (m - 1)]
      BY <1>1, <1>6, <1>7, <1>8, <1>9, <2>2
    <3> QED BY <1>7, <2>2, <3>1, <3>2
  <2> QED BY <2>1, <2>2
<1>11. Distinct(p)
  <2> SUFFICES ASSUME NEW i \in 1..Len(p), NEW j \in 1..Len(p), p[i] = p[j] PROVE i = j
    BY DEF Distinct
  <2> DEFINE a == IF i < m THEN i ELSE i + 1
             b == IF j < m THEN j ELSE j + 1
  <2>1. a \in 1..Len(q) /\ b \in 1..Len(q) /\ q[a] = q[b]
    BY <1>1, <1>9, <1>10
  <2>2. a = b
    BY <2>1 DEF Distinct
  <2> QED BY <1>1, <1>9, <2>2
<1>12. DOMAIN p = 1..Len(p)
  BY <1>8
<1>13. ToSet(p) \subseteq ToSet(q) \ {u}
  <2> SUFFICES ASSUME NEW i \in 1..Len(p) PROVE p[i] \in ToSet(q) \ {u}
    BY <1>12 DEF ToSet
  <2> DEFINE a == IF i < m THEN i ELSE i + 1
  <2>1. a \in 1..Len(q) /\ a # m /\ p[i] = q[a]
    BY <1>1, <1>9, <1>10
  <2> HIDE DEF a
  <2> QED BY <1>1, <1>2, <2>1 DEF ToSet, Distinct
<1>14. ASSUME NEW v \in ToSet(q), v # u PROVE v \in ToSet(p)
  <2>1. PICK a \in 1..Len(q) : v = q[a]
    BY <1>1 DEF ToSet
  <2> DEFINE i == IF a < m THEN a ELSE a - 1
  <2>2. a # m
    BY <1>2, <1>14, <2>1
  <2>3. i \in 1..Len(p) /\ (IF i < m THEN i ELSE i + 1) = a
    BY <1>1, <1>9, <2>2
  <2>4. p[i] = v
    BY <1>10, <2>1, <2>3
  <2> HIDE DEF i
  <2> QED BY <1>12, <2>3, <2>4 DEF ToSet
<1> QED BY <1>1, <1>5, <1>8, <1>9, <1>11, <1>13, <1>14

\* Lemma: a queue without doubles is as long as its set of keys.
LEMMA QueueCount ==
    ASSUME NEW q \in Seq(Users), Distinct(q)
    PROVE  Cardinality(ToSet(q)) = Len(q)
<1>1. Len(q) \in Nat /\ DOMAIN q = 1..Len(q)
  OBVIOUS
<1>2. IsFiniteSet(1..Len(q)) /\ Cardinality(1..Len(q)) = Len(q)
  BY <1>1, FS_Interval
<1>3. q \in Bijection(1..Len(q), ToSet(q))
  BY <1>1 DEF Bijection, Injection, Surjection, IsInjective, ToSet, Distinct
<1>4. ExistsBijection(1..Len(q), ToSet(q))
  BY <1>3 DEF ExistsBijection
<1> QED BY <1>2, <1>4, FS_Bijection

\* Lemma: an active form is a form.
LEMMA ActiveIsForm ==
    ASSUME FormsTypes, NEW u \in Users
    PROVE  /\ Active(u) => forms[u] \in Forms
           /\ \A f \in Forms : f # NoForm
BY DEF FormsTypes, Active, Forms, NoForm

\* Lemma: what drop_form does to the forms, and to the queue of the form.
LEMMA DropKeeps ==
    ASSUME FormsTypes, NEW u \in Users, Active(u), DropForm(u), UNCHANGED <<home, evictions>>
    PROVE  /\ forms' \in [Users -> Forms \cup {NoForm}]
           /\ \A v \in Users : Active(v)' => v # u /\ Active(v) /\ forms'[v] = forms[v]
           /\ FormsQueues => FormsQueues'
<1>1. forms' = [forms EXCEPT ![u] = NoForm] /\ order' = [order EXCEPT ![forms[u].tenant] = RemoveFirst(@, u)]
  BY DEF DropForm
<1>2. forms' \in [Users -> Forms \cup {NoForm}] /\ forms'[u] = NoForm
      /\ \A v \in Users : v # u => forms'[v] = forms[v]
  BY <1>1 DEF FormsTypes
<1>3. \A v \in Users : Active(v)' <=> v # u /\ Active(v)
  BY <1>2 DEF Active
<1>4. ASSUME FormsQueues PROVE FormsQueues'
  <2> DEFINE s == forms[u].tenant
  <2>1. s \in FormTenants /\ s = home[u]
    BY <1>4, ActiveIsForm DEF Forms, FormsQueues
  <2>2. u \in FormsOf(s) /\ FormsOf(s) = ToSet(order[s])
    BY <1>4, <2>1 DEF FormsOf, FormsQueues
  <2>3. /\ RemoveFirst(order[s], u) \in Seq(Users) /\ Len(RemoveFirst(order[s], u)) <= Len(order[s])
        /\ Distinct(RemoveFirst(order[s], u)) /\ ToSet(RemoveFirst(order[s], u)) = ToSet(order[s]) \ {u}
    BY <1>4, <2>1, <2>2, QueueRemove DEF FormsQueues
  <2>4. order'[s] = RemoveFirst(order[s], u) /\ \A t \in FormTenants : t # s => order'[t] = order[t]
    BY <1>1, <1>4, <2>1 DEF FormsQueues
  <2>5. order' \in [FormTenants -> Seq(Users)]
    BY <1>1, <1>4, <2>1, <2>3 DEF FormsQueues
  <2>6. \A t \in FormTenants : FormsOf(t)' = FormsOf(t) \ {u}
    BY <1>2, <1>3 DEF FormsOf
  <2>7. \A t \in FormTenants : t # s => u \notin FormsOf(t)
    BY DEF FormsOf
  <2> HIDE DEF s
  <2>8. Len(order'[s]) <= FormCap
    <3>1. Len(order[s]) \in Nat /\ Len(order'[s]) \in Nat /\ Len(order[s]) <= FormCap
      BY <1>4, <2>1, <2>5 DEF FormsQueues
    <3> QED BY <2>3, <2>4, <3>1, FormConstants
  <2>9. ASSUME NEW t \in FormTenants
        PROVE  Distinct(order'[t]) /\ Len(order'[t]) <= FormCap /\ ToSet(order'[t]) = FormsOf(t)'
    <3>1. CASE t = s
      BY <2>2, <2>3, <2>4, <2>6, <2>8, <3>1
    <3>2. CASE t # s
      BY <1>4, <2>4, <2>6, <2>7, <3>2 DEF FormsQueues
    <3> QED BY <3>1, <3>2
  <2>10. \A v \in Users : Active(v)' => forms'[v].tenant = home'[v]
    BY <1>2, <1>3, <1>4 DEF FormsQueues
  <2> QED BY <1>4, <2>5, <2>9, <2>10 DEF FormsQueues
<1> QED BY <1>2, <1>3, <1>4

\* Lemma: a form that is installed joins its tenant's queue, and the front of a
\* full queue leaves it with its form.
LEMMA InstallKeeps ==
    ASSUME FormsTypes, FormsQueues, NEW u \in Users, Install(u)
    PROVE  FormsQueues'
<1> DEFINE t == home[u]
           q == order[t]
<1>1. t \in FormTenants /\ ActiveForm(t) \in Forms /\ ActiveForm(t).tenant = t
  <2>1. <<>> \in Seq(Nat) /\ installed + 1 \in Nat \ {0}
    BY DEF FormsTypes
  <2> QED BY <2>1 DEF FormsTypes, ActiveForm, Forms
<1>2. q \in Seq(Users) /\ Distinct(q) /\ Len(q) <= FormCap /\ ToSet(q) = FormsOf(t) /\ Len(q) \in Nat
  BY <1>1 DEF FormsQueues
<1>3. UNCHANGED <<home>>
  BY DEF Install
<1>4. CASE Active(u)
  <2>1. forms' = [v \in Users |-> IF v = u THEN ActiveForm(t) ELSE forms[v]]
        /\ order' = order /\ evictions' = evictions
    BY <1>4 DEF Install
  <2>2. \A v \in Users : Active(v)' <=> Active(v)
    BY <1>1, <1>4, <2>1, ActiveIsForm DEF Active
  <2>3. \A v \in Users : Active(v) => forms'[v].tenant = forms[v].tenant
    BY <1>1, <1>4, <2>1 DEF FormsQueues
  <2>4. \A s \in FormTenants : FormsOf(s)' = FormsOf(s)
    BY <2>2, <2>3 DEF FormsOf
  <2> QED BY <1>3, <2>1, <2>2, <2>3, <2>4 DEF FormsQueues
<1>5. CASE ~Active(u)
  <2> DEFINE full == Len(q) >= FormCap
             x == q[1]
             b == IF full THEN Tail(q) ELSE q
  <2>1. u \notin ToSet(q)
    BY <1>2, <1>5 DEF FormsOf
  <2>2. ASSUME full PROVE q # <<>> /\ x \in ToSet(q) /\ Active(x) /\ forms[x].tenant = t /\ x \in Users
    <3>1. Len(q) # 0
      BY <1>2, <2>2, FormConstants
    <3>2. q # <<>>
      BY <3>1
    <3> QED BY <1>2, <3>2, QueueTail DEF FormsOf
  <2>3. /\ b \in Seq(Users) /\ Distinct(b) /\ Len(b) + 1 <= FormCap /\ Len(b) \in Nat
        /\ ToSet(b) = IF full THEN ToSet(q) \ {x} ELSE ToSet(q)
    <3>1. CASE full
      <4>1. /\ Tail(q) \in Seq(Users) /\ Len(Tail(q)) = Len(q) - 1 /\ Distinct(Tail(q))
            /\ ToSet(Tail(q)) = ToSet(q) \ {x} /\ Len(q) >= 1
        BY <1>2, <2>2, <3>1, QueueTail
      <4>2. b = Tail(q)
        BY <3>1
      <4>3. Len(b) + 1 <= FormCap /\ Len(b) \in Nat
        BY <1>2, <4>1, <4>2, FormConstants
      <4> QED BY <3>1, <4>1, <4>2, <4>3
    <3>2. CASE ~full
      BY <1>2, <3>2, FormConstants
    <3> QED BY <3>1, <3>2
  <2>4. /\ Append(b, u) \in Seq(Users) /\ Len(Append(b, u)) = Len(b) + 1
        /\ Distinct(Append(b, u)) /\ ToSet(Append(b, u)) = ToSet(b) \cup {u}
    <3>1. u \notin ToSet(b)
      BY <2>1, <2>3
    <3> HIDE DEF b
    <3> QED BY <2>3, <3>1, QueueAppend
  <2>5. Evictee(t) = IF full THEN {x} ELSE {}
    BY <1>2, FormConstants DEF Evictee
  <2>6. /\ forms' = [v \in Users |-> IF v = u THEN ActiveForm(t)
                                     ELSE IF full /\ v = x THEN NoForm ELSE forms[v]]
        /\ order' = [order EXCEPT ![t] = Append(b, u)]
        /\ \A y \in evictions' : y \in evictions \/ y = [of |-> t, by |-> t]
    <3>1. CASE full
      BY <1>5, <2>2, <2>5, <3>1 DEF Install
    <3>2. CASE ~full
      BY <1>5, <2>5, <3>2 DEF Install
    <3> QED BY <3>1, <3>2
  <2>7. order' \in [FormTenants -> Seq(Users)] /\ order'[t] = Append(b, u)
        /\ \A s \in FormTenants : s # t => order'[s] = order[s]
    BY <1>1, <2>4, <2>6 DEF FormsQueues
  <2>8. \A v \in Users : Active(v)' <=> v = u \/ (Active(v) /\ ~(full /\ v = x))
    BY <1>1, <1>5, <2>1, <2>2, <2>6, ActiveIsForm DEF Active
  <2>9. \A v \in Users : Active(v)' => forms'[v].tenant = IF v = u THEN t ELSE forms[v].tenant
    BY <1>1, <2>6, <2>8
  <2>10. ASSUME NEW s \in FormTenants, s = t PROVE FormsOf(s)' = ToSet(Append(b, u))
    <3>1. FormsOf(s)' = {v \in Users : v = u \/ (v \in FormsOf(s) /\ ~(full /\ v = x))}
      BY <1>5, <2>8, <2>9, <2>10 DEF FormsOf
    <3>2. ToSet(Append(b, u)) = (IF full THEN FormsOf(s) \ {x} ELSE FormsOf(s)) \cup {u}
      BY <1>2, <2>3, <2>4, <2>10
    <3>3. FormsOf(s) \subseteq Users
      BY DEF FormsOf
    <3> QED BY <3>1, <3>2, <3>3
  <2>11. \A s \in FormTenants : s # t => FormsOf(s)' = FormsOf(s)
    BY <1>5, <2>2, <2>8, <2>9 DEF FormsOf
  <2>12. \A v \in Users : Active(v)' => forms'[v].tenant = home'[v]
    BY <1>3, <2>8, <2>9 DEF FormsQueues
  <2>13. \A y \in evictions' : y.of = y.by
    BY <2>6 DEF FormsQueues
  <2> HIDE DEF t, b
  <2>14. Len(order'[t]) <= FormCap
    BY <2>3, <2>4, <2>7
  <2>15. ASSUME NEW s \in FormTenants
         PROVE  Distinct(order'[s]) /\ Len(order'[s]) <= FormCap /\ ToSet(order'[s]) = FormsOf(s)'
    <3>1. CASE s = t
      BY <2>4, <2>7, <2>10, <2>14, <3>1
    <3>2. CASE s # t
      BY <2>7, <2>11, <3>2 DEF FormsQueues
    <3> QED BY <3>1, <3>2
  <2> QED BY <2>7, <2>12, <2>13, <2>15 DEF FormsQueues
<1> QED BY <1>4, <1>5

\* Lemma: every step of the form store keeps its invariant.
LEMMA FormsStep == FormsInv /\ [FormsNext]_formVars => FormsInv'
<1> SUFFICES ASSUME FormsInv, [FormsNext]_formVars PROVE FormsInv'
  OBVIOUS
<1> USE DEF FormsInv
<1>1. CASE UNCHANGED formVars
  BY <1>1 DEF formVars, FormsTypes, FormsArgs, FormsQueues, FormsOf, Active
<1>2. ASSUME NEW u \in Users, NEW t \in FormTenants, Rehome(u, t) PROVE FormsInv'
  <2>1. /\ home' = [home EXCEPT ![u] = t] /\ moved' = (moved \/ Active(u))
        /\ UNCHANGED <<forms, order, submits, installed, submitted, evictions>>
    BY <1>2 DEF Rehome
  <2>2. FormsTypes' /\ FormsArgs'
    BY <2>1 DEF FormsTypes, FormsArgs, Active
  <2>3. ASSUME ~moved' PROVE FormsQueues'
    <3>1. ~moved /\ ~Active(u)
      BY <2>1, <2>3
    <3>2. \A v \in Users : v # u => home'[v] = home[v]
      BY <2>1 DEF FormsTypes
    <3>3. \A v \in Users : (Active(v)' <=> Active(v))
      BY <2>1 DEF Active
    <3>4. \A s \in FormTenants : FormsOf(s)' = FormsOf(s)
      BY <2>1 DEF FormsOf, Active
    <3> QED BY <2>1, <3>1, <3>2, <3>3, <3>4 DEF FormsQueues
  <2> QED BY <2>2, <2>3
<1>3. ASSUME NEW u \in Users, Install(u) PROVE FormsInv'
  <2>1. /\ installed' = installed + 1 /\ UNCHANGED <<home, submits, submitted, moved>>
        /\ \A v \in Users : forms'[v] \in {ActiveForm(home[u]), NoForm, forms[v]}
        /\ DOMAIN forms' = Users /\ forms' = [v \in Users |-> forms'[v]]
    BY <1>3 DEF Install
  <2>2. ActiveForm(home[u]) \in Forms /\ ActiveForm(home[u]).args = <<>> /\ ActiveForm(home[u]).step = 0
    <3>1. <<>> \in Seq(Nat) /\ installed + 1 \in Nat \ {0}
      BY DEF FormsTypes
    <3> QED BY <3>1 DEF FormsTypes, ActiveForm, Forms
  <2>3. FormsTypes'
    BY <2>1, <2>2 DEF FormsTypes
  <2>4. FormsArgs'
    <3>1. Len(<<>>) = 0 /\ 0 < FieldCount
      BY FormConstants
    <3>2. ASSUME NEW v \in Users, Active(v)'
          PROVE  Len(forms'[v].args) = forms'[v].step /\ forms'[v].step < FieldCount
      BY <2>1, <2>2, <3>1, <3>2 DEF FormsArgs, Active
    <3> QED BY <2>1, <3>2 DEF FormsArgs
  <2> QED BY <1>3, <2>1, <2>3, <2>4, InstallKeeps
<1>4. ASSUME NEW u \in Users, Cancel(u) PROVE FormsInv'
  <2>1. Active(u) /\ DropForm(u) /\ UNCHANGED <<home, submits, submitted, installed, moved, evictions>>
    BY <1>4 DEF Cancel
  <2>2. /\ forms' \in [Users -> Forms \cup {NoForm}]
        /\ \A v \in Users : Active(v)' => v # u /\ Active(v) /\ forms'[v] = forms[v]
        /\ FormsQueues => FormsQueues'
    BY <2>1, DropKeeps
  <2> QED BY <2>1, <2>2 DEF FormsTypes, FormsArgs
<1>5. ASSUME NEW u \in Users, Answer(u) PROVE FormsInv'
  <2> DEFINE f == forms[u]
             more == Append(f.args, f.step + 1)
  <2>1. Active(u) /\ UNCHANGED <<home, submitted, installed, moved, evictions>>
    BY <1>5 DEF Answer
  <2>2. f \in Forms /\ f.step \in Nat /\ f.args \in Seq(Nat) /\ Len(f.args) = f.step /\ f.step < FieldCount
    BY <2>1, ActiveIsForm DEF FormsArgs, Forms
  <2>3. more \in Seq(Nat) /\ Len(more) = f.step + 1
    BY <2>2, AppendProperties
  <2>4. CASE f.step + 1 < FieldCount
    <3>1. /\ forms' = [forms EXCEPT ![u].step = @ + 1, ![u].args = Append(@, f.step + 1)]
          /\ UNCHANGED <<order, submits>>
      BY <1>5, <2>4 DEF Answer
    <3>2. /\ forms'[u] = [f EXCEPT !.step = f.step + 1, !.args = more]
          /\ \A v \in Users : v # u => forms'[v] = forms[v]
          /\ DOMAIN forms' = Users /\ forms' = [v \in Users |-> forms'[v]]
      BY <3>1 DEF FormsTypes
    <3>3. forms'[u] \in Forms /\ forms'[u].tenant = f.tenant /\ forms'[u].step = f.step + 1 /\ forms'[u].args = more
      <4>1. f \in Forms /\ f.step + 1 \in Nat /\ more \in Seq(Nat)
        BY <2>2, <2>3
      <4> HIDE DEF f, more
      <4> QED BY <3>2, <4>1 DEF Forms
    <3>4. forms' \in [Users -> Forms \cup {NoForm}]
      BY <3>2, <3>3 DEF FormsTypes
    <3>5. \A v \in Users : Active(v)' <=> Active(v)
      BY <2>1, <3>2, <3>3, ActiveIsForm DEF Active
    <3>6. \A v \in Users : Active(v) => forms'[v].tenant = forms[v].tenant
      BY <3>2, <3>3
    <3>7. \A t \in FormTenants : FormsOf(t)' = FormsOf(t)
      BY <3>5, <3>6 DEF FormsOf
    <3>8. FormsTypes'
      BY <2>1, <3>4 DEF FormsTypes
    <3>9. FormsArgs'
      BY <2>1, <2>3, <2>4, <3>1, <3>2, <3>3, <3>5 DEF FormsArgs
    <3>10. ~moved' => FormsQueues'
      BY <2>1, <3>1, <3>5, <3>6, <3>7 DEF FormsQueues
    <3> QED BY <3>8, <3>9, <3>10
  <2>5. CASE ~(f.step + 1 < FieldCount)
    <3>1. DropForm(u) /\ submits' = submits \cup {[user |-> u, form |-> f.id, args |-> more]}
      BY <1>5, <2>5 DEF Answer
    <3>2. /\ forms' \in [Users -> Forms \cup {NoForm}]
          /\ \A v \in Users : Active(v)' => v # u /\ Active(v) /\ forms'[v] = forms[v]
          /\ FormsQueues => FormsQueues'
      BY <2>1, <3>1, DropKeeps
    <3>3. Len(more) = FieldCount
      BY <2>2, <2>3, <2>5, FormConstants
    <3> HIDE DEF more
    <3>4. \A y \in submits' : Len(y.args) = FieldCount
      BY <3>1, <3>3 DEF FormsArgs
    <3> QED BY <2>1, <3>2, <3>4 DEF FormsTypes, FormsArgs
  <2> QED BY <2>4, <2>5
<1>6. ASSUME NEW u \in Users, InstallRefused(u) \/ Reprompt(u) PROVE FormsInv'
  BY <1>1, <1>6 DEF InstallRefused, Reprompt
<1>7. ASSUME NEW y \in submits, Submit(y) PROVE FormsInv'
  <2>1. /\ submits' = submits \ {y} /\ submitted' \in {submitted, submitted \cup {Len(y.args)}}
        /\ UNCHANGED <<home, forms, order, installed, moved, evictions>>
    BY <1>7 DEF Submit
  <2>2. Len(y.args) = FieldCount
    BY DEF FormsArgs
  <2>3. FormsTypes' /\ FormsArgs'
    BY <2>1, <2>2 DEF FormsTypes, FormsArgs, Active
  <2>4. FormsQueues => FormsQueues'
    BY <2>1 DEF FormsQueues, FormsOf, Active
  <2> QED BY <2>1, <2>3, <2>4
<1> QED BY <1>1, <1>2, <1>3, <1>4, <1>5, <1>6, <1>7 DEF FormsNext

\* As long as nobody changes tenant with a form active, a tenant's queue is its
\* active forms, each once and within the cap, and an install evicts a form of
\* its own tenant; and a form is submitted with an answer for every field: for
\* any users, tenants, cap and number of fields.
THEOREM FormQueuesKept == Spec => []QueueIsForms
<1>1. Init => FormsInv
  <2> SUFFICES ASSUME FormsInit PROVE FormsInv
    BY DEF Init
  <2> USE DEF FormsInit
  <2>1. FormsTypes /\ FormsArgs
    BY DEF FormsTypes, FormsArgs, Active
  <2>2. \A t \in FormTenants : order[t] = <<>> /\ FormsOf(t) = {} /\ ToSet(<<>>) = {} /\ Len(<<>>) = 0
    BY DEF FormsOf, Active, ToSet
  <2>3. Distinct(<<>>) /\ <<>> \in Seq(Users) /\ 0 <= FormCap
    BY FormConstants DEF Distinct
  <2>4. FormsQueues
    BY <2>2, <2>3 DEF FormsQueues, Active
  <2> QED BY <2>1, <2>4 DEF FormsInv
<1>2. FormsInv /\ [Next]_vars => FormsInv'
  <2>1. [Next]_vars => [FormsNext]_formVars
    BY DEF Next, TeamsStep, GoogleStep, SignalStep, DiscordStep, TelegramStep, ProcessStep, A2aStep, vars
  <2> QED BY <2>1, FormsStep
<1>3. FormsInv => QueueIsForms
  <2> SUFFICES ASSUME FormsInv PROVE QueueIsForms
    OBVIOUS
  <2>1. ASSUME ~moved, NEW t \in FormTenants
        PROVE  /\ ToSet(order[t]) = FormsOf(t)
               /\ Len(order[t]) = Cardinality(FormsOf(t))
               /\ Len(order[t]) <= FormCap
    <3>1. order[t] \in Seq(Users) /\ Distinct(order[t]) /\ ToSet(order[t]) = FormsOf(t) /\ Len(order[t]) <= FormCap
      BY <2>1 DEF FormsInv, FormsQueues
    <3> QED BY <3>1, QueueCount
  <2> QED BY <2>1 DEF QueueIsForms, FormsInv, FormsArgs, FormsQueues
<1> QED BY <1>1, <1>2, <1>3, PTL DEF Spec

(***************************************************************************)
(* The readers of a task: the invariants.                                  *)
(***************************************************************************)

Events == [type : {"async"}] \cup [type : {"token", "progress"}, n : Nat] \cup [type : Final]
Channels == [log : Seq(Events), open : {"live", "claimed", "closed"}]
ReaderRecs ==
    [kind : {"none", "v03", "v10", "block", "mcp", "sub", "get"},
     pc : {"idle", "ensure", "claim", "reread", "follow", "ended"},
     chan : Nat, pos : Nat, lagged : BOOLEAN, text : Seq(Nat), told : Seq(Final), cut : BOOLEAN]

\* Of one reader: it follows a channel that there is, it is told nothing before
\* its end, and it is a resubscribe that reads the record.
ReaderOK(r) ==
    /\ r.chan <= Len(chans) /\ (r.pc # "ended" => r.told = <<>>)
    /\ r.pc \in {"ensure", "claim", "reread"} => r.kind = "sub"

A2aTypes ==
    /\ task \in {"none", "working"} \cup Final
    /\ stage \in {"off", "run", "ended", "stored", "sent"} /\ outcome \in {"none"} \cup Final
    /\ chans \in Seq(Channels) /\ reader \in [Readers -> ReaderRecs]
    /\ \A c \in Readers : ReaderOK(reader[c])

\* Of one reader: what StreamedWhole says, and who reads a task without a record.
WholeOK(r) ==
    r.told = << "completed" >> =>
        /\ r.kind = "v03" => r.text = Whole
        /\ r.kind \in {"v10", "sub"} => r.text = Clamp(Whole) \/ (unsaved /\ r.text = <<>>)
NoneOK(r) == r.kind \in {"none", "mcp"} /\ r.pc \in {"idle", "follow", "ended"}

\* One runner, or one claim, holds the hub's entry; the record is open as long
\* as a runner works on it, and after it if its last write was lost; only an
\* MCP call is there before it is stored.
A2aHub ==
    /\ chans = <<>> => task = "none" /\ reader = [c \in Readers |-> NoReader]
    /\ stage # "off" => chans # <<>> /\ Hub = "live"
    /\ stage \in {"run", "ended"} => task \in {"none", "working"}
    /\ stage \in {"stored", "sent"} => task \in {"none", outcome} \/ (unsaved /\ task = "working")
    /\ stage \in {"ended", "stored", "sent"} => outcome \in Final
    /\ \A c \in Readers : reader[c].pc = "claim" => chans # <<>> /\ Hub = "claimed" /\ task = "working"
    /\ \A c, d \in Readers : reader[c].pc = "claim" /\ reader[d].pc = "claim" => c = d
    /\ task = "none" => /\ Len(chans) <= 1
                        /\ \A c \in Readers : NoneOK(reader[c])

\* An ending is the last event of its channel and, unless a write was lost, the
\* one that is stored; a synchronous answer is its tokens in order, all of them
\* before "completed"; nothing is sent on a claimed channel.
EventOK(k, i, ev) ==
    /\ ev.type \in Final => i = Len(chans[k].log) /\ (unsaved \/ task \in {"none", ev.type})
                            /\ (k = Len(chans) => stage \in {"sent", "off"})
    /\ async => ev.type # "token"
    /\ ~async => /\ ev.type \in {"token"} \cup Final
                 /\ ev.type = "token" => ev.n = i
                 /\ ev.type = "completed" => i = Tokens + 1
A2aLogs ==
    /\ filed => async
    /\ \A k \in 1..Len(chans) : \A i \in 1..Len(chans[k].log) : EventOK(k, i, chans[k].log[i])
    /\ ~async /\ stage \in {"ended", "stored"} /\ outcome = "completed" => Len(Log) = Tokens
    /\ stage = "sent" => \E i \in 1..Len(Log) : Log[i].type \in Final
    /\ chans # <<>> /\ Hub = "claimed" => Len(Log) = 0

\* A message/stream client has put together what it read, and has not read past
\* an ending; its channel closes after one, unless the runner broke off.
FollowOK(r) ==
    r.kind = "v03" /\ r.pc = "follow" =>
        /\ r.chan # 0 /\ r.pos <= Len(chans[r.chan].log) /\ chans[r.chan].open # "claimed"
        /\ ~r.lagged => r.text = IF async THEN <<>> ELSE [i \in 1..r.pos |-> i]
        /\ \A i \in 1..r.pos : chans[r.chan].log[i].type \notin Final
        /\ chans[r.chan].open = "closed" /\ ~broke =>
              \E i \in 1..Len(chans[r.chan].log) : chans[r.chan].log[i].type \in Final
A2aFollow == \A c \in Readers : FollowOK(reader[c])

A2aInv == A2aTypes /\ A2aHub /\ A2aLogs /\ A2aFollow /\ StreamedWhole

(***************************************************************************)
(* The readers of a task: every step keeps them.                           *)
(***************************************************************************)

\* Lemma: a channel is opened after the others.
LEMMA ChannelOpened ==
    ASSUME A2aTypes, NEW st \in {"live", "claimed", "closed"}, chans' = Opened(st)
    PROVE  /\ chans' \in Seq(Channels) /\ Len(chans') = Len(chans) + 1
           /\ \A k \in 1..Len(chans) : chans'[k] = chans[k]
           /\ chans'[Len(chans')].log = <<>> /\ chans'[Len(chans')].open = st
<1> DEFINE x == [log |-> <<>>, open |-> st]
<1>1. x \in Channels /\ x.log = <<>> /\ x.open = st
  BY DEF Channels
<1>2. chans \in Seq(Channels) /\ chans' = Append(chans, x)
  BY DEF A2aTypes, Opened
<1> HIDE DEF x
<1> QED BY <1>1, <1>2, AppendProperties

\* Lemma: the last channel changes its state.
LEMMA ChannelState ==
    ASSUME A2aTypes, chans # <<>>, NEW st \in {"live", "claimed", "closed"}, chans' = HubIs(st)
    PROVE  /\ chans' \in Seq(Channels) /\ Len(chans') = Len(chans) /\ Len(chans) >= 1
           /\ \A k \in 1..Len(chans) : chans'[k].log = chans[k].log
           /\ \A k \in 1..Len(chans) - 1 : chans'[k] = chans[k]
           /\ chans'[Len(chans)].open = st
<1>1. chans \in Seq(Channels) /\ Len(chans) \in Nat /\ Len(chans) >= 1 /\ Len(chans) \in 1..Len(chans)
  BY DEF A2aTypes
<1> DEFINE x == [chans[Len(chans)] EXCEPT !.open = st]
<1>2. chans[Len(chans)] \in Channels
  BY <1>1
<1>3. x \in Channels /\ x.log = chans[Len(chans)].log /\ x.open = st
  BY <1>2 DEF Channels
<1>4. chans' = [chans EXCEPT ![Len(chans)] = x]
  BY DEF HubIs
<1> HIDE DEF x
<1>5. chans' \in Seq(Channels) /\ Len(chans') = Len(chans)
      /\ \A k \in 1..Len(chans) : chans'[k] = IF k = Len(chans) THEN x ELSE chans[k]
  BY <1>1, <1>3, <1>4, ExceptSeq
<1> QED BY <1>1, <1>3, <1>5

\* Lemma: an event is sent on the last channel.
LEMMA ChannelSend ==
    ASSUME A2aTypes, chans # <<>>, NEW ev \in Events, Send(ev)
    PROVE  /\ chans' \in Seq(Channels) /\ Len(chans') = Len(chans) /\ Len(chans) >= 1
           /\ \A k \in 1..Len(chans) : chans'[k].open = chans[k].open
           /\ \A k \in 1..Len(chans) - 1 : chans'[k] = chans[k]
           /\ Len(chans'[Len(chans)].log) = Len(Log) + 1 /\ Len(Log) \in Nat
           /\ \A i \in 1..Len(Log) : chans'[Len(chans)].log[i] = Log[i]
           /\ chans'[Len(chans)].log[Len(Log) + 1] = ev
<1>1. chans \in Seq(Channels) /\ Len(chans) \in Nat /\ Len(chans) >= 1 /\ Len(chans) \in 1..Len(chans)
  BY DEF A2aTypes
<1> DEFINE y == Append(Log, ev)
           x == [chans[Len(chans)] EXCEPT !.log = y]
<1>2. chans[Len(chans)] \in Channels /\ Log \in Seq(Events)
  <2>1. chans[Len(chans)] \in Channels
    BY <1>1
  <2> QED BY <2>1 DEF Channels, Log
<1>3. y \in Seq(Events) /\ Len(y) = Len(Log) + 1 /\ y[Len(Log) + 1] = ev /\ \A i \in 1..Len(Log) : y[i] = Log[i]
  BY <1>2, AppendProperties
<1>4. chans' = [chans EXCEPT ![Len(chans)] = x]
  BY DEF Send, Log
<1> HIDE DEF y
<1>5. x \in Channels /\ x.log = y /\ x.open = chans[Len(chans)].open
  BY <1>2, <1>3 DEF Channels
<1> HIDE DEF x
<1>6. chans' \in Seq(Channels) /\ Len(chans') = Len(chans)
      /\ \A k \in 1..Len(chans) : chans'[k] = IF k = Len(chans) THEN x ELSE chans[k]
  BY <1>1, <1>4, <1>5, ExceptSeq
<1>7. Len(Log) \in Nat
  BY <1>2
<1> QED BY <1>1, <1>3, <1>5, <1>6, <1>7

\* Lemma: and it changes nothing that was sent before.
LEMMA SendGrows ==
    ASSUME A2aTypes, chans # <<>>, NEW ev \in Events, Send(ev), NEW k \in 1..Len(chans)
    PROVE  /\ Len(chans[k].log) <= Len(chans'[k].log) /\ Len(chans'[k].log) \in Nat
           /\ \A i \in 1..Len(chans[k].log) : chans'[k].log[i] = chans[k].log[i]
           /\ chans'[k].open = chans[k].open
<1>1. chans[k] \in Channels
  BY DEF A2aTypes
<1>2. Len(chans[k].log) \in Nat
  BY <1>1 DEF Channels
<1>3. CASE k = Len(chans)
  <2>1. /\ Len(chans'[k].log) = Len(chans[k].log) + 1 /\ chans'[k].open = chans[k].open
        /\ \A i \in 1..Len(chans[k].log) : chans'[k].log[i] = chans[k].log[i]
    BY <1>3, ChannelSend DEF Log
  <2> QED BY <1>2, <2>1
<1>4. CASE k # Len(chans)
  <2>1. chans'[k] = chans[k]
    BY <1>4, ChannelSend
  <2> QED BY <1>2, <2>1
<1> QED BY <1>3, <1>4

\* Lemma: a step of one reader that leaves the task and its channels alone.
LEMMA ReaderMoves ==
    ASSUME A2aInv, NEW c \in Readers, NEW r \in ReaderRecs,
           reader' = [reader EXCEPT ![c] = r],
           UNCHANGED <<async, task, filed, chans, stage, outcome, broke, unsaved, losses>>,
           chans # <<>>, ReaderOK(r), r.pc # "claim", task = "none" => NoneOK(r),
           FollowOK(r), WholeOK(r)
    PROVE  A2aInv'
<1>1. A2aTypes /\ A2aHub /\ A2aLogs /\ A2aFollow /\ StreamedWhole
  BY DEF A2aInv
<1>2. reader'[c] = r /\ \A d \in Readers : d # c => reader'[d] = reader[d]
  BY <1>1 DEF A2aTypes
<1>3. A2aTypes'
  BY <1>1, <1>2 DEF A2aTypes, ReaderOK
<1>4. A2aHub'
  BY <1>1, <1>2 DEF A2aHub, Hub, NoneOK
<1>5. A2aLogs'
  BY <1>1 DEF A2aLogs, EventOK, Log, Hub
<1>6. A2aFollow'
  <2> SUFFICES ASSUME NEW d \in Readers PROVE FollowOK(reader[d])'
    BY DEF A2aFollow
  <2>1. FollowOK(reader[d])
    BY <1>1 DEF A2aFollow
  <2>2. CASE d = c
    BY <1>2, <2>2 DEF FollowOK
  <2>3. CASE d # c
    <3>1. reader'[d] = reader[d]
      BY <1>2, <2>3
    <3> QED BY <2>1, <3>1 DEF FollowOK
  <2> QED BY <2>2, <2>3
<1>7. StreamedWhole'
  BY <1>1, <1>2 DEF StreamedWhole, WholeOK
<1> QED BY <1>3, <1>4, <1>5, <1>6, <1>7 DEF A2aInv

\* What a reader may be told.
Tellings == {<<>>} \cup {<<o>> : o \in Final}

\* The record of a reader of that kind that is done.
IsEnded(r, kind, e, x) ==
    /\ r \in ReaderRecs /\ r.kind = kind /\ r.pc = "ended" /\ r.chan = 0 /\ r.told = e /\ r.cut = FALSE
    /\ r.text = IF kind \in {"v03", "v10", "sub"} THEN x ELSE <<>>

\* Lemma: a fresh record, and what a reader keeps when it is done.
LEMMA EndedIsRecord ==
    ASSUME A2aTypes, NEW c \in Readers, NEW e \in Tellings, NEW x \in Seq(Nat)
    PROVE  IsEnded(Ended(c, e, x), reader[c].kind, e, x)
<1>1. reader[c].kind \in {"none", "v03", "v10", "block", "mcp", "sub", "get"}
  BY DEF A2aTypes, ReaderRecs
<1>2. e \in Seq(Final)
  <2>1. CASE e = <<>>
    BY <2>1
  <2>2. ASSUME NEW o \in Final, e = <<o>> PROVE e \in Seq(Final)
    BY <2>2
  <2> QED BY <2>1, <2>2 DEF Tellings
<1>3. NoReader \in ReaderRecs
  <2>1. <<>> \in Seq(Nat) /\ <<>> \in Seq(Final)
    OBVIOUS
  <2> QED BY <2>1 DEF NoReader, ReaderRecs
<1>4. NoReader.chan = 0 /\ NoReader.cut = FALSE
  BY DEF NoReader
<1> DEFINE k == reader[c].kind
           y == IF reader[c].kind \in {"v03", "v10", "sub"} THEN x ELSE <<>>
<1>5. y \in Seq(Nat)
  OBVIOUS
<1>6. Ended(c, e, x) = [NoReader EXCEPT !.kind = k, !.pc = "ended", !.told = e, !.text = y]
  BY DEF Ended
<1>7. k \in {"none", "v03", "v10", "block", "mcp", "sub", "get"}
  BY <1>1
<1> HIDE DEF k, y
<1>8. [NoReader EXCEPT !.kind = k, !.pc = "ended", !.told = e, !.text = y] \in ReaderRecs
  BY <1>2, <1>3, <1>5, <1>7 DEF ReaderRecs
<1>9. /\ Ended(c, e, x).kind = k /\ Ended(c, e, x).pc = "ended"
      /\ Ended(c, e, x).chan = 0 /\ Ended(c, e, x).told = e
      /\ Ended(c, e, x).cut = FALSE /\ Ended(c, e, x).text = y
  BY <1>3, <1>4, <1>6 DEF ReaderRecs
<1> QED BY <1>6, <1>8, <1>9 DEF k, y, IsEnded

\* Lemma: a reader that is done, of a task that has a record unless it is MCP's.
LEMMA ReaderEnds ==
    ASSUME A2aInv, NEW c \in Readers, NEW e \in Tellings, NEW x \in Seq(Nat),
           reader' = [reader EXCEPT ![c] = Ended(c, e, x)],
           UNCHANGED <<async, task, filed, chans, stage, outcome, broke, unsaved, losses>>,
           reader[c].pc # "idle",
           reader[c].kind = "v03" /\ e = << "completed" >> => x = Whole,
           reader[c].kind \in {"v10", "sub"} /\ e = << "completed" >> =>
               x = Clamp(Whole) \/ (unsaved /\ x = <<>>)
    PROVE  A2aInv'
<1> DEFINE r == Ended(c, e, x)
<1>1. /\ r \in ReaderRecs /\ r.kind = reader[c].kind /\ r.pc = "ended" /\ r.chan = 0 /\ r.told = e
      /\ r.text = IF reader[c].kind \in {"v03", "v10", "sub"} THEN x ELSE <<>>
  <2>1. A2aTypes
    BY DEF A2aInv
  <2>2. IsEnded(r, reader[c].kind, e, x)
    BY <2>1, EndedIsRecord
  <2> QED BY <2>2 DEF IsEnded
<1> HIDE DEF r
<1>2. task = "none" => NoneOK(r)
  BY <1>1 DEF A2aInv, A2aHub, NoneOK
<1>3. FollowOK(r)
  BY <1>1 DEF FollowOK
<1>4. WholeOK(r)
  BY <1>1 DEF WholeOK
<1>5. ReaderOK(r)
  BY <1>1 DEF A2aInv, A2aTypes, ReaderOK
<1>7. chans # <<>>
  BY DEF A2aInv, A2aHub, NoReader
<1>6. reader' = [reader EXCEPT ![c] = r]
  BY DEF r
<1> QED BY <1>1, <1>2, <1>3, <1>4, <1>5, <1>6, <1>7, ReaderMoves

\* Lemma: channels that only grow, and close after an ending unless the runner
\* broke off, are followed on as before.
LEMMA FollowGrows ==
    ASSUME A2aInv, async' = async, broke => broke',
           \A k \in 1..Len(chans) :
              /\ Len(chans[k].log) <= Len(chans'[k].log) /\ Len(chans'[k].log) \in Nat
              /\ \A i \in 1..Len(chans[k].log) : chans'[k].log[i] = chans[k].log[i]
              /\ \/ chans'[k].open = chans[k].open \/ chans[k].open = "claimed"
                 \/ /\ chans'[k].open = "closed"
                    /\ broke' \/ \E i \in 1..Len(chans[k].log) : chans[k].log[i].type \in Final,
           \A c \in Readers : reader'[c] = reader[c] \/ FollowOK(reader[c])'
    PROVE  A2aFollow'
<1> SUFFICES ASSUME NEW c \in Readers, reader'[c] = reader[c] PROVE FollowOK(reader[c])'
  BY DEF A2aFollow
<1> DEFINE r == reader[c]
           k == r.chan
<1> SUFFICES ASSUME r.kind = "v03", r.pc = "follow" PROVE FollowOK(reader[c])'
  BY DEF FollowOK
<1>1. /\ k # 0 /\ r.pos <= Len(chans[k].log) /\ chans[k].open # "claimed"
      /\ ~r.lagged => r.text = IF async THEN <<>> ELSE [i \in 1..r.pos |-> i]
      /\ \A i \in 1..r.pos : chans[k].log[i].type \notin Final
      /\ chans[k].open = "closed" /\ ~broke =>
            \E i \in 1..Len(chans[k].log) : chans[k].log[i].type \in Final
  BY DEF A2aInv, A2aFollow, FollowOK
<1>2. k \in 1..Len(chans) /\ r.pos \in Nat /\ chans[k] \in Channels
  BY <1>1 DEF A2aInv, A2aTypes, ReaderOK, ReaderRecs
<1>3. Len(chans[k].log) \in Nat
  BY <1>2 DEF Channels
<1> HIDE DEF k, r
<1>a. /\ Len(chans[k].log) <= Len(chans'[k].log) /\ Len(chans'[k].log) \in Nat
      /\ \A i \in 1..Len(chans[k].log) : chans'[k].log[i] = chans[k].log[i]
      /\ \/ chans'[k].open = chans[k].open \/ chans[k].open = "claimed"
         \/ /\ chans'[k].open = "closed"
            /\ broke' \/ \E i \in 1..Len(chans[k].log) : chans[k].log[i].type \in Final
  BY <1>2
<1> DEFINE old == chans[k].log
           new == chans'[k].log
<1>b. \A i \in 1..Len(old) : i \in 1..Len(new) /\ new[i] = old[i]
  BY <1>3, <1>a
<1>c. \A i \in 1..r.pos : i \in 1..Len(old)
  BY <1>1, <1>2, <1>3
<1>4. r.pos <= Len(chans'[k].log) /\ \A i \in 1..r.pos : chans'[k].log[i].type \notin Final
  <2>1. r.pos <= Len(new)
    BY <1>1, <1>2, <1>3, <1>a
  <2>2. ASSUME NEW i \in 1..r.pos PROVE new[i].type \notin Final
    <3>1. new[i] = old[i] /\ old[i].type \notin Final
      BY <1>1, <1>b, <1>c
    <3> QED BY <3>1
  <2> QED BY <2>1, <2>2
<1>5. chans'[k].open # "claimed"
  BY <1>1, <1>2
<1>6. ASSUME chans'[k].open = "closed", ~broke'
      PROVE  \E i \in 1..Len(chans'[k].log) : chans'[k].log[i].type \in Final
  <2>1. \E i \in 1..Len(old) : old[i].type \in Final
    BY <1>1, <1>6, <1>a
  <2>2. PICK i \in 1..Len(old) : old[i].type \in Final
    BY <2>1
  <2>3. i \in 1..Len(new) /\ new[i].type \in Final
    BY <1>b, <2>2
  <2> QED BY <2>3
<1>7. ~r.lagged => r.text = IF async' THEN <<>> ELSE [i \in 1..r.pos |-> i]
  BY <1>1
<1>8. reader'[c] = r /\ reader'[c].chan = k
  BY DEF r, k
<1> QED BY <1>1, <1>4, <1>5, <1>6, <1>7, <1>8 DEF FollowOK

\* Lemma: how many events of a type were sent; of a synchronous answer that is
\* under way, all of them are tokens.
LEMMA SentCounts ==
    ASSUME A2aInv, chans # <<>>
    PROVE  /\ \A e : Sent(e) \in Nat
           /\ stage = "run" /\ ~async => Sent("token") = Len(Log)
<1>1. Len(chans) \in 1..Len(chans) /\ chans[Len(chans)] \in Channels
  BY DEF A2aInv, A2aTypes
<1>2. Log \in Seq(Events)
  BY <1>1 DEF Log, Channels
<1>3. Len(Log) \in Nat /\ DOMAIN Log = 1..Len(Log)
  BY <1>2
<1>4. IsFiniteSet(1..Len(Log)) /\ Cardinality(1..Len(Log)) = Len(Log)
  BY <1>3, FS_Interval
<1>5. ASSUME NEW e PROVE Sent(e) \in Nat
  <2>1. {i \in DOMAIN Log : Log[i].type = e} \subseteq 1..Len(Log)
    BY <1>3
  <2> QED BY <1>4, <2>1, FS_Subset, FS_CardinalityType DEF Sent
<1>6. ASSUME stage = "run", ~async PROVE Sent("token") = Len(Log)
  <2>1. \A i \in 1..Len(Log) : Log[i].type = "token"
    BY <1>1, <1>6 DEF A2aInv, A2aLogs, EventOK, Log, Final
  <2>2. {i \in DOMAIN Log : Log[i].type = "token"} = 1..Len(Log)
    BY <1>3, <2>1
  <2> QED BY <1>4, <2>2 DEF Sent
<1> QED BY <1>5, <1>6

\* Lemma: a step that leaves every reader alone keeps what the readers have.
LEMMA ReadersStay ==
    ASSUME A2aInv, reader' = reader, unsaved => unsaved' PROVE StreamedWhole'
BY DEF A2aInv, StreamedWhole

\* Lemma: the hub's entry changes its state: a claim goes on or is let go, or
\* a runner lets its entry go, having sent an ending or broken off.
LEMMA EntryChanges ==
    ASSUME A2aInv, chans # <<>>, NEW st \in {"live", "closed"}, chans' = HubIs(st),
           async' = async, filed' = filed, broke => broke', unsaved => unsaved',
           Hub = "claimed" \/ (st = "closed" /\ (broke' \/ stage = "sent") /\ stage' = "off"),
           stage' \in {"off", "run"}, task = "working" \/ task' = task,
           \A c \in Readers : reader'[c] = reader[c] \/ FollowOK(reader[c])'
    PROVE  A2aLogs' /\ A2aFollow'
<1>0. A2aTypes /\ A2aHub /\ A2aLogs /\ A2aFollow
  BY DEF A2aInv
<1>1. /\ chans' \in Seq(Channels) /\ Len(chans') = Len(chans) /\ Len(chans) >= 1
      /\ \A k \in 1..Len(chans) : chans'[k].log = chans[k].log
      /\ \A k \in 1..Len(chans) - 1 : chans'[k] = chans[k]
      /\ chans'[Len(chans)].open = st
  BY <1>0, ChannelState
<1>2. ASSUME NEW k \in 1..Len(chans'), NEW i \in 1..Len(chans'[k].log)
      PROVE  EventOK(k, i, chans[k].log[i])'
  <2>1. k \in 1..Len(chans) /\ i \in 1..Len(chans[k].log) /\ chans'[k].log = chans[k].log
    BY <1>1
  <2>2. EventOK(k, i, chans[k].log[i])
    BY <1>0, <2>1 DEF A2aLogs
  <2>3. ASSUME k = Len(chans) PROVE stage' = "off"
    <3> SUFFICES ASSUME Hub = "claimed" PROVE FALSE
      OBVIOUS
    <3>1. Len(chans[k].log) = 0
      BY <1>0, <2>3 DEF A2aLogs, Log
    <3> QED BY <2>1, <3>1
  <2>4. CASE task = "working"
    BY <1>1, <2>1, <2>2, <2>3, <2>4 DEF EventOK, Final
  <2>5. CASE task' = task
    BY <1>1, <2>1, <2>2, <2>3, <2>5 DEF EventOK
  <2> QED BY <2>4, <2>5
<1>a. chans' # <<>> /\ Hub' # "claimed"
  BY <1>1 DEF Hub
<1>3. A2aLogs'
  BY <1>0, <1>2, <1>a DEF A2aLogs
<1>4. ASSUME NEW k \in 1..Len(chans)
      PROVE  /\ Len(chans[k].log) <= Len(chans'[k].log) /\ Len(chans'[k].log) \in Nat
             /\ \A i \in 1..Len(chans[k].log) : chans'[k].log[i] = chans[k].log[i]
             /\ \/ chans'[k].open = chans[k].open \/ chans[k].open = "claimed"
                \/ /\ chans'[k].open = "closed"
                   /\ broke' \/ \E i \in 1..Len(chans[k].log) : chans[k].log[i].type \in Final
  <2>1. chans[k] \in Channels
    BY <1>0 DEF A2aTypes
  <2>2. Len(chans[k].log) \in Nat /\ chans'[k].log = chans[k].log
    BY <1>1, <2>1 DEF Channels
  <2>3. CASE k = Len(chans)
    BY <1>0, <1>1, <2>2, <2>3 DEF Hub, A2aLogs, Log
  <2>4. CASE k # Len(chans)
    BY <1>1, <2>2, <2>4
  <2> QED BY <2>3, <2>4
<1> QED BY <1>3, <1>4, FollowGrows

\* Lemma: a new channel is opened, for the first runner or for a claim.
LEMMA EntryOpened ==
    ASSUME A2aInv, NEW st \in {"live", "claimed"}, chans' = Opened(st),
           async' = async, filed' = filed, broke' = broke, unsaved' = unsaved,
           chans = <<>> \/ (task = "working" /\ task' = task), stage' \in {"off", "run"},
           \A c \in Readers : reader'[c] = reader[c] \/ FollowOK(reader[c])'
    PROVE  A2aLogs' /\ A2aFollow'
<1>0. A2aTypes /\ A2aHub /\ A2aLogs /\ A2aFollow
  BY DEF A2aInv
<1>1. /\ chans' \in Seq(Channels) /\ Len(chans') = Len(chans) + 1 /\ Len(chans) \in Nat
      /\ \A k \in 1..Len(chans) : chans'[k] = chans[k]
      /\ chans'[Len(chans')].log = <<>> /\ chans'[Len(chans')].open = st
  BY <1>0, ChannelOpened DEF A2aTypes
<1>2. ASSUME NEW k \in 1..Len(chans'), NEW i \in 1..Len(chans'[k].log)
      PROVE  EventOK(k, i, chans[k].log[i])'
  <2>1. k # Len(chans')
    BY <1>1
  <2>2. k \in 1..Len(chans) /\ chans'[k] = chans[k]
    BY <1>1, <2>1
  <2>3. EventOK(k, i, chans[k].log[i]) /\ chans # <<>>
    BY <1>0, <2>2 DEF A2aLogs
  <2> QED BY <1>1, <2>1, <2>2, <2>3 DEF EventOK, Final
<1>a. Len(Log') = 0
  BY <1>1 DEF Log
<1>3. A2aLogs'
  BY <1>0, <1>2, <1>a DEF A2aLogs
<1>4. ASSUME NEW k \in 1..Len(chans)
      PROVE  /\ Len(chans[k].log) <= Len(chans'[k].log) /\ Len(chans'[k].log) \in Nat
             /\ \A i \in 1..Len(chans[k].log) : chans'[k].log[i] = chans[k].log[i]
             /\ chans'[k].open = chans[k].open
  <2>1. chans[k] \in Channels /\ chans'[k] = chans[k]
    BY <1>0, <1>1 DEF A2aTypes
  <2>2. Len(chans[k].log) \in Nat
    BY <2>1 DEF Channels
  <2> QED BY <2>1, <2>2
<1> QED BY <1>3, <1>4, FollowGrows

\* Lemma: the runner's steps.
LEMMA RunnerKeeps == A2aInv /\ A2aRunnerNext => A2aInv'
<1> SUFFICES ASSUME A2aInv, A2aRunnerNext PROVE A2aInv'
  OBVIOUS
<1>0. A2aTypes /\ A2aHub /\ A2aLogs /\ A2aFollow /\ StreamedWhole
  BY DEF A2aInv
<1>1. ASSUME NEW ok \in BOOLEAN, RunnerSends(ok) PROVE A2aInv'
  <2>1. stage = "run" /\ UNCHANGED <<async, stage, outcome, broke, reader, losses>>
    BY <1>1 DEF RunnerSends
  <2>2. chans # <<>> /\ Hub = "live" /\ task \in {"none", "working"}
    BY <1>0, <2>1 DEF A2aHub
  <2>3. PICK ev \in Events :
          /\ Send(ev)
          /\ unsaved => unsaved'
          /\ \/ async /\ task' \in {task, "working"} /\ ev.type = "async"
             \/ async /\ filed' = filed /\ task' = task /\ ev.type = "progress"
             \/ /\ ~async /\ filed' = filed /\ task' = task
                /\ ev.type = "token" /\ ev.n = Len(Log) + 1
    <3>1. Sent("token") \in Nat /\ (~async => Sent("token") = Len(Log))
      BY <2>1, <2>2, SentCounts
    <3>2. CASE async /\ Sent("async") = 0
      <4>1. [type |-> "async"] \in Events
        BY DEF Events
      <4>2. Send([type |-> "async"]) /\ task' \in {task, "working"} /\ (unsaved => unsaved')
        BY <1>1, <3>2 DEF RunnerSends, Saves
      <4> QED BY <3>2, <4>1, <4>2
    <3>3. CASE ~(async /\ Sent("async") = 0)
      <4> DEFINE x == [type |-> IF async THEN "progress" ELSE "token", n |-> Sent("token") + 1]
      <4>1. x \in Events /\ x.type = (IF async THEN "progress" ELSE "token") /\ x.n = Sent("token") + 1
        BY <3>1 DEF Events
      <4>2. Send(x) /\ filed' = filed /\ task' = task /\ (unsaved => unsaved')
        BY <1>1, <3>3 DEF RunnerSends
      <4> HIDE DEF x
      <4> QED BY <3>1, <4>1, <4>2
    <3> QED BY <3>2, <3>3
  <2>4. /\ chans' \in Seq(Channels) /\ Len(chans') = Len(chans) /\ Len(chans) >= 1
        /\ \A k \in 1..Len(chans) : chans'[k].open = chans[k].open
        /\ \A k \in 1..Len(chans) - 1 : chans'[k] = chans[k]
        /\ Len(chans'[Len(chans)].log) = Len(Log) + 1 /\ Len(Log) \in Nat
        /\ \A i \in 1..Len(Log) : chans'[Len(chans)].log[i] = Log[i]
        /\ chans'[Len(chans)].log[Len(Log) + 1] = ev
    BY <1>0, <2>2, <2>3, ChannelSend
  <2>5. A2aTypes'
    BY <1>0, <2>1, <2>3, <2>4 DEF A2aTypes, ReaderOK
  <2>6. A2aHub' /\ Hub' # "claimed"
    BY <1>0, <2>1, <2>2, <2>3, <2>4 DEF A2aHub, Hub, NoneOK
  <2>7. A2aLogs'
    <3>1. ASSUME NEW k \in 1..Len(chans'), NEW i \in 1..Len(chans'[k].log)
          PROVE  EventOK(k, i, chans[k].log[i])'
      <4>1. k \in 1..Len(chans) /\ Len(chans) \in Nat /\ chans[k] \in Channels
        BY <1>0, <2>4 DEF A2aTypes
      <4>2. CASE k = Len(chans) /\ i = Len(Log) + 1
        BY <2>1, <2>2, <2>3, <2>4, <4>1, <4>2 DEF EventOK, Final
      <4>3. CASE k = Len(chans) /\ i # Len(Log) + 1
        <5>1. i \in 1..Len(Log) /\ chans'[k].log[i] = Log[i]
          BY <2>4, <4>3
        <5>2. EventOK(k, i, Log[i])
          BY <1>0, <4>1, <4>3, <5>1 DEF A2aLogs, Log
        <5> QED BY <2>1, <2>3, <4>3, <5>1, <5>2 DEF EventOK
      <4>4. CASE k # Len(chans)
        <5>1. k \in 1..Len(chans) - 1 /\ chans'[k] = chans[k]
          BY <2>4, <4>1, <4>4
        <5>2. EventOK(k, i, chans[k].log[i])
          BY <1>0, <4>1, <5>1 DEF A2aLogs
        <5>3. task = "working"
          BY <1>0, <2>2, <5>1, <4>1 DEF A2aHub
        <5> QED BY <2>1, <2>3, <2>4, <4>4, <5>1, <5>2, <5>3 DEF EventOK, Final
      <4> QED BY <4>2, <4>3, <4>4
    <3>2. filed' => async'
      BY <1>0, <2>1, <2>3 DEF A2aLogs
    <3> QED BY <2>1, <2>6, <3>1, <3>2 DEF A2aLogs
  <2>8. A2aFollow'
    <3>1. \A k \in 1..Len(chans) :
            /\ Len(chans[k].log) <= Len(chans'[k].log) /\ Len(chans'[k].log) \in Nat
            /\ \A i \in 1..Len(chans[k].log) : chans'[k].log[i] = chans[k].log[i]
            /\ chans'[k].open = chans[k].open
      BY <1>0, <2>2, <2>3, SendGrows
    <3> QED BY <2>1, <3>1, FollowGrows
  <2> QED BY <2>1, <2>3, <2>5, <2>6, <2>7, <2>8, ReadersStay DEF A2aInv
<1>2. ASSUME NEW o \in Final, RunnerEnds(o) PROVE A2aInv'
  <2>1. /\ stage = "run" /\ stage' = "ended" /\ outcome' = o
        /\ UNCHANGED <<async, task, filed, chans, broke, unsaved, reader, losses>>
    BY <1>2 DEF RunnerEnds
  <2>2. chans # <<>> /\ Hub = "live" /\ task \in {"none", "working"}
    BY <1>0, <2>1 DEF A2aHub
  <2>3. ~async /\ o = "completed" => Len(Log) = Tokens
    <3> SUFFICES ASSUME ~async, o = "completed" PROVE Len(Log) = Tokens
      OBVIOUS
    <3>1. Log \in Seq(Events) /\ Len(chans) \in 1..Len(chans)
      <4>1. Len(chans) \in 1..Len(chans) /\ chans[Len(chans)] \in Channels
        BY <1>0, <2>2 DEF A2aTypes
      <4> QED BY <4>1 DEF Log, Channels
    <3>2. ASSUME NEW i \in DOMAIN Log PROVE Log[i].type # "async"
      <4>1. i \in 1..Len(Log)
        BY <3>1
      <4>2. EventOK(Len(chans), i, Log[i])
        BY <1>0, <3>1, <4>1 DEF A2aLogs, Log
      <4> QED BY <4>2 DEF EventOK, Final
    <3> QED BY <1>0, <1>2, <2>1, <2>2, <3>2, SentCounts DEF RunnerEnds, A2aLogs
  <2>4. A2aTypes'
    BY <1>0, <2>1 DEF A2aTypes, ReaderOK
  <2>5. A2aHub'
    BY <1>0, <2>1, <2>2 DEF A2aHub, Hub, NoneOK
  <2>6. A2aLogs'
    BY <1>0, <2>1, <2>3 DEF A2aLogs, EventOK, Log, Hub
  <2>7. A2aFollow'
    BY <1>0, <2>1 DEF A2aFollow, FollowOK
  <2> QED BY <2>1, <2>4, <2>5, <2>6, <2>7, ReadersStay DEF A2aInv
<1>3. ASSUME NEW ok \in BOOLEAN, StoreEnding(ok) PROVE A2aInv'
  <2>1. /\ stage = "ended" /\ stage' = "stored" /\ (unsaved => unsaved')
        /\ \/ task' = (IF task = "working" THEN outcome ELSE task)
           \/ unsaved' /\ task' = task
        /\ UNCHANGED <<async, filed, chans, outcome, broke, reader, losses>>
    BY <1>3 DEF StoreEnding, Saves
  <2>2. chans # <<>> /\ Hub = "live" /\ task \in {"none", "working"} /\ outcome \in Final
    BY <1>0, <2>1 DEF A2aHub
  <2>4. A2aTypes'
    BY <1>0, <2>1, <2>2 DEF A2aTypes, ReaderOK
  <2>5. A2aHub'
    BY <1>0, <2>1, <2>2 DEF A2aHub, Hub, NoneOK, Final
  <2>6. A2aLogs'
    <3>1. ASSUME NEW k \in 1..Len(chans), NEW i \in 1..Len(chans[k].log)
          PROVE  EventOK(k, i, chans[k].log[i])'
      <4>1. EventOK(k, i, chans[k].log[i])
        BY <1>0 DEF A2aLogs
      <4>2. CASE task = "none"
        BY <2>1, <4>1, <4>2 DEF EventOK
      <4>3. CASE task = "working"
        BY <2>1, <4>1, <4>3 DEF EventOK, Final
      <4> QED BY <2>2, <4>2, <4>3
    <3> QED BY <1>0, <2>1, <3>1 DEF A2aLogs, Log, Hub
  <2>7. A2aFollow'
    BY <1>0, <2>1 DEF A2aFollow, FollowOK
  <2> QED BY <2>1, <2>4, <2>5, <2>6, <2>7, ReadersStay DEF A2aInv
<1>4. ASSUME SendEnding PROVE A2aInv'
  <2>1. /\ stage = "stored" /\ stage' = "sent" /\ Send([type |-> outcome])
        /\ UNCHANGED <<async, task, filed, outcome, broke, unsaved, reader, losses>>
    BY <1>4 DEF SendEnding
  <2>2. /\ chans # <<>> /\ Hub = "live" /\ outcome \in Final
        /\ task \in {"none", outcome} \/ (unsaved /\ task = "working")
    BY <1>0, <2>1 DEF A2aHub
  <2> DEFINE ev == [type |-> outcome]
  <2>3. ev \in Events /\ ev.type = outcome /\ Send(ev)
    BY <2>1, <2>2 DEF Events
  <2> HIDE DEF ev
  <2>4. /\ chans' \in Seq(Channels) /\ Len(chans') = Len(chans) /\ Len(chans) >= 1
        /\ \A k \in 1..Len(chans) : chans'[k].open = chans[k].open
        /\ \A k \in 1..Len(chans) - 1 : chans'[k] = chans[k]
        /\ Len(chans'[Len(chans)].log) = Len(Log) + 1 /\ Len(Log) \in Nat
        /\ \A i \in 1..Len(Log) : chans'[Len(chans)].log[i] = Log[i]
        /\ chans'[Len(chans)].log[Len(Log) + 1] = ev
    BY <1>0, <2>2, <2>3, ChannelSend
  <2>5. A2aTypes'
    BY <1>0, <2>1, <2>4 DEF A2aTypes, ReaderOK
  <2>6. A2aHub' /\ Hub' # "claimed"
    BY <1>0, <2>1, <2>2, <2>4 DEF A2aHub, Hub, NoneOK
  <2>7. A2aLogs'
    <3>1. ASSUME NEW k \in 1..Len(chans'), NEW i \in 1..Len(chans'[k].log)
          PROVE  EventOK(k, i, chans[k].log[i])'
      <4>1. k \in 1..Len(chans) /\ Len(chans) \in Nat /\ chans[k] \in Channels
        BY <1>0, <2>4 DEF A2aTypes
      <4>2. CASE k = Len(chans) /\ i = Len(Log) + 1
        <5>1. ~async /\ outcome = "completed" => Len(Log) = Tokens
          BY <1>0, <2>1 DEF A2aLogs
        <5> QED BY <2>1, <2>2, <2>3, <2>4, <4>1, <4>2, <5>1 DEF EventOK, Final
      <4>3. CASE k = Len(chans) /\ i # Len(Log) + 1
        <5>1. i \in 1..Len(Log) /\ chans'[k].log[i] = Log[i]
          BY <2>4, <4>3
        <5>2. EventOK(k, i, Log[i])
          BY <1>0, <4>1, <4>3, <5>1 DEF A2aLogs, Log
        <5> QED BY <2>1, <4>3, <5>1, <5>2 DEF EventOK
      <4>4. CASE k # Len(chans)
        <5>1. k \in 1..Len(chans) - 1 /\ chans'[k] = chans[k]
          BY <2>4, <4>1, <4>4
        <5>2. EventOK(k, i, chans[k].log[i])
          BY <1>0, <4>1, <5>1 DEF A2aLogs
        <5> QED BY <2>1, <2>4, <4>4, <5>1, <5>2 DEF EventOK
      <4> QED BY <4>2, <4>3, <4>4
    <3>2. Log' = chans'[Len(chans)].log /\ Len(Log') = Len(Log) + 1 /\ Log'[Len(Log) + 1].type \in Final
      BY <2>2, <2>3, <2>4 DEF Log
    <3>3. \E i \in 1..Len(Log') : Log'[i].type \in Final
      BY <2>4, <3>2
    <3> QED BY <1>0, <2>1, <2>6, <3>1, <3>3 DEF A2aLogs
  <2>8. A2aFollow'
    <3>1. \A k \in 1..Len(chans) :
            /\ Len(chans[k].log) <= Len(chans'[k].log) /\ Len(chans'[k].log) \in Nat
            /\ \A i \in 1..Len(chans[k].log) : chans'[k].log[i] = chans[k].log[i]
            /\ chans'[k].open = chans[k].open
      BY <1>0, <2>2, <2>3, SendGrows
    <3> QED BY <2>1, <3>1, FollowGrows
  <2> QED BY <2>1, <2>5, <2>6, <2>7, <2>8, ReadersStay DEF A2aInv
<1>5. ASSUME RunnerGone PROVE A2aInv'
  <2>1. /\ stage \in {"sent", "run"} /\ stage' = "off" /\ chans' = HubIs("closed") /\ outcome' = "none"
        /\ broke' = (broke \/ stage = "run") /\ UNCHANGED <<async, task, filed, unsaved, reader>>
    BY <1>5 DEF RunnerGone
  <2>2. chans # <<>> /\ Hub = "live"
    BY <1>0, <2>1 DEF A2aHub
  <2>3. /\ chans' \in Seq(Channels) /\ Len(chans') = Len(chans) /\ Len(chans) >= 1
        /\ chans'[Len(chans)].open = "closed"
    BY <1>0, <2>1, <2>2, ChannelState
  <2>4. A2aTypes'
    BY <1>0, <2>1, <2>3 DEF A2aTypes, ReaderOK
  <2>5. A2aHub'
    BY <1>0, <2>1, <2>2, <2>3 DEF A2aHub, Hub, NoneOK
  <2>6. A2aLogs' /\ A2aFollow'
    BY <1>0, <2>1, <2>2, EntryChanges
  <2> QED BY <2>1, <2>4, <2>5, <2>6, ReadersStay DEF A2aInv
<1> QED BY <1>1, <1>2, <1>3, <1>4, <1>5 DEF A2aRunnerNext

\* Lemma: the start of the task.
LEMMA StartKeeps ==
    ASSUME A2aInv, NEW kind \in {"v03", "v10", "block", "mcp"}, StartTask(kind) PROVE A2aInv'
<1>0. A2aTypes /\ A2aHub /\ A2aLogs /\ A2aFollow /\ StreamedWhole
  BY DEF A2aInv
<1>1. /\ chans = <<>> /\ chans' = Opened("live") /\ stage' = "run"
      /\ task' = (IF kind = "mcp" THEN "none" ELSE "working")
      /\ UNCHANGED <<async, filed, outcome, broke, unsaved, losses>>
  BY DEF StartTask
<1> DEFINE r == [NoReader EXCEPT !.kind = kind, !.pc = "follow", !.chan = 1]
<1>2. reader = [c \in Readers |-> NoReader] /\ reader' = [reader EXCEPT ![First] = r] /\ First \in Readers
  BY <1>0, <1>1, A2aConstants DEF A2aHub, StartTask
<1>3. NoReader \in ReaderRecs /\ NoReader.told = <<>> /\ NoReader.pc = "idle" /\ NoReader.chan = 0
      /\ NoReader.text = <<>> /\ NoReader.pos = 0 /\ NoReader.kind = "none"
  <2>1. <<>> \in Seq(Nat) /\ <<>> \in Seq(Final)
    OBVIOUS
  <2> QED BY <2>1 DEF NoReader, ReaderRecs
<1>4. /\ r \in ReaderRecs /\ r.kind = kind /\ r.pc = "follow" /\ r.chan = 1 /\ r.pos = 0
      /\ r.text = <<>> /\ r.told = <<>>
  BY <1>3 DEF ReaderRecs
<1> HIDE DEF r
<1>5. reader'[First] = r /\ \A c \in Readers : c # First => reader'[c] = NoReader
  BY <1>2
<1>6. /\ chans' \in Seq(Channels) /\ Len(chans') = 1
      /\ chans'[1].log = <<>> /\ chans'[1].open = "live"
  <2>1. /\ chans' \in Seq(Channels) /\ Len(chans') = Len(chans) + 1
        /\ chans'[Len(chans')].log = <<>> /\ chans'[Len(chans')].open = "live"
    BY <1>0, <1>1, ChannelOpened
  <2>2. Len(chans) = 0
    BY <1>1
  <2> QED BY <2>1, <2>2
<1>7. A2aTypes'
  BY <1>0, <1>1, <1>2, <1>3, <1>4, <1>5, <1>6 DEF A2aTypes, ReaderOK
<1>8. A2aHub'
  <2>1. Len(chans') = 1
    BY <1>6, Zenon
  <2>2. chans' # <<>>
    BY <2>1
  <2>3. chans' # <<>> /\ Hub' = "live"
    BY <1>6, <2>1, <2>2 DEF Hub
  <2>4. \A c \in Readers : reader'[c].pc # "claim"
    BY <1>3, <1>4, <1>5
  <2>5. task' = "none" => \A c \in Readers : NoneOK(reader'[c])
    BY <1>1, <1>3, <1>4, <1>5 DEF NoneOK
  <2>6. stage' = "run" /\ task' \in {"none", "working"}
    BY <1>1
  <2>7. Len(chans') <= 1
    BY <2>1
  <2> QED BY <2>3, <2>4, <2>5, <2>6, <2>7 DEF A2aHub
<1>9. FollowOK(reader[First])'
  <2>1. Len(chans'[1].log) = 0
    BY <1>6
  <2>2. [i \in 1..r.pos |-> i] = <<>>
    BY <1>4
  <2>3. \A i \in 1..r.pos : FALSE
    BY <1>4
  <2> QED BY <1>4, <1>5, <1>6, <2>1, <2>2, <2>3 DEF FollowOK
<1>10. \A c \in Readers : reader'[c] = reader[c] \/ FollowOK(reader[c])'
  BY <1>2, <1>5, <1>9
<1>11. A2aLogs' /\ A2aFollow'
  BY <1>1, <1>10, EntryOpened
<1>12. StreamedWhole'
  <2>1. <<>> # << "completed" >>
    OBVIOUS
  <2> QED BY <1>3, <1>4, <1>5, <2>1 DEF StreamedWhole
<1> QED BY <1>7, <1>8, <1>11, <1>12 DEF A2aInv

\* Lemma: a restart of the process.
LEMMA RestartKeeps == ASSUME A2aInv, Restart PROVE A2aInv'
<1>0. A2aTypes /\ A2aHub /\ A2aLogs /\ A2aFollow /\ StreamedWhole
  BY DEF A2aInv
<1>1. /\ stage' = "off" /\ outcome' = "none" /\ chans' = << [log |-> <<>>, open |-> "closed"] >>
      /\ reader' = [c \in Readers |-> NoReader] /\ UNCHANGED <<async, task, filed, broke, unsaved>>
  BY DEF Restart
<1>2. NoReader \in ReaderRecs /\ NoReader.told = <<>> /\ NoReader.pc = "idle" /\ NoReader.chan = 0
      /\ NoReader.kind = "none"
  <2>1. <<>> \in Seq(Nat) /\ <<>> \in Seq(Final)
    OBVIOUS
  <2> QED BY <2>1 DEF NoReader, ReaderRecs
<1>3. /\ chans' \in Seq(Channels) /\ Len(chans') = 1 /\ chans' # <<>>
      /\ Len(chans'[1].log) = 0 /\ chans'[1].open = "closed"
  <2>1. [log |-> <<>>, open |-> "closed"] \in Channels
    BY DEF Channels
  <2> QED BY <1>1, <2>1
<1>4. A2aTypes'
  BY <1>0, <1>1, <1>2, <1>3 DEF A2aTypes, ReaderOK
<1>5. A2aHub'
  BY <1>0, <1>1, <1>2, <1>3 DEF A2aHub, NoneOK
<1>6. A2aLogs'
  <2>1. \A k \in 1..Len(chans') : k = 1
    BY <1>3
  <2>2. \A k \in 1..Len(chans') : \A i \in 1..Len(chans'[k].log) : FALSE
    BY <1>3, <2>1
  <2>3. Hub' = "closed"
    BY <1>3 DEF Hub
  <2> QED BY <1>0, <1>1, <2>2, <2>3 DEF A2aLogs
<1>7. A2aFollow'
  BY <1>1, <1>2 DEF A2aFollow, FollowOK
<1>8. StreamedWhole'
  BY <1>1, <1>2 DEF StreamedWhole
<1> QED BY <1>4, <1>5, <1>6, <1>7, <1>8 DEF A2aInv

\* Lemma: the steps of a reader before it follows.
LEMMA ComingKeeps ==
    ASSUME A2aInv, NEW c \in Readers,
           \/ \E owner \in BOOLEAN : ReadTask(c, owner)
           \/ SubscribeOrClaim(c) \/ (\E ok \in BOOLEAN : ClaimFailed(c, ok)) \/ ClaimResumed(c)
    PROVE  A2aInv'
<1>0. A2aTypes /\ A2aHub /\ A2aLogs /\ A2aFollow /\ StreamedWhole
  BY DEF A2aInv
<1>1. reader[c] \in ReaderRecs /\ ReaderOK(reader[c]) /\ (task = "none" => NoneOK(reader[c]))
  BY <1>0 DEF A2aTypes, A2aHub
<1>2. chans # <<>> /\ task # "none"
  BY <1>0, <1>1 DEF ReadTask, SubscribeOrClaim, ClaimFailed, ClaimResumed, A2aHub, NoneOK, NoReader
<1>3. Len(chans) \in Nat /\ Len(chans) >= 1 /\ chans[Len(chans)] \in Channels
  BY <1>0, <1>2 DEF A2aTypes
<1>4. Len(Log) \in Nat
  BY <1>3 DEF Log, Channels
<1>5. <<>> # << "completed" >>
  OBVIOUS
<1>6. ASSUME NEW owner \in BOOLEAN, ReadTask(c, owner) PROVE A2aInv'
  <2> DEFINE r == [reader[c] EXCEPT !.kind = "sub",
                                    !.pc = IF owner /\ task \notin Final THEN "ensure" ELSE "reread"]
  <2>1. /\ reader' = [reader EXCEPT ![c] = r] /\ reader[c].pc = "idle"
        /\ UNCHANGED <<async, task, filed, chans, stage, outcome, broke, unsaved, losses>>
    BY <1>6 DEF ReadTask
  <2>2. /\ r \in ReaderRecs /\ r.kind = "sub" /\ r.pc \in {"reread", "ensure"}
        /\ r.chan = reader[c].chan /\ r.told = reader[c].told
    BY <1>1 DEF ReaderRecs
  <2> HIDE DEF r
  <2>3. ReaderOK(r) /\ FollowOK(r) /\ WholeOK(r)
    BY <1>1, <1>5, <2>1, <2>2 DEF ReaderOK, FollowOK, WholeOK
  <2> QED BY <1>2, <2>1, <2>2, <2>3, ReaderMoves
<1>7. ASSUME SubscribeOrClaim(c) PROVE A2aInv'
  <2>1. reader[c].pc = "ensure" /\ UNCHANGED <<async, task, filed, stage, outcome, broke, unsaved, losses>>
    BY <1>7 DEF SubscribeOrClaim
  <2>2. CASE /\ Hub # "closed" /\ UNCHANGED chans
             /\ reader' = [reader EXCEPT ![c] = [@ EXCEPT !.pc = "reread", !.chan = Len(chans), !.pos = Len(Log)]]
    <3> DEFINE r == [reader[c] EXCEPT !.pc = "reread", !.chan = Len(chans), !.pos = Len(Log)]
    <3>1. reader' = [reader EXCEPT ![c] = r]
      BY <2>2
    <3>2. /\ r \in ReaderRecs /\ r.kind = reader[c].kind /\ r.pc = "reread"
          /\ r.chan = Len(chans) /\ r.told = reader[c].told
      BY <1>1, <1>3, <1>4 DEF ReaderRecs
    <3> HIDE DEF r
    <3>a. ReaderOK(r)
      BY <1>1, <1>3, <2>1, <3>2 DEF ReaderOK
    <3>3. FollowOK(r) /\ WholeOK(r)
      BY <1>1, <1>5, <2>1, <3>2 DEF ReaderOK, FollowOK, WholeOK
    <3> QED BY <1>2, <2>1, <2>2, <3>1, <3>2, <3>a, <3>3, ReaderMoves
  <2>3. CASE UNCHANGED chans /\ reader' = [reader EXCEPT ![c].pc = "reread"]
    <3> DEFINE r == [reader[c] EXCEPT !.pc = "reread"]
    <3>1. reader' = [reader EXCEPT ![c] = r]
      BY <2>3
    <3>2. /\ r \in ReaderRecs /\ r.kind = reader[c].kind /\ r.pc = "reread"
          /\ r.chan = reader[c].chan /\ r.told = reader[c].told
      BY <1>1 DEF ReaderRecs
    <3> HIDE DEF r
    <3>3. ReaderOK(r) /\ FollowOK(r) /\ WholeOK(r)
      BY <1>1, <1>5, <2>1, <3>2 DEF ReaderOK, FollowOK, WholeOK
    <3> QED BY <1>2, <2>1, <2>3, <3>1, <3>2, <3>3, ReaderMoves
  <2>4. CASE /\ Hub = "closed" /\ task \notin Final /\ chans' = Opened("claimed")
             /\ reader' = [reader EXCEPT ![c] = [@ EXCEPT !.pc = "claim", !.chan = Len(chans')]]
    <3>1. /\ chans' \in Seq(Channels) /\ Len(chans') = Len(chans) + 1
          /\ chans'[Len(chans')].open = "claimed"
      BY <1>0, <2>4, ChannelOpened
    <3>2. chans' # <<>> /\ Hub' = "claimed"
      BY <1>3, <3>1 DEF Hub
    <3>3. stage = "off" /\ task = "working" /\ \A d \in Readers : reader[d].pc # "claim"
      BY <1>0, <1>2, <2>4 DEF A2aHub, A2aTypes
    <3> DEFINE r == [reader[c] EXCEPT !.pc = "claim", !.chan = Len(chans')]
    <3>4. reader' = [reader EXCEPT ![c] = r]
      BY <2>4
    <3>b. Len(chans') \in Nat
      BY <1>3, <3>1
    <3>5. /\ r \in ReaderRecs /\ r.kind = reader[c].kind /\ r.pc = "claim"
          /\ r.chan = Len(chans') /\ r.told = reader[c].told
      BY <1>1, <3>b DEF ReaderRecs
    <3> HIDE DEF r
    <3>6. reader'[c] = r /\ \A d \in Readers : d # c => reader'[d] = reader[d]
      BY <1>0, <3>4 DEF A2aTypes
    <3>7. A2aTypes'
      <4>1. ASSUME NEW d \in Readers PROVE ReaderOK(reader[d])'
        <5>1. ReaderOK(reader[d]) /\ reader[d] \in ReaderRecs
          BY <1>0 DEF A2aTypes
        <5>2. CASE d = c
          BY <1>1, <1>3, <2>1, <3>1, <3>5, <3>6, <5>2 DEF ReaderOK
        <5>3. CASE d # c
          BY <1>3, <3>1, <3>6, <5>1, <5>3 DEF ReaderOK, ReaderRecs
        <5> QED BY <5>2, <5>3
      <4> QED BY <1>0, <2>1, <3>1, <3>4, <3>5, <4>1 DEF A2aTypes
    <3>8. A2aHub'
      BY <1>0, <1>2, <2>1, <3>2, <3>3, <3>5, <3>6 DEF A2aHub
    <3>9. \A d \in Readers : reader'[d] = reader[d] \/ FollowOK(reader[d])'
      BY <3>5, <3>6 DEF FollowOK
    <3>10. A2aLogs' /\ A2aFollow'
      BY <2>1, <2>4, <3>3, <3>9, EntryOpened
    <3>11. StreamedWhole'
      BY <1>0, <1>1, <1>5, <2>1, <3>5, <3>6 DEF StreamedWhole, ReaderOK
    <3> QED BY <3>7, <3>8, <3>10, <3>11 DEF A2aInv
  <2> QED BY <1>7, <2>2, <2>3, <2>4 DEF SubscribeOrClaim
<1>8. ASSUME NEW st \in {"live", "closed"}, chans' = HubIs(st), reader[c].pc = "claim",
             NEW k \in Nat, k <= Len(chans),
             reader' = [reader EXCEPT ![c] = [@ EXCEPT !.pc = "reread", !.chan = k]],
             \/ st = "live" /\ stage' = "run" /\ task' = task
             \/ st = "closed" /\ stage' = stage /\ task' \in {task, "failed"},
             unsaved => unsaved', UNCHANGED <<async, filed, outcome, broke, losses>>
      PROVE  A2aInv'
  <2>1. Hub = "claimed" /\ task = "working" /\ stage = "off" /\ \A d \in Readers : d # c => reader[d].pc # "claim"
    BY <1>0, <1>8 DEF A2aHub
  <2>2. chans' \in Seq(Channels) /\ Len(chans') = Len(chans) /\ chans'[Len(chans)].open = st
    BY <1>0, <1>2, <1>8, ChannelState
  <2>3. chans' # <<>> /\ Hub' = st
    BY <1>3, <2>2 DEF Hub
  <2> DEFINE r == [reader[c] EXCEPT !.pc = "reread", !.chan = k]
  <2>4. reader' = [reader EXCEPT ![c] = r]
    BY <1>8
  <2>5. /\ r \in ReaderRecs /\ r.kind = reader[c].kind /\ r.pc = "reread" /\ r.chan = k
        /\ r.told = reader[c].told
    BY <1>1, <1>8 DEF ReaderRecs
  <2> HIDE DEF r
  <2>6. reader'[c] = r /\ \A d \in Readers : d # c => reader'[d] = reader[d]
    BY <1>0, <2>4 DEF A2aTypes
  <2>7. A2aTypes'
    BY <1>0, <1>1, <1>8, <2>1, <2>2, <2>4, <2>5, <2>6 DEF A2aTypes, ReaderOK, Final
  <2>8. A2aHub'
    BY <1>0, <1>8, <2>1, <2>3, <2>5, <2>6 DEF A2aHub, Final
  <2>9. \A d \in Readers : reader'[d] = reader[d] \/ FollowOK(reader[d])'
    BY <2>5, <2>6 DEF FollowOK
  <2>10. A2aLogs' /\ A2aFollow'
    BY <1>2, <1>8, <2>1, <2>9, EntryChanges
  <2>11. StreamedWhole'
    BY <1>0, <1>1, <1>5, <1>8, <2>5, <2>6 DEF StreamedWhole, ReaderOK
  <2> QED BY <2>7, <2>8, <2>10, <2>11 DEF A2aInv
<1>9. ASSUME NEW ok \in BOOLEAN, ClaimFailed(c, ok) PROVE A2aInv'
  <2>1. 0 \in Nat /\ 0 <= Len(chans)
    BY <1>3
  <2>2. /\ reader[c].pc = "claim" /\ task' \in {task, "failed"} /\ chans' = HubIs("closed") /\ (unsaved => unsaved')
        /\ reader' = [reader EXCEPT ![c] = [@ EXCEPT !.pc = "reread", !.chan = 0]]
        /\ UNCHANGED <<async, filed, stage, outcome, broke, losses>>
    BY <1>9 DEF ClaimFailed, Saves
  <2> QED BY <1>8, <2>1, <2>2
<1>10. ASSUME ClaimResumed(c) PROVE A2aInv'
  <2>1. reader' = [reader EXCEPT ![c] = [@ EXCEPT !.pc = "reread", !.chan = reader[c].chan]]
    BY <1>1, <1>10 DEF ClaimResumed, ReaderRecs
  <2>2. reader[c].chan \in Nat /\ reader[c].chan <= Len(chans)
    BY <1>1 DEF ReaderRecs, ReaderOK
  <2> QED BY <1>8, <1>10, <2>1, <2>2 DEF ClaimResumed
<1> QED BY <1>6, <1>7, <1>9, <1>10

\* Lemma: what a reader is told next is an ending, or nothing.
LEMMA EndingsTold == /\ <<>> \in Tellings /\ \A o \in Final : << o >> \in Tellings
                     /\ Whole \in Seq(Nat) /\ Clamp(Whole) \in Seq(Nat)
                     /\ <<>> \in Seq(Nat) /\ <<>> # << "completed" >>
<1>1. Tokens \in Nat
  BY A2aConstants
<1>2. Whole \in Seq(Nat)
  BY <1>1 DEF Whole
<1>3. Clamp(Whole) \in Seq(Nat)
  <2>1. CASE Len(Whole) <= TextMax
    BY <1>2, <2>1 DEF Clamp
  <2>2. CASE ~(Len(Whole) <= TextMax)
    <3>1. TextMax \in Nat /\ TextMax <= Len(Whole)
      BY <1>2, <2>2, A2aConstants
    <3>2. SubSeq(Whole, 1, TextMax) \in Seq(Nat)
      BY <1>2, <3>1
    <3> QED BY <2>2, <3>2 DEF Clamp, Ellipsis
  <2> QED BY <2>1, <2>2
<1> QED BY <1>2, <1>3 DEF Tellings

\* Lemma: the record is read again.
LEMMA RereadKeeps ==
    ASSUME A2aInv, NEW c \in Readers, Reread(c) PROVE A2aInv'
<1>0. A2aTypes /\ A2aHub /\ A2aLogs /\ A2aFollow /\ StreamedWhole
  BY DEF A2aInv
<1>1. reader[c] \in ReaderRecs /\ ReaderOK(reader[c]) /\ (task = "none" => NoneOK(reader[c]))
  BY <1>0 DEF A2aTypes, A2aHub
<1>2. reader[c].pc = "reread" /\ UNCHANGED <<async, task, filed, chans, stage, outcome, broke, unsaved, losses>>
  BY DEF Reread
<1>3. chans # <<>> /\ task # "none"
  BY <1>0, <1>1, <1>2 DEF A2aHub, NoneOK, NoReader
<1>4. CASE task \in Final
  <2> DEFINE e == Ended(c, << task >>, <<>>)
             r == [e EXCEPT !.kind = "get"]
  <2>1. IsEnded(e, reader[c].kind, << task >>, <<>>)
    BY <1>0, <1>4, EndingsTold, EndedIsRecord
  <2>2. reader' = [reader EXCEPT ![c] = r]
    BY <1>4 DEF Reread
  <2> HIDE DEF e
  <2>3. r \in ReaderRecs /\ r.kind = "get" /\ r.pc = "ended" /\ r.chan = 0
    BY <2>1 DEF IsEnded, ReaderRecs
  <2> HIDE DEF r
  <2>4. Len(chans) \in Nat
    BY <1>0 DEF A2aTypes
  <2>5. ReaderOK(r) /\ FollowOK(r) /\ WholeOK(r)
    BY <2>3, <2>4 DEF ReaderOK, FollowOK, WholeOK
  <2> QED BY <1>2, <1>3, <2>2, <2>3, <2>5, ReaderMoves
<1>5. CASE task \notin Final /\ reader[c].chan = 0
  <2>1. reader' = [reader EXCEPT ![c] = Ended(c, <<>>, <<>>)]
    BY <1>5 DEF Reread
  <2> QED BY <1>2, <2>1, EndingsTold, ReaderEnds
<1>6. CASE task \notin Final /\ reader[c].chan # 0
  <2> DEFINE r == [reader[c] EXCEPT !.pc = "follow"]
  <2>1. reader' = [reader EXCEPT ![c] = r]
    BY <1>6 DEF Reread
  <2>2. /\ r \in ReaderRecs /\ r.kind = reader[c].kind /\ r.pc = "follow" /\ r.chan = reader[c].chan
        /\ r.told = reader[c].told
    BY <1>1 DEF ReaderRecs
  <2> HIDE DEF r
  <2>3. ReaderOK(r) /\ FollowOK(r) /\ WholeOK(r)
    BY <1>1, <1>2, <2>2, EndingsTold DEF ReaderOK, FollowOK, WholeOK
  <2> QED BY <1>2, <1>3, <2>1, <2>2, <2>3, ReaderMoves
<1> QED BY <1>4, <1>5, <1>6

\* Lemma: a reader that follows a channel, and what was sent there.
LEMMA FollowsLog ==
    ASSUME A2aInv, NEW c \in Readers, Following(c)
    PROVE  /\ reader[c].chan \in 1..Len(chans) /\ LogOf(c) \in Seq(Events) /\ chans # <<>>
           /\ Len(LogOf(c)) \in Nat /\ reader[c].pos \in Nat
           /\ \A i \in 1..Len(LogOf(c)) : EventOK(reader[c].chan, i, LogOf(c)[i])
<1>0. A2aTypes /\ A2aHub /\ A2aLogs
  BY DEF A2aInv
<1>1. reader[c] \in ReaderRecs /\ ReaderOK(reader[c]) /\ Len(chans) \in Nat
  BY <1>0 DEF A2aTypes
<1>2. reader[c].chan \in Nat /\ reader[c].chan # 0 /\ reader[c].chan <= Len(chans) /\ reader[c].pos \in Nat
  BY <1>1 DEF ReaderRecs, ReaderOK, Following
<1>3. reader[c].chan \in 1..Len(chans)
  BY <1>1, <1>2
<1>4. chans[reader[c].chan] \in Channels
  BY <1>0, <1>3 DEF A2aTypes
<1>5. LogOf(c) \in Seq(Events) /\ Len(LogOf(c)) \in Nat
  BY <1>4 DEF LogOf, Channels
<1>6. chans # <<>>
  BY <1>0, <1>3
<1>7. \A i \in 1..Len(LogOf(c)) : EventOK(reader[c].chan, i, LogOf(c)[i])
  BY <1>0, <1>3 DEF A2aLogs, LogOf
<1> QED BY <1>2, <1>3, <1>5, <1>6, <1>7

\* Lemma: a reader falls behind.
LEMMA LaggedKeeps ==
    ASSUME A2aInv, NEW c \in Readers, Lagged(c) PROVE A2aInv'
<1>0. A2aTypes /\ A2aHub /\ A2aLogs /\ A2aFollow /\ StreamedWhole
  BY DEF A2aInv
<1>1. reader[c] \in ReaderRecs /\ ReaderOK(reader[c]) /\ (task = "none" => NoneOK(reader[c])) /\ FollowOK(reader[c])
  BY <1>0 DEF A2aTypes, A2aHub, A2aFollow
<1>2. Following(c) /\ Behind(c) /\ UNCHANGED <<async, task, filed, chans, stage, outcome, broke, unsaved, losses>>
  BY DEF Lagged
<1> DEFINE n == Len(LogOf(c)) - Window
<1>3. /\ reader[c].chan \in 1..Len(chans) /\ LogOf(c) \in Seq(Events) /\ chans # <<>>
      /\ Len(LogOf(c)) \in Nat /\ reader[c].pos \in Nat
      /\ \A i \in 1..Len(LogOf(c)) : EventOK(reader[c].chan, i, LogOf(c)[i])
  BY <1>2, FollowsLog
<1>4. n \in Nat /\ n < Len(LogOf(c))
  BY <1>2, <1>3, A2aConstants DEF Behind
<1>5. \A i \in 1..n : i \in 1..Len(LogOf(c)) /\ LogOf(c)[i].type \notin Final
  <2> SUFFICES ASSUME NEW i \in 1..n PROVE i \in 1..Len(LogOf(c)) /\ LogOf(c)[i].type \notin Final
    OBVIOUS
  <2>1. i \in 1..Len(LogOf(c)) /\ i # Len(LogOf(c))
    BY <1>3, <1>4
  <2> QED BY <1>3, <2>1 DEF EventOK, LogOf
<1> DEFINE r == [reader[c] EXCEPT !.lagged = TRUE, !.pos = n]
<1>6. reader' = [reader EXCEPT ![c] = r]
  BY DEF Lagged
<1> HIDE DEF n
<1>7. /\ r \in ReaderRecs /\ r.kind = reader[c].kind /\ r.pc = "follow" /\ r.chan = reader[c].chan
      /\ r.told = reader[c].told /\ r.lagged = TRUE /\ r.pos = n
  BY <1>1, <1>2, <1>4 DEF ReaderRecs, Following
<1> HIDE DEF r
<1>8. ReaderOK(r) /\ WholeOK(r)
  BY <1>1, <1>2, <1>7, EndingsTold DEF ReaderOK, WholeOK, Following
<1>9. FollowOK(r)
  <2>1. n <= Len(LogOf(c))
    BY <1>3, <1>4
  <2> QED BY <1>1, <1>2, <1>5, <1>7, <2>1 DEF FollowOK, LogOf, Following
<1>10. task = "none" => NoneOK(r)
  BY <1>1, <1>7 DEF NoneOK
<1> QED BY <1>2, <1>3, <1>6, <1>7, <1>8, <1>9, <1>10, ReaderMoves

\* Lemma: a reader takes an event.
LEMMA TakeKeeps ==
    ASSUME A2aInv, NEW c \in Readers, TakeEvent(c) PROVE A2aInv'
<1>0. A2aTypes /\ A2aHub /\ A2aLogs /\ A2aFollow /\ StreamedWhole
  BY DEF A2aInv
<1> DEFINE q == reader[c]
           ev == LogOf(c)[q.pos + 1]
<1>1. q \in ReaderRecs /\ ReaderOK(q) /\ (task = "none" => NoneOK(q)) /\ FollowOK(q)
  BY <1>0 DEF A2aTypes, A2aHub, A2aFollow
<1>2. /\ Following(c) /\ q.pos < Len(LogOf(c))
      /\ UNCHANGED <<async, task, filed, chans, stage, outcome, broke, unsaved, losses>>
  BY DEF TakeEvent
<1>3. /\ q.chan \in 1..Len(chans) /\ LogOf(c) \in Seq(Events) /\ chans # <<>>
      /\ Len(LogOf(c)) \in Nat /\ q.pos \in Nat
      /\ \A i \in 1..Len(LogOf(c)) : EventOK(q.chan, i, LogOf(c)[i])
  BY <1>2, FollowsLog
<1>4. q.pos + 1 \in 1..Len(LogOf(c)) /\ EventOK(q.chan, q.pos + 1, ev) /\ ev \in Events
  BY <1>2, <1>3
<1>5. q.pc = "follow" /\ q.chan # 0 /\ q.told = <<>>
  BY <1>1, <1>2 DEF Following, ReaderOK
<1>a. q.text \in Seq(Nat)
  BY <1>1 DEF ReaderRecs
<1>6. CASE ev.type = "token" /\ q.kind = "v03"
  <2> DEFINE y == Append(q.text, ev.n)
             r == [q EXCEPT !.pos = q.pos + 1, !.text = y]
  <2>1. reader' = [reader EXCEPT ![c] = r]
    BY <1>6 DEF TakeEvent
  <2>2. ev.n \in Nat
    BY <1>4, <1>6 DEF Events, Final
  <2>3. y \in Seq(Nat)
    BY <1>a, <2>2
  <2>4. ~async /\ ev.n = q.pos + 1
    BY <1>4, <1>6 DEF EventOK
  <2>5. ~q.lagged => y = [i \in 1..q.pos + 1 |-> i]
    <3> SUFFICES ASSUME ~q.lagged PROVE y = [i \in 1..q.pos + 1 |-> i]
      OBVIOUS
    <3>1. q.text = [i \in 1..q.pos |-> i]
      BY <1>1, <1>5, <1>6, <2>4 DEF FollowOK
    <3>2. Len(q.text) = q.pos
      BY <1>3, <3>1
    <3>3. Len(y) = q.pos + 1 /\ y[q.pos + 1] = q.pos + 1 /\ \A i \in 1..q.pos : y[i] = i
      <4>1. /\ Len(y) = Len(q.text) + 1 /\ y[Len(q.text) + 1] = ev.n
            /\ \A i \in 1..Len(q.text) : y[i] = q.text[i]
        BY <1>a, <2>2, AppendProperties
      <4>2. \A i \in 1..q.pos : q.text[i] = i
        BY <3>1
      <4> HIDE DEF y, q, ev
      <4> QED BY <2>4, <3>2, <4>1, <4>2
    <3>4. DOMAIN y = 1..q.pos + 1 /\ \A i \in 1..q.pos + 1 : y[i] = i
      <4>1. DOMAIN y = 1..q.pos + 1
        BY <2>3, <3>3
      <4>2. ASSUME NEW i \in 1..q.pos + 1 PROVE y[i] = i
        <5>1. i \in 1..q.pos \/ i = q.pos + 1
          BY <1>3
        <5> QED BY <3>3, <5>1
      <4> QED BY <4>1, <4>2
    <3> HIDE DEF y
    <3> QED BY <2>3, <3>3, <3>4
  <2>6. q.pos + 1 \in Nat
    BY <1>3
  <2> HIDE DEF y
  <2>7. /\ r \in ReaderRecs /\ r.kind = q.kind /\ r.pc = "follow" /\ r.chan = q.chan
        /\ r.told = q.told /\ r.lagged = q.lagged /\ r.pos = q.pos + 1 /\ r.text = y
    BY <1>1, <1>5, <2>3, <2>6 DEF ReaderRecs
  <2> HIDE DEF r
  <2>8. ReaderOK(r) /\ WholeOK(r) /\ (task = "none" => NoneOK(r))
    BY <1>1, <1>5, <2>7, EndingsTold DEF ReaderOK, WholeOK, NoneOK
  <2>9. FollowOK(r)
    <3>1. \A i \in 1..q.pos + 1 : LogOf(c)[i].type \notin Final
      <4> SUFFICES ASSUME NEW i \in 1..q.pos + 1 PROVE LogOf(c)[i].type \notin Final
        OBVIOUS
      <4>1. i \in 1..q.pos \/ i = q.pos + 1
        BY <1>3
      <4> QED BY <1>1, <1>5, <1>6, <4>1 DEF FollowOK, LogOf, Final
    <3>2. q.pos + 1 <= Len(LogOf(c))
      BY <1>4
    <3> QED BY <1>1, <1>5, <1>6, <2>4, <2>5, <2>7, <3>1, <3>2 DEF FollowOK, LogOf
  <2> QED BY <1>2, <1>3, <2>1, <2>7, <2>8, <2>9, ReaderMoves
<1>7. CASE ev.type = "completed"
  <2> DEFINE x == IF q.kind = "v03" THEN DoneText(q) ELSE StoredText
  <2>1. reader' = [reader EXCEPT ![c] = Ended(c, << "completed" >>, x)]
    BY <1>7 DEF TakeEvent
  <2>2. x \in Seq(Nat)
    BY <1>a, EndingsTold DEF DoneText, StoredText
  <2>3. ASSUME q.kind = "v03" PROVE x = Whole
    <3>1. CASE q.text # <<>> /\ ~q.lagged
      <4>1. ~async /\ q.text = [i \in 1..q.pos |-> i]
        BY <1>1, <1>5, <2>3, <3>1 DEF FollowOK
      <4>2. q.pos + 1 = Tokens + 1
        BY <1>4, <1>7, <4>1 DEF EventOK
      <4>3. q.pos = Tokens
        BY <1>3, <4>2, A2aConstants
      <4> QED BY <2>3, <3>1, <4>1, <4>3 DEF DoneText, Whole
    <3>2. CASE ~(q.text # <<>> /\ ~q.lagged)
      BY <2>3, <3>2 DEF DoneText
    <3> QED BY <3>1, <3>2
  <2>4. ASSUME q.kind \in {"v10", "sub"} PROVE x = Clamp(Whole) \/ (unsaved /\ x = <<>>)
    BY <1>1, <1>4, <1>7, <2>4 DEF EventOK, NoneOK, StoredText, Final
  <2> HIDE DEF x
  <2>5. << "completed" >> \in Tellings
    BY EndingsTold DEF Final
  <2> QED BY <1>2, <1>5, <2>1, <2>2, <2>3, <2>4, <2>5, ReaderEnds
<1>8. CASE ev.type = "failed"
  <2>1. reader' = [reader EXCEPT ![c] = Ended(c, << "failed" >>, <<>>)]
    BY <1>8 DEF TakeEvent
  <2>2. << "failed" >> \in Tellings /\ << "failed" >> # << "completed" >>
    BY EndingsTold DEF Final
  <2> QED BY <1>2, <1>5, <2>1, <2>2, EndingsTold, ReaderEnds
<1>9. CASE ~(ev.type = "token" /\ q.kind = "v03") /\ ev.type \notin Final
  <2> DEFINE r == [q EXCEPT !.pos = q.pos + 1]
  <2>1. reader' = [reader EXCEPT ![c] = r]
    BY <1>9 DEF TakeEvent, Final
  <2>2. q.pos + 1 \in Nat
    BY <1>3
  <2>3. /\ r \in ReaderRecs /\ r.kind = q.kind /\ r.pc = "follow" /\ r.chan = q.chan
        /\ r.told = q.told /\ r.lagged = q.lagged /\ r.pos = q.pos + 1 /\ r.text = q.text
    BY <1>1, <1>5, <2>2 DEF ReaderRecs
  <2> HIDE DEF r
  <2>4. ReaderOK(r) /\ WholeOK(r) /\ (task = "none" => NoneOK(r))
    BY <1>1, <1>5, <2>3, EndingsTold DEF ReaderOK, WholeOK, NoneOK
  <2>5. FollowOK(r)
    <3> SUFFICES ASSUME q.kind = "v03" PROVE FollowOK(r)
      BY <2>3 DEF FollowOK
    <3>0. async
      BY <1>4, <1>9 DEF EventOK
    <3>1. \A i \in 1..q.pos + 1 : LogOf(c)[i].type \notin Final
      <4> SUFFICES ASSUME NEW i \in 1..q.pos + 1 PROVE LogOf(c)[i].type \notin Final
        OBVIOUS
      <4>1. i \in 1..q.pos \/ i = q.pos + 1
        BY <1>3
      <4> QED BY <1>1, <1>5, <1>9, <4>1 DEF FollowOK, LogOf
    <3>2. q.pos + 1 <= Len(LogOf(c))
      BY <1>4
    <3> QED BY <1>1, <1>5, <2>3, <3>0, <3>1, <3>2 DEF FollowOK, LogOf
  <2> QED BY <1>2, <1>3, <2>1, <2>3, <2>4, <2>5, ReaderMoves
<1> QED BY <1>6, <1>7, <1>8, <1>9 DEF Final

\* Lemma: a reader at the end of its channel, or of its patience.
LEMMA LeavingKeeps ==
    ASSUME A2aInv, NEW c \in Readers, Closed(c) \/ WaitOver(c) PROVE A2aInv'
<1>0. A2aTypes /\ A2aHub /\ A2aLogs /\ A2aFollow /\ StreamedWhole
  BY DEF A2aInv
<1>1. reader[c] \in ReaderRecs /\ ReaderOK(reader[c]) /\ (task = "none" => NoneOK(reader[c]))
  BY <1>0 DEF A2aTypes, A2aHub
<1>2. reader[c].pc = "follow" /\ UNCHANGED <<async, task, filed, chans, stage, outcome, broke, unsaved, losses>>
  BY DEF Closed, AtClose, WaitOver, Following
<1>3. StoredText \in Seq(Nat)
  BY EndingsTold DEF StoredText
<1>4. ASSUME Closed(c) PROVE A2aInv'
  <2>1. CASE reader[c].kind = "mcp"
    <3> DEFINE o == IF task = "completed" THEN task ELSE "failed"
    <3>0. reader' = [reader EXCEPT ![c] = Ended(c, << o >>, <<>>)]
      BY <1>4, <2>1 DEF Closed
    <3>1. reader' = [reader EXCEPT ![c] = Ended(c, << o >>, <<>>)] /\ o \in Final
      BY <3>0 DEF Final
    <3> HIDE DEF o
    <3> QED BY <1>2, <2>1, <3>1, EndingsTold, ReaderEnds
  <2>2. CASE reader[c].kind \notin {"mcp", "v03"} /\ task \in Final
    <3>1. reader' = [reader EXCEPT ![c] = Ended(c, << task >>, StoredText)]
      BY <1>4, <2>2 DEF Closed
    <3>2. << task >> = << "completed" >> => StoredText = Clamp(Whole)
      BY DEF StoredText
    <3> QED BY <1>2, <1>3, <2>2, <3>1, <3>2, EndingsTold, ReaderEnds
  <2>3. CASE reader[c].kind # "mcp" /\ ~(reader[c].kind # "v03" /\ task \in Final)
    <3>1. reader' = [reader EXCEPT ![c] = Ended(c, <<>>, <<>>)]
      BY <1>4, <2>3 DEF Closed
    <3> QED BY <1>2, <3>1, EndingsTold, ReaderEnds
  <2> QED BY <2>1, <2>2, <2>3
<1>5. ASSUME WaitOver(c) PROVE A2aInv'
  <2> DEFINE e == IF reader[c].kind = "block" /\ task \in Final THEN << task >> ELSE <<>>
             d == Ended(c, e, <<>>)
             r == [d EXCEPT !.cut = TRUE]
  <2>1. reader' = [reader EXCEPT ![c] = r]
    BY <1>5 DEF WaitOver
  <2>2. e \in Tellings /\ (reader[c].kind # "block" => e = <<>>)
    BY EndingsTold
  <2> HIDE DEF e
  <2>3. IsEnded(d, reader[c].kind, e, <<>>)
    BY <1>0, <2>2, EndingsTold, EndedIsRecord
  <2> HIDE DEF d
  <2>4. r \in ReaderRecs /\ r.kind = reader[c].kind /\ r.pc = "ended" /\ r.chan = 0 /\ r.told = e
    BY <2>3 DEF IsEnded, ReaderRecs
  <2> HIDE DEF r
  <2>5. Len(chans) \in Nat
    BY <1>0 DEF A2aTypes
  <2>6. ReaderOK(r) /\ FollowOK(r) /\ (task = "none" => NoneOK(r))
    BY <1>1, <2>4, <2>5 DEF ReaderOK, FollowOK, NoneOK
  <2>7. WholeOK(r)
    BY <2>2, <2>4, EndingsTold DEF WholeOK
  <2>8. chans # <<>>
    BY <1>5, FollowsLog DEF WaitOver
  <2> QED BY <1>2, <2>1, <2>4, <2>6, <2>7, <2>8, ReaderMoves
<1> QED BY <1>4, <1>5

\* Lemma: the readers' invariant holds at the start.
LEMMA A2aStart == Init => A2aInv
<1> SUFFICES ASSUME Init PROVE A2aInv
  OBVIOUS
<1>1. /\ async \in BOOLEAN /\ task = "none" /\ filed = FALSE /\ chans = <<>> /\ broke = FALSE
      /\ stage = "off" /\ outcome = "none" /\ reader = [c \in Readers |-> NoReader]
  BY DEF Init, A2aInit
<1>2. NoReader \in ReaderRecs /\ NoReader.told = <<>> /\ NoReader.pc = "idle" /\ NoReader.chan = 0
      /\ NoReader.kind = "none"
  <2>1. <<>> \in Seq(Nat) /\ <<>> \in Seq(Final)
    OBVIOUS
  <2> QED BY <2>1 DEF NoReader, ReaderRecs
<1>3. chans \in Seq(Channels) /\ Len(chans) = 0
  BY <1>1
<1>4. A2aTypes
  BY <1>1, <1>2, <1>3 DEF A2aTypes, ReaderOK
<1>5. A2aHub
  BY <1>1, <1>2, <1>3 DEF A2aHub, NoneOK
<1>6. A2aLogs
  <2>1. \A k \in 1..Len(chans) : FALSE
    BY <1>3
  <2> QED BY <1>1, <2>1 DEF A2aLogs
<1>7. A2aFollow /\ StreamedWhole
  BY <1>1, <1>2 DEF A2aFollow, FollowOK, StreamedWhole
<1> QED BY <1>4, <1>5, <1>6, <1>7 DEF A2aInv

\* Lemma: every step keeps it.
LEMMA A2aKept == A2aInv /\ [Next]_vars => A2aInv'
<1> SUFFICES ASSUME A2aInv, [Next]_vars PROVE A2aInv'
  OBVIOUS
<1>1. CASE UNCHANGED a2aVars
  <2>1. A2aTypes'
    BY <1>1 DEF a2aVars, A2aInv, A2aTypes, ReaderOK
  <2>2. A2aHub'
    BY <1>1 DEF a2aVars, A2aInv, A2aHub, Hub, NoneOK
  <2>3. A2aLogs'
    BY <1>1 DEF a2aVars, A2aInv, A2aLogs, EventOK, Log, Hub
  <2>4. A2aFollow'
    BY <1>1 DEF a2aVars, A2aInv, A2aFollow, FollowOK
  <2> QED BY <1>1, <2>1, <2>2, <2>3, <2>4, ReadersStay DEF a2aVars, A2aInv
<1>2. CASE A2aNext
  <2>1. ASSUME NEW k \in {"v03", "v10", "block", "mcp"}, StartTask(k) PROVE A2aInv'
    BY <2>1, StartKeeps
  <2>2. ASSUME A2aRunnerNext PROVE A2aInv'
    BY <2>2, RunnerKeeps
  <2>3. ASSUME Restart PROVE A2aInv'
    BY <2>3, RestartKeeps
  <2>4. ASSUME NEW c \in Readers,
               \/ (\E owner \in BOOLEAN : ReadTask(c, owner)) \/ SubscribeOrClaim(c)
               \/ (\E ok \in BOOLEAN : ClaimFailed(c, ok)) \/ ClaimResumed(c) \/ Reread(c)
               \/ Lagged(c) \/ TakeEvent(c) \/ Closed(c) \/ WaitOver(c)
        PROVE  A2aInv'
    BY <2>4, ComingKeeps, RereadKeeps, LaggedKeeps, TakeKeeps, LeavingKeeps
  <2> QED BY <1>2, <2>1, <2>2, <2>3, <2>4 DEF A2aNext
<1> QED BY <1>1, <1>2 DEF Next, TeamsStep, GoogleStep, SignalStep, DiscordStep, TelegramStep, ProcessStep,
                          A2aStep, vars

\* Theorem: a message/stream that says `completed` has shown the whole answer,
\* however many deltas its reader lost, whatever the size of the channel; a task
\* stream has shown the text as far as the record holds it (clamped), unless a
\* write of the record had failed.  It rests on the order of the events in a
\* channel (A2aLogs) and on what a message/stream client has put together of them
\* (A2aFollow).
THEOREM StreamsAreWhole == Spec => []StreamedWhole
<1>1. A2aInv => StreamedWhole
  BY DEF A2aInv
<1> QED BY <1>1, A2aStart, A2aKept, PTL DEF Spec

\* Lemma: a reader that ends by itself in this step is told what is stored.
LEMMA OutcomeTold ==
    ASSUME A2aInv, [Next]_vars, NEW c \in Readers,
           reader[c].pc # "ended", reader'[c].pc = "ended", ~reader'[c].cut, task \in Final,
           ~(broke /\ reader[c].kind = "v03"), ~unsaved
    PROVE  reader'[c].told = << task >>
<1>0. A2aTypes /\ A2aHub /\ A2aLogs /\ A2aFollow /\ StreamedWhole
  BY DEF A2aInv
<1>1. reader[c] \in ReaderRecs /\ FollowOK(reader[c]) /\ reader'[c] # reader[c] /\ task # "none"
  BY <1>0 DEF A2aTypes, A2aFollow, Final
<1>2. NoReader.pc = "idle"
  BY DEF NoReader
<1>3. A2aNext
  BY <1>1 DEF Next, TeamsStep, GoogleStep, SignalStep, DiscordStep, TelegramStep, ProcessStep, A2aStep,
     vars, a2aVars
<1>4. ASSUME NEW e \in Tellings, NEW x \in Seq(Nat)
      PROVE  /\ Ended(c, e, x).told = e /\ Ended(c, e, x).cut = FALSE
             /\ Ended(c, e, x) \in ReaderRecs
  <2>1. IsEnded(Ended(c, e, x), reader[c].kind, e, x)
    BY <1>0, EndedIsRecord
  <2> QED BY <2>1 DEF IsEnded
<1>5. ASSUME NEW k \in {"v03", "v10", "block", "mcp"}, StartTask(k) PROVE FALSE
  BY <1>0, <1>1, <1>5 DEF StartTask, A2aHub
<1>6. ASSUME A2aRunnerNext PROVE FALSE
  BY <1>1, <1>6 DEF A2aRunnerNext, RunnerSends, RunnerEnds, StoreEnding, SendEnding, RunnerGone
<1>7. ASSUME Restart PROVE FALSE
  BY <1>2, <1>7 DEF Restart
<1>8. PICK d \in Readers :
        \/ (\E owner \in BOOLEAN : ReadTask(d, owner)) \/ SubscribeOrClaim(d)
        \/ (\E ok \in BOOLEAN : ClaimFailed(d, ok)) \/ ClaimResumed(d) \/ Reread(d)
        \/ Lagged(d) \/ TakeEvent(d) \/ Closed(d) \/ WaitOver(d)
  BY <1>3, <1>5, <1>6, <1>7 DEF A2aNext
<1>9. d = c
  BY <1>0, <1>1, <1>8 DEF ReadTask, SubscribeOrClaim, ClaimFailed, ClaimResumed, Reread, Lagged, TakeEvent,
                          Closed, WaitOver, A2aTypes
<1>10. /\ \A owner \in BOOLEAN : ~ReadTask(c, owner)
       /\ ~SubscribeOrClaim(c) /\ (\A ok \in BOOLEAN : ~ClaimFailed(c, ok)) /\ ~ClaimResumed(c)
  BY <1>0, <1>1 DEF ReadTask, SubscribeOrClaim, ClaimFailed, ClaimResumed, A2aTypes, ReaderRecs
<1>11. ~Lagged(c)
  BY <1>0, <1>1 DEF Lagged, Following, A2aTypes, ReaderRecs
<1>12. ASSUME Reread(c) PROVE reader'[c].told = << task >>
  <2> DEFINE e == Ended(c, << task >>, <<>>)
  <2>1. reader'[c] = [e EXCEPT !.kind = "get"]
    BY <1>0, <1>12 DEF Reread, A2aTypes
  <2>2. e.told = << task >> /\ e \in ReaderRecs
    BY <1>4, EndingsTold
  <2> HIDE DEF e
  <2> QED BY <2>1, <2>2 DEF ReaderRecs
<1>13. ASSUME TakeEvent(c) PROVE reader'[c].told = << task >>
  <2> DEFINE q == reader[c]
             ev == LogOf(c)[q.pos + 1]
  <2>1. Following(c) /\ q.pos < Len(LogOf(c))
    BY <1>13 DEF TakeEvent
  <2>2. /\ Len(LogOf(c)) \in Nat /\ q.pos \in Nat
        /\ \A i \in 1..Len(LogOf(c)) : EventOK(q.chan, i, LogOf(c)[i])
    BY <2>1, FollowsLog
  <2>3. EventOK(q.chan, q.pos + 1, ev)
    BY <2>1, <2>2
  <2>4. ev.type \in Final => task = ev.type
    BY <1>1, <2>3 DEF EventOK
  <2>5. CASE ev.type = "completed"
    <3> DEFINE x == IF q.kind = "v03" THEN DoneText(q) ELSE StoredText
    <3>1. reader'[c] = Ended(c, << "completed" >>, x)
      BY <1>0, <1>13, <2>5 DEF TakeEvent, A2aTypes
    <3>2. x \in Seq(Nat)
      BY <1>1, EndingsTold DEF DoneText, StoredText, ReaderRecs
    <3>3. << "completed" >> \in Tellings
      BY EndingsTold DEF Final
    <3> HIDE DEF x
    <3> QED BY <1>4, <2>4, <2>5, <3>1, <3>2, <3>3 DEF Final
  <2>6. CASE ev.type = "failed"
    <3>1. reader'[c] = Ended(c, << "failed" >>, <<>>)
      BY <1>0, <1>13, <2>6 DEF TakeEvent, A2aTypes
    <3>2. << "failed" >> \in Tellings
      BY EndingsTold DEF Final
    <3> QED BY <1>4, <2>4, <2>6, <3>1, <3>2, EndingsTold DEF Final
  <2>7. CASE ev.type \notin Final
    <3>1. CASE ev.type = "token" /\ q.kind = "v03"
      <4>1. reader'[c] = [q EXCEPT !.pos = @ + 1, !.text = Append(@, ev.n)]
        BY <1>0, <1>13, <3>1 DEF TakeEvent, A2aTypes
      <4> QED BY <1>1, <2>1, <4>1 DEF Following, ReaderRecs
    <3>2. CASE ~(ev.type = "token" /\ q.kind = "v03")
      <4>1. reader'[c] = [q EXCEPT !.pos = @ + 1]
        BY <1>0, <1>13, <2>7, <3>2 DEF TakeEvent, A2aTypes, Final
      <4> QED BY <1>1, <2>1, <4>1 DEF Following, ReaderRecs
    <3> QED BY <3>1, <3>2
  <2> QED BY <2>5, <2>6, <2>7 DEF Final
<1>14. ASSUME Closed(c) PROVE reader'[c].told = << task >>
  <2>1. AtClose(c)
    BY <1>14 DEF Closed
  <2>2. CASE reader[c].kind = "v03"
    <3>1. ~broke /\ reader[c].pc = "follow" /\ reader[c].chan # 0
      BY <1>1, <2>1, <2>2 DEF AtClose, Following, FollowOK
    <3>2. reader[c].pos = Len(LogOf(c)) /\ chans[reader[c].chan].open = "closed"
      BY <2>1, <3>1 DEF AtClose
    <3>3. \E i \in 1..Len(LogOf(c)) : LogOf(c)[i].type \in Final
      BY <1>1, <2>2, <3>1, <3>2 DEF FollowOK, LogOf
    <3>4. \A i \in 1..Len(LogOf(c)) : LogOf(c)[i].type \notin Final
      BY <1>1, <2>2, <3>1, <3>2 DEF FollowOK, LogOf
    <3> QED BY <3>3, <3>4
  <2>3. CASE reader[c].kind = "mcp"
    <3> DEFINE o == IF task = "completed" THEN task ELSE "failed"
    <3>1. reader' = [reader EXCEPT ![c] = Ended(c, << o >>, <<>>)]
      BY <1>14, <2>3 DEF Closed
    <3>2. o = task
      BY DEF Final
    <3> HIDE DEF o
    <3>3. reader'[c] = Ended(c, << task >>, <<>>)
      BY <1>0, <3>1, <3>2 DEF A2aTypes
    <3>4. << task >> \in Tellings /\ <<>> \in Seq(Nat)
      BY EndingsTold
    <3> QED BY <1>4, <3>3, <3>4
  <2>4. CASE reader[c].kind \notin {"v03", "mcp"}
    <3>1. reader'[c] = Ended(c, << task >>, StoredText)
      BY <1>0, <1>14, <2>4 DEF Closed, A2aTypes
    <3>2. StoredText \in Seq(Nat)
      BY EndingsTold DEF StoredText
    <3>3. << task >> \in Tellings
      BY EndingsTold
    <3> QED BY <1>4, <3>1, <3>2, <3>3
  <2> QED BY <2>2, <2>3, <2>4
<1>15. ~WaitOver(c)
  <2> SUFFICES ASSUME WaitOver(c) PROVE FALSE
    OBVIOUS
  <2> DEFINE e == IF reader[c].kind = "block" /\ task \in Final THEN << task >> ELSE <<>>
             d1 == Ended(c, e, <<>>)
  <2>1. reader'[c] = [d1 EXCEPT !.cut = TRUE]
    BY <1>0 DEF WaitOver, A2aTypes
  <2>2. d1 \in ReaderRecs
    BY <1>4, EndingsTold
  <2> HIDE DEF d1
  <2> QED BY <2>1, <2>2 DEF ReaderRecs
<1> QED BY <1>8, <1>9, <1>10, <1>11, <1>12, <1>13, <1>14, <1>15

\* Theorem: a reader that ends by itself is told the one ending that is stored,
\* also if another reader's claim failed the task; only message/stream, whose
\* runner broke off, may be told nothing, and only a lost write of the record
\* lets the two differ.
THEOREM StreamsTellOutcome == Spec => StreamTellsOutcome
<1>1. A2aInv /\ [Next]_vars =>
        [\A c \in Readers :
           (/\ reader[c].pc # "ended" /\ reader'[c].pc = "ended" /\ ~reader'[c].cut /\ task \in Final
            /\ ~(broke /\ reader[c].kind = "v03") /\ ~unsaved)
           => reader'[c].told = << task >>]_a2aVars
  BY OutcomeTold
<1> QED BY <1>1, A2aStart, A2aKept, PTL DEF Spec, StreamTellsOutcome
=============================================================================
