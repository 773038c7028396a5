----------------------------- MODULE Redelivery -----------------------------
(***************************************************************************)
(* What a platform holds until Triton has taken it.  WhatsApp posts its    *)
(* messages in batches and Telegram one update at a time; what is not      *)
(* answered with 2xx is posted again.  Telegram's long poll acknowledges   *)
(* with the offset of the next getUpdates, an offset that only the poller  *)
(* remembers.  Nobody keeps the ids of what was seen before.               *)
(*                                                                         *)
(* ChatIngress models the gates one message passes and shows that a turn   *)
(* that fails posts nothing (RetriedUnanswered); here a refusal is one,    *)
(* whichever gate it was.  Messages are numbers, in the order of their     *)
(* update ids; those of kind "last" are of one user, who has a form open   *)
(* at first and completes it; the others are of other users.  Deliveries   *)
(* share nothing but the slot of a form, which advance changes in one step,*)
(* so they are taken one at a time.                                        *)
(***************************************************************************)
EXTENDS Naturals, Sequences, FiniteSets

CONSTANTS
    Platforms,    \* the ways of delivery a behaviour is about
    Posted,       \* how many messages there are
    MaxMisses     \* bound: refusals, failures, lost connections and restarts

ASSUME RedeliveryConstants ==
    Platforms \subseteq {"whatsapp", "telegram", "poll"} /\ Posted \in Nat /\ MaxMisses \in Nat

VARIABLES
    platform,
    sort,       \* sort[m]: "text", "other" (no text) or "last"
    held,       \* what the platform has not seen acknowledged
    ahead,      \* of the delivery under way: what is still to be looked at,
    current,    \* the message whose turn runs (0: none),
    dealt,      \* what is over,
    replied,    \* and what of it was answered
    offset,     \* the poller's, in memory
    slot,       \* the user's open form, in memory (0: none); forms are numbered
    fate,       \* fate[m]: "none", "answered", "silent", "ignored" or "dropped"
    answers,    \* answers[m]: how often m was answered (history)
    wasted,     \* wasted[m]: answers whose delivery was not acknowledged (history)
    openedForms,     \* how many forms were openedForms (history)
    submitted,  \* the forms whose tool was called, in order (history)
    misses

rdVars == <<platform, sort, held, ahead, current, dealt, replied, offset, slot, fate, answers,
            wasted, openedForms, submitted, misses>>

All == 1..Posted

RdInit ==
    /\ platform \in Platforms /\ held = All /\ ahead = {} /\ current = 0 /\ dealt = {} /\ replied = {}
    /\ sort \in [All -> IF platform = "whatsapp" THEN {"text", "other"} ELSE {"text", "other", "last"}]
    /\ openedForms = (IF platform = "whatsapp" THEN 0 ELSE 1) /\ slot = openedForms
    /\ offset = 0 /\ fate = [m \in All |-> "none"]
    /\ answers = [m \in All |-> 0] /\ wasted = [m \in All |-> 0] /\ submitted = <<>>
    /\ misses = 0

Missed == misses < MaxMisses /\ misses' = misses + 1

(***************************************************************************)
(* The platform and the poller                                             *)
(***************************************************************************)
\* A webhook: any messages that wait on WhatsApp, one on Telegram.
Post(batch) ==
    /\ platform # "poll" /\ ahead = {} /\ current = 0 /\ dealt = {}
    /\ batch # {} /\ batch \subseteq held /\ (platform = "telegram" => Cardinality(batch) = 1)
    /\ ahead' = batch
    /\ UNCHANGED <<platform, sort, held, current, dealt, replied, offset, slot, fate, answers, wasted,
                   openedForms, submitted, misses>>

\* getUpdates(offset) lets go of what is below the offset and returns what has
\* arrived of the rest; an answer that is lost is an empty one.
GetUpdates(batch) ==
    /\ platform = "poll" /\ ahead = {} /\ current = 0
    /\ held' = {m \in held : m >= offset}
    /\ batch \subseteq held' /\ \A m \in batch : \A k \in held' \ batch : m < k
    /\ ahead' = batch /\ dealt' = {} /\ replied' = {}
    /\ UNCHANGED <<platform, sort, current, offset, slot, fate, answers, wasted, openedForms, submitted, misses>>

(***************************************************************************)
(* The messages of a delivery, one after the other                         *)
(***************************************************************************)
IsNext(m) == m \in ahead /\ current = 0 /\ \A k \in ahead : m <= k

\* The poller moves its offset past an update before anything else.
OffsetPast(m) == IF platform = "poll" /\ offset < m + 1 THEN m + 1 ELSE offset

\* A message is over; what the user was told is an answer.
HandledAs(m, f) ==
    /\ dealt' = dealt \cup {m} /\ fate' = [fate EXCEPT ![m] = f]
    /\ replied' = IF f = "answered" THEN replied \cup {m} ELSE replied
    /\ answers' = IF f = "answered" THEN [answers EXCEPT ![m] = @ + 1] ELSE answers
    /\ UNCHANGED <<held, wasted>>

\* The delivery is over and not acknowledged.
Unacknowledged ==
    /\ ahead' = {} /\ current' = 0 /\ dealt' = {} /\ replied' = {}
    /\ wasted' = [m \in All |-> wasted[m] + IF m \in replied THEN 1 ELSE 0]
    /\ UNCHANGED <<held, fate, answers>>

\* What has no text is accepted and ignored.
Ignore(m) ==
    /\ IsNext(m) /\ sort[m] = "other" /\ ahead' = ahead \ {m} /\ offset' = OffsetPast(m)
    /\ HandledAs(m, "ignored")
    /\ UNCHANGED <<platform, sort, current, slot, openedForms, submitted, misses>>

\* Mutant: the batch goes on after a message that is refused.
RefuseGoesOn(m) ==
    /\ IsNext(m) /\ Missed /\ ahead' = ahead \ {m} /\ dealt' = dealt \cup {m} /\ offset' = OffsetPast(m)
    /\ UNCHANGED <<platform, sort, held, current, replied, slot, fate, answers, wasted, openedForms, submitted>>

\* An unknown sender, or an empty bucket: the first one answers the whole
\* webhook; the poller goes on.  Of what has no text only the adapter's bucket
\* is asked, which a webhook asks once.
RefuseMessage(m) ==
    /\ IsNext(m) /\ Missed /\ (sort[m] = "other" => platform = "poll" \/ dealt = {})
    /\ IF platform = "poll"
       THEN ahead' = ahead \ {m} /\ offset' = OffsetPast(m) /\ HandledAs(m, "dropped") /\ UNCHANGED current
       ELSE Unacknowledged /\ UNCHANGED offset
    /\ UNCHANGED <<platform, sort, slot, openedForms, submitted>>

\* The turn begins.  An answer that completes a form takes the form out of its
\* slot before the tool is called.
Submits(m) == sort[m] = "last" /\ slot # 0

FormAfter(m) == IF sort[m] = "last" THEN 0 ELSE slot
Begin(m) ==
    /\ IsNext(m) /\ sort[m] # "other" /\ ahead' = ahead \ {m} /\ current' = m /\ offset' = OffsetPast(m)
    /\ slot' = FormAfter(m) /\ submitted' = IF Submits(m) THEN Append(submitted, slot) ELSE submitted
    /\ UNCHANGED <<platform, sort, held, dealt, replied, fate, answers, wasted, openedForms, misses>>

\* The sender of a completed form is resolved again, and told if that fails.
FormDropped(m) ==
    /\ IsNext(m) /\ Submits(m) /\ ahead' = ahead \ {m} /\ offset' = OffsetPast(m)
    /\ slot' = FormAfter(m) /\ (\E f \in {"answered", "silent"} : HandledAs(m, f))
    /\ UNCHANGED <<platform, sort, current, openedForms, submitted, misses>>

\* The tool's result is another form, which is installed; its first question is
\* what is then posted.
InstallForm ==
    /\ current # 0 /\ platform # "whatsapp" /\ sort[current] = "last" /\ slot = 0
    /\ openedForms' = openedForms + 1 /\ slot' = openedForms'
    /\ UNCHANGED <<platform, sort, held, ahead, current, dealt, replied, offset, fate, answers, wasted, submitted,
                   misses>>

\* The answer is posted, or there is none that could be: 200 all the same.
Turned(f) ==
    /\ current # 0 /\ f \in {"answered", "silent"} /\ HandledAs(current, f) /\ current' = 0
    /\ UNCHANGED <<platform, sort, ahead, offset, slot, openedForms, submitted, misses>>

\* telegram_status_for: a transient failure is answered with 5xx or 429, of
\* which the poller takes no notice; nor does it of a panic.  WhatsApp answers
\* 200 to every failure of a turn.
Failed ==
    /\ current # 0 /\ platform # "whatsapp" /\ Missed /\ (sort[current] = "last" => slot = 0)
    /\ IF platform = "poll" THEN HandledAs(current, "dropped") /\ current' = 0 /\ UNCHANGED ahead
                            ELSE Unacknowledged
    /\ UNCHANGED <<platform, sort, offset, slot, openedForms, submitted>>

\* 200
Acknowledge ==
    /\ platform # "poll" /\ ahead = {} /\ current = 0 /\ dealt # {}
    /\ held' = held \ dealt /\ dealt' = {} /\ replied' = {}
    /\ UNCHANGED <<platform, sort, ahead, current, offset, slot, fate, answers, wasted, openedForms, submitted,
                   misses>>

\* The platform hangs up: the handler is dropped where it waits.
HangsUp ==
    /\ platform # "poll" /\ (ahead # {} \/ current # 0 \/ dealt # {}) /\ Missed /\ Unacknowledged
    /\ UNCHANGED <<platform, sort, offset, slot, openedForms, submitted>>

\* The process ends, by a signal or a crash, and starts again.
RestartAll ==
    /\ Missed /\ Unacknowledged /\ offset' = 0 /\ slot' = 0
    /\ UNCHANGED <<platform, sort, openedForms, submitted>>

RdNext ==
    \/ \E batch \in SUBSET held : Post(batch) \/ GetUpdates(batch)
    \/ \E m \in ahead : Ignore(m) \/ RefuseMessage(m) \/ Begin(m) \/ FormDropped(m)
    \/ InstallForm \/ (\E f \in {"answered", "silent"} : Turned(f)) \/ Failed
    \/ Acknowledge \/ HangsUp \/ RestartAll

(***************************************************************************)
(* Properties                                                              *)
(***************************************************************************)
\* What the platform lets go of was dealt with to the end: answered, run without
\* anything to show, or ignored; only the poller, whose offset has moved on,
\* also loses what it refused or failed to run, never what it had not come to.
NoneLost ==
    \A m \in All \ held :
        fate[m] \in {"answered", "silent", "ignored"} \cup (IF platform = "poll" THEN {"dropped"} ELSE {})

\* A message is answered once more than its answers were wasted, and so twice
\* only if a delivery that had answered it was not acknowledged: a later
\* message of its batch was refused, the platform hung up, or the process
\* ended before its 200 or its next getUpdates.
AnswersPaid == \A m \in All : answers[m] <= wasted[m] + 1

\* A form is submitted at most once, however often its last answer is delivered
\* again: advance clears the slot before the tool is called.  (The retry after a
\* 5xx is then run as a plain message, and the submission is lost.)
SubmittedOnce == \A i, j \in DOMAIN submitted : submitted[i] = submitted[j] => i = j

\* What a platform delivers again: nothing is lost, answers repeat only at the
\* price of a delivery that was not acknowledged, and no form is submitted twice.
RedeliverySound == NoneLost /\ AnswersPaid /\ SubmittedOnce
=============================================================================
