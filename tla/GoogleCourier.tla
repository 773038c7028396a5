--------------------------- MODULE GoogleCourier ---------------------------
(***************************************************************************)
(* The out-of-band answer of one Google Chat turn: a placeholder message,  *)
(* progress patched into it, and the answer patched over it or posted.     *)
(*                                                                         *)
(* Google Chat (external) applies a call, refuses it, or the call ends     *)
(* with an error that does not tell; what was given up may be applied      *)
(* later.  `space` is what the messages of the turn show.                  *)
(***************************************************************************)
EXTENDS Naturals, Sequences

CONSTANT MaxChatFaults  \* bound: calls that do not succeed

VARIABLES
    step,         \* program point of courier_reply
    placeholder,  \* the message to patch, or 0
    result,       \* "answer", "empty" or "error"
    space,        \* space[m]: what message m shows
    straggler,    \* a progress patch that was given up and may still arrive
    overtaken,    \* history: one arrived after the answer
    postLines,    \* outcomes of the audited post lines
    chatFaults

gcVars == <<step, placeholder, result, space, straggler, overtaken, postLines, chatFaults>>

GcInit ==
    /\ step = "placeholder" /\ placeholder = 0 /\ result = "-" /\ space = <<>>
    /\ straggler = FALSE /\ overtaken = FALSE /\ postLines = <<>> /\ chatFaults = 0

GcFault == chatFaults < MaxChatFaults /\ chatFaults' = chatFaults + 1
GcWell == chatFaults' = chatFaults

\* send_chat_message: accepted; refused; or an error, created or not.
Create(text, then, refused, failed) ==
    \/ GcWell /\ space' = Append(space, text) /\ then
    \/ GcFault /\ space' = space /\ (refused \/ failed)
    \/ GcFault /\ space' = Append(space, text) /\ failed

\* patch_chat_message: likewise, on the placeholder.
Patch(text, then, refused, failed) ==
    \/ GcWell /\ space' = [space EXCEPT ![placeholder] = text] /\ then
    \/ GcFault /\ space' = space /\ (refused \/ failed)
    \/ GcFault /\ space' = [space EXCEPT ![placeholder] = text] /\ failed

Goto(s) == step' = s
Line(o) == postLines' = Append(postLines, o)

\* Best effort: without a name there is no placeholder to patch.
PostPlaceholder ==
    /\ step = "placeholder" /\ step' = "stream"
    /\ Create("working", placeholder' = Len(space) + 1, placeholder' = 0, placeholder' = 0)
    /\ UNCHANGED <<result, straggler, overtaken, postLines>>

\* Tokens: a growing text, at most one patch a second, its failure ignored.
PatchProgress ==
    /\ step = "stream" /\ placeholder # 0
    /\ Patch("partial", straggler' = straggler, straggler' = straggler,
             straggler' \in {straggler, TRUE})
    /\ UNCHANGED <<step, placeholder, result, overtaken, postLines>>

StragglerArrives ==
    /\ straggler /\ straggler' = FALSE /\ space' = [space EXCEPT ![placeholder] = "partial"]
    /\ overtaken' = (overtaken \/ step # "stream")
    /\ UNCHANGED <<step, placeholder, result, postLines, chatFaults>>

\* The stream's last frame, a stream without one, or a refused dispatch.  A
\* result that fails or renders to nothing is dropped on its one line.
StreamDone(r) ==
    /\ step = "stream" /\ result' = r
    /\ IF r = "answer" THEN step' = "deliver" /\ UNCHANGED postLines
       ELSE Line("dropped") /\ step' = IF r = "empty" /\ placeholder = 0 THEN "done" ELSE "notice"
    /\ UNCHANGED <<placeholder, space, straggler, overtaken, chatFaults>>

Notice ==
    /\ step = "notice" /\ step' = "done"
    /\ IF placeholder # 0 THEN Patch("notice", TRUE, TRUE, TRUE)
       ELSE Create("notice", TRUE, TRUE, TRUE)
    /\ UNCHANGED <<placeholder, result, straggler, overtaken, postLines>>

\* Mutant: any status of the final patch counts as delivered.
PatchAnswerAnyStatus ==
    /\ step = "deliver" /\ placeholder # 0
    /\ Patch("answer", Goto("done") /\ Line("posted"), Goto("done") /\ Line("posted"),
             Goto("create") /\ UNCHANGED postLines)
    /\ UNCHANGED <<placeholder, result, straggler, overtaken>>

\* A final patch that is refused or fails falls back to a new message.
PatchAnswer ==
    /\ step = "deliver" /\ placeholder # 0
    /\ Patch("answer", Goto("done") /\ Line("posted"), Goto("create") /\ UNCHANGED postLines,
             Goto("create") /\ UNCHANGED postLines)
    /\ UNCHANGED <<placeholder, result, straggler, overtaken>>

\* 5xx, 429 and transport errors are worth a retry, other statuses are not.
CreateAnswer ==
    /\ step = "create" \/ (step = "deliver" /\ placeholder = 0)
    /\ Goto("done")
    /\ Create("answer", Line("posted"), Line("dropped") \/ Line("retry"), Line("retry"))
    /\ UNCHANGED <<placeholder, result, straggler, overtaken>>

CourierReply == PostPlaceholder \/ Notice \/ PatchAnswer \/ CreateAnswer
GcNext == \/ CourierReply \/ PatchProgress \/ StragglerArrives
          \/ \E r \in {"answer", "empty", "error"} : StreamDone(r)

(***************************************************************************)
(* Properties                                                              *)
(***************************************************************************)
Shows(text) == \E m \in 1..Len(space) : space[m] = text

\* A finished turn has one post line; a line that says "posted" means that
\* the answer is there, unless a progress patch given up earlier arrived
\* after it; and if every call succeeded, no placeholder is left unresolved.
ChatAnswerSettles ==
    step = "done" =>
        /\ Len(postLines) = 1
        /\ postLines[1] = "posted" => result = "answer" /\ (Shows("answer") \/ overtaken)
        /\ chatFaults = 0 => ~Shows("working") /\ ~Shows("partial")
=============================================================================
