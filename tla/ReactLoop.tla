----------------------------- MODULE ReactLoop -----------------------------
(***************************************************************************)
(* One turn of the ReAct loop: react_run of src/agent/react.c, from        *)
(* react_reset to react_finish_run, against a model that answers anything, *)
(* tools that fail, a history that cannot be written, and other threads    *)
(* that cancel the turn or queue a new requirement (a steer) at any time.  *)
(*                                                                         *)
(* What the loop does between two points where it waits for somebody else  *)
(* (the model, the tools) is one action: the other threads only write the  *)
(* cancel flags and the action queue, which are read once in between.      *)
(* The threads of a batch of tool calls are modelled in ToolCalls.         *)
(***************************************************************************)
EXTENDS Naturals

CONSTANTS
  MaxIterations,   \* ctx->max_iterations
  MaxRetries,      \* ctx->guardrail.max_retries
  MaxEmptyRounds,  \* ctx->guardrail.max_empty_rounds, 0 for no limit
  ToolMaxRetries,  \* ctx->tool_max_retries
  MaxCalls,        \* bound: tool calls in one response
  MaxSteers        \* bound: prompts queued during the turn

\* What the limits are, for the theorems.
LoopAssumption ==
  /\ MaxIterations \in Nat /\ MaxRetries \in Nat /\ MaxEmptyRounds \in Nat
  /\ ToolMaxRetries \in Nat /\ MaxCalls \in Nat /\ MaxSteers \in Nat

VARIABLES
  pc,
  iteration,
  state,          \* DONE and ABORT; every other state is "running"
  outcome,        \* ctx->outcome
  final,          \* ctx->final_answer: none, text or an empty model answer
  cancelled,      \* ctx->cancelled
  sigint,         \* react_sigint_flag
  queued,         \* prompts in the action queue
  drained,        \* prompts appended to the messages
  steers,         \* prompts queued so far
  seen,           \* history: prompts that were in the last request
  response,       \* what the model answered
  left,           \* tool calls of the response not collected yet
  failures,       \* ctx->tool_fail_count
  guard_retries,  \* ctx->guardrail_retry_count
  empty_rounds,   \* ctx->empty_round_count
  compacted,      \* ctx->in_turn_compaction_count > 0
  note_retries,   \* ctx->incomplete_final_retry_count
  history_error,  \* ctx->history_error # 0
  interrupted     \* history: cancelled before the last response was looked at

flow == <<pc, iteration>>
result == <<state, outcome, final>>
stop == <<cancelled, sigint>>
queue == <<queued, drained, steers>>
counts == <<failures, guard_retries, empty_rounds, compacted, note_retries>>
rest == <<seen, response, left, history_error, interrupted>>
vars == <<flow, result, stop, queue, counts, rest>>

Outcomes == {"none", "success", "cancelled", "llm_error", "internal_error",
             "guardrail_denied", "max_iterations"}
Responses == {"none", "tools", "answer", "note", "empty", "error"}

TypeOK ==
  /\ pc \in {"begin", "top", "ask", "asking", "answered", "act", "acting",
             "joined", "propose", "end", "done"}
  /\ iteration \in 0..MaxIterations
  /\ state \in {"running", "done", "abort"}
  /\ outcome \in Outcomes
  /\ final \in {"none", "text", "empty"}
  /\ cancelled \in BOOLEAN /\ sigint \in BOOLEAN
  /\ queued \in 0..MaxSteers /\ drained \in 0..MaxSteers
  /\ steers \in 0..MaxSteers /\ seen \in 0..MaxSteers
  /\ response \in Responses
  /\ left \in 0..MaxCalls
  /\ failures \in 0..ToolMaxRetries
  /\ guard_retries \in 0..MaxRetries
  /\ empty_rounds \in 0..MaxIterations
  /\ compacted \in BOOLEAN
  /\ note_retries \in 0..1
  /\ history_error \in BOOLEAN /\ interrupted \in BOOLEAN

\* react_reset
Init ==
  /\ pc = "begin" /\ iteration = 0
  /\ state = "running" /\ outcome = "none" /\ final = "none"
  /\ cancelled = FALSE /\ sigint \in BOOLEAN
  /\ queued = 0 /\ drained = 0 /\ steers = 0 /\ seen = 0
  /\ response = "none" /\ left = 0
  /\ failures = 0 /\ guard_retries = 0 /\ empty_rounds = 0
  /\ compacted = FALSE /\ note_retries = 0
  /\ history_error = FALSE /\ interrupted = FALSE

react_set_result(o) ==
  /\ outcome' = o
  /\ state' = IF o = "success" THEN "done" ELSE "abort"

GoTo(p) == pc' = p /\ UNCHANGED iteration
NextIteration == pc' = "top" /\ iteration' = iteration + 1
\* break with a result
BreakWith(o) == react_set_result(o) /\ GoTo("end")

\* A write to the model history fails.
HistoryFails ==
  /\ history_error' = TRUE
  /\ BreakWith("internal_error")

-----------------------------------------------------------------------------
(* Before the loop.                                                        *)

\* The prompt is denied, and the guardrail's message is the answer.
react_check_input_guardrail == BreakWith("guardrail_denied") /\ final' = "text"

\* The system prompt or the messages cannot be built.
react_prepare_messages == BreakWith("internal_error") /\ UNCHANGED final

react_begin ==
  /\ pc = "begin"
  /\ \/ GoTo("top") /\ UNCHANGED <<result, history_error>>
     \/ react_check_input_guardrail /\ UNCHANGED history_error
     \/ BreakWith("llm_error") /\ UNCHANGED <<final, history_error>>        \* no API key
     \/ react_prepare_messages /\ UNCHANGED history_error
     \/ HistoryFails /\ UNCHANGED final
     \/ GoTo("done") /\ UNCHANGED <<result, history_error>>   \* no turn id
  /\ UNCHANGED <<stop, queue, counts, seen, response, left, interrupted>>

-----------------------------------------------------------------------------
(* react_drain_actions: take the interrupt flag, then append and persist   *)
(* the queued prompts; a cancelled turn ends.                              *)

StopRequested == cancelled \/ sigint

TakeStop == cancelled' = StopRequested /\ sigint' = FALSE

TakePrompts(k) ==
  /\ queued' = queued - k
  /\ drained' = drained + k
  /\ UNCHANGED steers

\* Some prompts are taken; one cannot be appended, persisted, or taken in by
\* the memory.
DrainFails ==
  /\ queued > 0
  /\ TakeStop
  /\ \E k \in 0..queued : TakePrompts(k)
  /\ BreakWith("internal_error")
  /\ history_error' \in {history_error, TRUE}
  /\ UNCHANGED final

DrainCancelled ==
  /\ StopRequested
  /\ TakeStop /\ TakePrompts(queued)
  /\ BreakWith("cancelled")
  /\ UNCHANGED <<final, history_error>>

DrainPasses ==
  /\ ~StopRequested
  /\ TakePrompts(queued)
  /\ UNCHANGED <<stop, history_error>>

-----------------------------------------------------------------------------
(* One iteration.                                                          *)

IterationBegins ==
  /\ pc = "top" /\ iteration < MaxIterations
  /\ \/ DrainFails
     \/ DrainCancelled
     \/ DrainPasses /\ GoTo("ask") /\ UNCHANGED result
  /\ UNCHANGED <<counts, seen, response, left, interrupted>>

LoopEnds ==
  /\ pc = "top" /\ iteration = MaxIterations
  /\ GoTo("end")
  /\ UNCHANGED <<result, stop, queue, counts, rest>>

\* The window may be compacted while it grows past the trigger.
react_maybe_compact_active_window == compacted' \in {compacted, TRUE}

\* Memory context, active tools and in-turn compaction, each of which may
\* fail; then the request goes out with everything drained so far.
AskModel ==
  /\ pc = "ask"
  /\ react_maybe_compact_active_window
  /\ \/ GoTo("asking") /\ UNCHANGED result /\ seen' = drained
     \/ (BreakWith("internal_error") \/ BreakWith("llm_error")) /\ UNCHANGED <<final, seen>>
  /\ UNCHANGED <<stop, queue, failures, guard_retries, empty_rounds, note_retries,
                 response, left, history_error, interrupted>>

\* react_chat_once.  A prompt that arrives, or a cancel, aborts the transfer
\* (an error).
react_chat_once ==
  /\ pc = "asking"
  /\ response' \in Responses \ {"none"}
  /\ interrupted' = StopRequested
  /\ GoTo("answered")
  /\ UNCHANGED <<result, stop, queue, counts, seen, left, history_error>>

\* Mutant: a prompt does not discard the response.
ResponseArrived_keeps ==
  /\ pc = "answered"
  /\ \/ DrainPasses /\ response \in {"tools"} /\ GoTo("act") /\ UNCHANGED result
     \/ DrainPasses /\ response # "tools" /\ NextIteration /\ UNCHANGED result
  /\ UNCHANGED <<counts, seen, response, left, interrupted>>

\* What had arrived of the answer is kept.
react_handle_llm_cancelled ==
  /\ TakeStop
  /\ final' = IF response \in {"answer", "note"} THEN "text" ELSE final
  /\ BreakWith("cancelled")

react_handle_llm_error == response = "error" /\ BreakWith("llm_error")

\* A response that comes after the outcome was set is dropped.  Otherwise:
\* cancelled; prompts drained, which discards the response; an error; tool
\* calls; a final answer.  The prompts are drained only if not cancelled.
ResponseArrived ==
  /\ pc = "answered"
  /\ \/ /\ outcome # "none"
        /\ GoTo("end") /\ UNCHANGED <<result, stop, queue, history_error>>
     \/ /\ outcome = "none" /\ StopRequested
        /\ react_handle_llm_cancelled /\ UNCHANGED <<queue, history_error>>
     \/ outcome = "none" /\ ~StopRequested /\ DrainFails
     \/ /\ outcome = "none" /\ DrainPasses
        /\ UNCHANGED final
        /\ \/ queued > 0 /\ NextIteration /\ UNCHANGED <<state, outcome>>
           \/ queued = 0 /\ react_handle_llm_error
           \/ queued = 0 /\ response = "tools" /\ GoTo("act") /\ UNCHANGED <<state, outcome>>
           \/ /\ queued = 0 /\ response \in {"answer", "note", "empty"}
              /\ GoTo("propose") /\ UNCHANGED <<state, outcome>>
  /\ UNCHANGED <<counts, seen, response, left, interrupted>>

-----------------------------------------------------------------------------
(* Tool calls.                                                             *)

\* Ids and inputs are prepared, the calls persisted, then the threads started.
RecordToolCalls ==
  /\ pc = "act"
  /\ \/ /\ GoTo("acting")
        /\ left' \in 1..MaxCalls
        /\ UNCHANGED <<result, history_error>>
     \/ BreakWith("internal_error") /\ UNCHANGED <<final, left, history_error>>
     \/ HistoryFails /\ UNCHANGED <<final, left>>
  /\ UNCHANGED <<stop, queue, counts, seen, response, interrupted>>

\* react_start_tool_calls fails at some call: the result is set, the calls
\* already started (left) are still joined.
StartFails ==
  /\ pc = "acting" /\ outcome = "none"
  /\ react_set_result("internal_error")
  /\ left' \in 0..(left - 1)
  /\ GoTo(IF left' = 0 THEN "joined" ELSE "acting")
  /\ UNCHANGED <<final, stop, queue, counts, seen, response, history_error, interrupted>>

\* A call joined, denied or timed out with a result that is persisted.  Joining
\* sets the state to OBSERVING; react_track_tool_failure counts the failures
\* of a joined call, of the same call again or of another one.
CollectResult ==
  /\ pc = "acting" /\ left > 0
  /\ \/ failures' = 0 /\ state' = "running"
     \/ failures' = failures + 1 /\ failures' < ToolMaxRetries /\ state' = "running"
     \/ failures' = 1 /\ 1 < ToolMaxRetries /\ state' = "running"
     \/ UNCHANGED <<failures, state>>   \* denied or timed out
  /\ left' = left - 1
  /\ GoTo(IF left = 1 THEN "joined" ELSE "acting")
  /\ UNCHANGED <<outcome, final, stop, queue, guard_retries, empty_rounds, compacted,
                 note_retries, seen, response, history_error, interrupted>>

\* The limit of failures is reached: a canned final answer, state DONE.  If
\* the result cannot be persisted that becomes the outcome.
GiveUp ==
  /\ pc = "acting" /\ left > 0
  /\ failures + 1 >= ToolMaxRetries
  /\ final' = "text"
  /\ failures' = 0
  /\ left' = 0
  /\ \/ state' = "done" /\ UNCHANGED <<outcome, history_error>> /\ GoTo("end")
     \/ HistoryFails
  /\ UNCHANGED <<stop, queue, guard_retries, empty_rounds, compacted, note_retries,
                 seen, response, interrupted>>

CollectFails ==
  /\ pc = "acting" /\ left > 0
  /\ HistoryFails
  /\ left' = 0
  /\ UNCHANGED <<final, stop, queue, counts, seen, response, interrupted>>

\* A join is interrupted: the rest of the batch is abandoned.  That the result
\* could not be persisted does not change the outcome.
JoinCancelled ==
  /\ pc = "acting" /\ left > 0 /\ StopRequested
  /\ cancelled' = TRUE
  /\ react_set_result("cancelled")
  /\ history_error' \in {history_error, TRUE}
  /\ left' = 0
  /\ GoTo("joined")
  /\ UNCHANGED <<final, sigint, queue, counts, seen, response, interrupted>>

\* The drain that ends react_join_tool_calls, and its return value.
Joined ==
  /\ pc = "joined"
  /\ \/ DrainFails
     \/ DrainCancelled
     \/ /\ DrainPasses
        /\ IF state = "running" THEN NextIteration ELSE GoTo("end")
        /\ UNCHANGED result
  /\ UNCHANGED <<counts, seen, response, left, interrupted>>

-----------------------------------------------------------------------------
(* react_handle_final_response.                                            *)

IsNote == response = "note" /\ compacted /\ note_retries = 0
IsEmpty == response = "empty"

\* After a compaction, one continuation note is sent back.
RetryNote ==
  /\ pc = "propose" /\ IsNote
  /\ note_retries' = 1
  /\ NextIteration
  /\ UNCHANGED <<result, stop, queue, failures, guard_retries, empty_rounds, compacted, rest>>

\* The guardrail is off, satisfied, or out of retries.
AcceptFinal ==
  /\ pc = "propose" /\ ~IsNote /\ ~IsEmpty
  /\ empty_rounds' \in {0, empty_rounds}   \* left alone if the guardrail is off
  /\ final' = "text"
  /\ BreakWith("success")
  /\ UNCHANGED <<stop, queue, failures, guard_retries, compacted, note_retries, rest>>

\* An empty answer, or one the guardrail objects to, is sent back.
GuardrailRetry ==
  /\ pc = "propose" /\ ~IsNote
  /\ guard_retries < MaxRetries
  /\ empty_rounds' = IF IsEmpty THEN empty_rounds + 1 ELSE 0
  /\ (IsEmpty /\ MaxEmptyRounds > 0) => empty_rounds' < MaxEmptyRounds
  /\ guard_retries' = guard_retries + 1
  /\ NextIteration
  /\ UNCHANGED <<result, stop, queue, failures, compacted, note_retries, rest>>

\* The model keeps answering nothing.
EmptyResponse ==
  /\ pc = "propose" /\ IsEmpty
  /\ empty_rounds' = empty_rounds + 1
  /\ \/ guard_retries >= MaxRetries
     \/ MaxEmptyRounds > 0 /\ empty_rounds' >= MaxEmptyRounds
  /\ final' = "text"
  /\ BreakWith("llm_error")
  /\ UNCHANGED <<stop, queue, failures, guard_retries, compacted, note_retries, rest>>

ProposeFails ==
  /\ pc = "propose"
  /\ BreakWith("internal_error")
  /\ UNCHANGED <<final, stop, queue, counts, rest>>

-----------------------------------------------------------------------------
(* react_complete_max_iterations, then react_finish_run.                   *)

Completed ==
  IF state = "running" THEN "max_iterations"
  ELSE IF outcome = "none" /\ state = "done" THEN "success"
  ELSE outcome

react_finish_run ==
  /\ pc = "end"
  /\ IF Completed = outcome THEN UNCHANGED <<outcome, state>> ELSE react_set_result(Completed)
  /\ final' = IF state = "running" /\ final = "none" THEN "text" ELSE final
  /\ sigint' = FALSE
  /\ GoTo("done")
  /\ UNCHANGED <<cancelled, queue, counts, rest>>

-----------------------------------------------------------------------------
(* The other threads.                                                      *)

react_cancel ==
  /\ pc # "done" /\ ~cancelled
  /\ cancelled' = TRUE
  /\ UNCHANGED <<flow, result, sigint, queue, counts, rest>>

\* Cancels the contexts between react_active_push and react_active_pop (this
\* one too unless 16 others were there before it) and raises the flag.
react_cancel_active ==
  /\ pc # "done" /\ ~sigint
  /\ sigint' = TRUE
  /\ cancelled' \in {cancelled, cancelled \/ pc \notin {"begin", "end"}}
  /\ UNCHANGED <<flow, result, queue, counts, rest>>

QueuePrompt ==
  /\ pc # "done" /\ steers < MaxSteers
  /\ steers' = steers + 1
  /\ queued' = queued + 1
  /\ UNCHANGED <<flow, result, stop, drained, counts, rest>>

Loop ==
  \/ react_begin \/ IterationBegins \/ LoopEnds \/ AskModel \/ react_chat_once
  \/ ResponseArrived \/ RecordToolCalls \/ StartFails \/ CollectResult \/ GiveUp
  \/ CollectFails \/ JoinCancelled \/ Joined
  \/ RetryNote \/ AcceptFinal \/ GuardrailRetry \/ EmptyResponse \/ ProposeFails
  \/ react_finish_run

Next == Loop \/ react_cancel \/ react_cancel_active \/ QueuePrompt

Spec == Init /\ [][Next]_vars

\* The model and the tools answer (a request and a call have deadlines).
FairSpec == Spec /\ WF_vars(Loop)

-----------------------------------------------------------------------------
(* Properties                                                              *)

\* A requirement added while the model was answering discards the answer: tools
\* are started, and a final answer is proposed, only if the request they come
\* from contained every prompt taken from the queue so far.  Every variable
\* keeps its type, and the counters their limits.
SteersHonoured ==
  /\ TypeOK
  /\ pc \in {"act", "acting", "propose"} => seen = drained

\* Once a write to the model history has failed the model is not asked again:
\* the turn is on its way out, whichever write it was.
HistoryErrorStops == history_error => pc \in {"joined", "end", "done"}

\* A turn that succeeds has an answer, never an empty model response, and was
\* not cancelled (by either flag) when the response arrived.
SuccessEarned == outcome = "success" => final = "text" /\ ~interrupted

\* A turn answers the last requirement, stops once the history cannot be written
\* and succeeds only with an answer (react_run).
TurnEarned == SteersHonoured /\ HistoryErrorStops /\ SuccessEarned

\* Whatever the model, the tools and the other threads do, the turn ends.
Terminates == <>(pc = "done")
=============================================================================
