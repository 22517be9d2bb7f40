--------------------------- MODULE ReactLoopProofs ---------------------------
(***************************************************************************)
(* Theorems about one turn of the loop, for every value of its limits.     *)
(***************************************************************************)
EXTENDS ReactLoop, TLAPS

\* TypeOK in three parts: the numbers, the marks and the flags.
Numbers ==
  /\ iteration \in 0..MaxIterations
  /\ queued \in 0..MaxSteers /\ drained \in 0..MaxSteers
  /\ steers \in 0..MaxSteers /\ seen \in 0..MaxSteers
  /\ left \in 0..MaxCalls
  /\ failures \in 0..ToolMaxRetries
  /\ guard_retries \in 0..MaxRetries
  /\ empty_rounds \in 0..MaxIterations
  /\ note_retries \in 0..1
Marks ==
  /\ pc \in {"begin", "top", "ask", "asking", "answered", "act", "acting",
             "joined", "propose", "end", "done"}
  /\ state \in {"running", "done", "abort"}
  /\ outcome \in Outcomes
  /\ final \in {"none", "text", "empty"}
  /\ response \in Responses
Flags ==
  /\ cancelled \in BOOLEAN /\ sigint \in BOOLEAN
  /\ compacted \in BOOLEAN
  /\ history_error \in BOOLEAN /\ interrupted \in BOOLEAN

\* Prompts are counted once, and an iteration is under way only below the limit.
CountsAgree ==
  /\ queued + drained = steers
  /\ pc \in {"ask", "asking", "answered", "act", "acting", "joined", "propose"}
       => iteration < MaxIterations
  /\ empty_rounds <= iteration \/ pc \in {"end", "done"}

\* The request under way, and what comes of it, has every prompt drained so far.
RequestCurrent == pc \in {"asking", "answered", "act", "acting", "propose"} => seen = drained

\* After a failed write a join leads out of the loop.
ErrorAbandons ==
  /\ history_error => pc \in {"joined", "end", "done"}
  /\ history_error /\ pc = "joined" => state # "running"

\* A flag that was up when the model answered is still up when the answer is looked
\* at, so an answer that is used was not interrupted; and only a turn that has its
\* answer is done.
AnswerEarned ==
  /\ pc = "answered" /\ interrupted => StopRequested
  /\ pc \in {"act", "acting", "joined", "propose"} => ~interrupted
  /\ state = "done" \/ outcome = "success" => pc \in {"end", "done"}
  /\ state = "done" /\ outcome \in {"none", "success"} => final = "text" /\ ~interrupted
  /\ outcome = "success" => state = "done"

IInv == Numbers /\ Marks /\ Flags /\ CountsAgree /\ RequestCurrent /\ ErrorAbandons /\ AnswerEarned

\* A drain takes prompts from the queue to the messages.
LEMMA DrainCounts ==
  ASSUME LoopAssumption, Numbers, CountsAgree, DrainFails \/ DrainCancelled \/ DrainPasses
  PROVE  /\ queued' \in 0..MaxSteers /\ drained' \in 0..MaxSteers
         /\ steers' = steers /\ queued' + drained' = steers'
<1>1. PICK k \in 0..queued : TakePrompts(k)
  <2>1. queued \in 0..queued BY DEF Numbers, LoopAssumption
  <2> QED BY <2>1, Zenon DEF DrainFails, DrainCancelled, DrainPasses
<1> QED BY <1>1 DEF TakePrompts, Numbers, LoopAssumption, CountsAgree

\* A drain that fails or is cancelled breaks out of the loop.
LEMMA DrainBreaks ==
  ASSUME DrainFails \/ DrainCancelled
  PROVE  pc' = "end" /\ iteration' = iteration
BY Zenon DEF DrainFails, DrainCancelled, BreakWith, GoTo

\* No counter passes its limit.
LEMMA NumbersStep ==
  ASSUME LoopAssumption, Numbers, CountsAgree, Next PROVE Numbers'
<1>1. CASE react_begin
    BY <1>1, Zenon DEF react_begin, react_check_input_guardrail, react_prepare_messages, queue, counts,
                GoTo, BreakWith, HistoryFails, LoopAssumption,
     Numbers, CountsAgree
<1>2. CASE IterationBegins
  BY <1>2, DrainCounts, DrainBreaks, Zenon DEF IterationBegins, counts, GoTo, Numbers, CountsAgree,
                                        LoopAssumption
<1>3. CASE LoopEnds
    BY <1>3, Zenon DEF LoopEnds, queue, counts, rest, GoTo, LoopAssumption, Numbers, CountsAgree
<1>4. CASE AskModel
    BY <1>4, Zenon DEF AskModel, react_maybe_compact_active_window, queue, GoTo, BreakWith,
                LoopAssumption, Numbers, CountsAgree
<1>5. CASE react_chat_once
    BY <1>5, Zenon DEF react_chat_once, queue, counts, GoTo, LoopAssumption, Numbers, CountsAgree
<1>6. CASE ResponseArrived
  BY <1>6, DrainCounts, DrainBreaks DEF ResponseArrived, react_handle_llm_cancelled,
                                        react_handle_llm_error, queue, counts, GoTo, BreakWith,
                                        NextIteration, Numbers, CountsAgree, LoopAssumption
<1>7. CASE RecordToolCalls
    BY <1>7 DEF RecordToolCalls, queue, counts, GoTo, BreakWith, HistoryFails, LoopAssumption,
     Numbers, CountsAgree
<1>8. CASE StartFails
    BY <1>8 DEF StartFails, queue, counts, GoTo, LoopAssumption, Numbers, CountsAgree
<1>9. CASE CollectResult
    BY <1>9 DEF CollectResult, queue, GoTo, LoopAssumption, Numbers, CountsAgree
<1>10. CASE GiveUp
    BY <1>10 DEF GiveUp, queue, GoTo, HistoryFails, BreakWith, LoopAssumption, Numbers,
     CountsAgree
<1>11. CASE CollectFails
    BY <1>11 DEF CollectFails, queue, counts, HistoryFails, BreakWith, GoTo, LoopAssumption,
     Numbers, CountsAgree
<1>12. CASE JoinCancelled
    BY <1>12 DEF JoinCancelled, queue, counts, GoTo, LoopAssumption, Numbers, CountsAgree
<1>13. CASE Joined
  BY <1>13, DrainCounts, DrainBreaks DEF Joined, counts, NextIteration, GoTo, Numbers,
                                         CountsAgree, LoopAssumption
<1>14. CASE RetryNote
    BY <1>14 DEF RetryNote, queue, rest, IsNote, NextIteration, LoopAssumption, Numbers,
     CountsAgree
<1>15. CASE AcceptFinal
    BY <1>15 DEF AcceptFinal, queue, rest, IsNote, BreakWith, GoTo, LoopAssumption, Numbers,
     CountsAgree
<1>16. CASE GuardrailRetry
    BY <1>16 DEF GuardrailRetry, queue, rest, IsNote, NextIteration, LoopAssumption, Numbers,
     CountsAgree
<1>17. CASE EmptyResponse
    BY <1>17 DEF EmptyResponse, queue, rest, BreakWith, GoTo, LoopAssumption, Numbers,
     CountsAgree
<1>18. CASE ProposeFails
    BY <1>18, Zenon DEF ProposeFails, queue, counts, rest, BreakWith, GoTo, LoopAssumption, Numbers,
     CountsAgree
<1>19. CASE react_finish_run
    BY <1>19, Zenon DEF react_finish_run, queue, counts, rest, GoTo, LoopAssumption, Numbers,
     CountsAgree
<1>20. CASE react_cancel
    BY <1>20, Zenon DEF react_cancel, flow, queue, counts, rest, LoopAssumption, Numbers, CountsAgree
<1>21. CASE react_cancel_active
    BY <1>21, Zenon DEF react_cancel_active, flow, queue, counts, rest, LoopAssumption, Numbers,
     CountsAgree
<1>22. CASE QueuePrompt
    BY <1>22 DEF QueuePrompt, flow, counts, rest, LoopAssumption, Numbers, CountsAgree
<1> QED BY <1>1, <1>2, <1>3, <1>4, <1>5, <1>6, <1>7, <1>8, <1>9, <1>10, <1>11, <1>12, <1>13,
       <1>14, <1>15, <1>16, <1>17, <1>18, <1>19, <1>20, <1>21, <1>22, Zenon DEF Next, Loop

\* No prompt is lost or counted twice, and no iteration starts at the limit.
LEMMA CountsStep ==
  ASSUME LoopAssumption, Numbers, CountsAgree, Next PROVE CountsAgree'
<1>1. CASE react_begin
    BY <1>1, Zenon DEF react_begin, react_check_input_guardrail, react_prepare_messages, queue, counts,
                GoTo, BreakWith, HistoryFails, LoopAssumption,
     Numbers, CountsAgree
<1>2. CASE IterationBegins
  BY <1>2, DrainCounts, DrainBreaks, Zenon DEF IterationBegins, counts, GoTo, Numbers, CountsAgree,
                                        LoopAssumption
<1>3. CASE LoopEnds
    BY <1>3, Zenon DEF LoopEnds, queue, counts, GoTo, LoopAssumption, Numbers, CountsAgree
<1>4. CASE AskModel
    BY <1>4, Zenon DEF AskModel, react_maybe_compact_active_window, queue, GoTo, BreakWith,
                LoopAssumption, Numbers, CountsAgree
<1>5. CASE react_chat_once
    BY <1>5, Zenon DEF react_chat_once, queue, counts, GoTo, LoopAssumption, Numbers, CountsAgree
<1>6. CASE ResponseArrived
  BY <1>6, DrainCounts, DrainBreaks DEF ResponseArrived, react_handle_llm_cancelled,
                                        react_handle_llm_error, queue, counts, GoTo, BreakWith,
                                        NextIteration, Numbers, CountsAgree, LoopAssumption
<1>7. CASE RecordToolCalls
    BY <1>7, Zenon DEF RecordToolCalls, queue, counts, GoTo, BreakWith, HistoryFails, LoopAssumption,
     Numbers, CountsAgree
<1>8. CASE StartFails
    BY <1>8, Zenon DEF StartFails, queue, counts, GoTo, LoopAssumption, Numbers, CountsAgree
<1>9. CASE CollectResult
    BY <1>9, Zenon DEF CollectResult, queue, GoTo, LoopAssumption, Numbers, CountsAgree
<1>10. CASE GiveUp
    BY <1>10, Zenon DEF GiveUp, queue, GoTo, HistoryFails, BreakWith, LoopAssumption, Numbers,
     CountsAgree
<1>11. CASE CollectFails
    BY <1>11, Zenon DEF CollectFails, queue, counts, HistoryFails, BreakWith, GoTo, LoopAssumption,
     Numbers, CountsAgree
<1>12. CASE JoinCancelled
    BY <1>12, Zenon DEF JoinCancelled, queue, counts, GoTo, LoopAssumption, Numbers, CountsAgree
<1>13. CASE Joined
  BY <1>13, DrainCounts, DrainBreaks DEF Joined, counts, NextIteration, GoTo, Numbers,
                                         CountsAgree, LoopAssumption
<1>14. CASE RetryNote
    BY <1>14 DEF RetryNote, queue, NextIteration, LoopAssumption, Numbers, CountsAgree
<1>15. CASE AcceptFinal
    BY <1>15, Zenon DEF AcceptFinal, queue, BreakWith, GoTo, LoopAssumption, Numbers, CountsAgree
<1>16. CASE GuardrailRetry
    BY <1>16 DEF GuardrailRetry, queue, NextIteration, LoopAssumption, Numbers, CountsAgree
<1>17. CASE EmptyResponse
    BY <1>17, Zenon DEF EmptyResponse, queue, BreakWith, GoTo, LoopAssumption, Numbers, CountsAgree
<1>18. CASE ProposeFails
    BY <1>18, Zenon DEF ProposeFails, queue, counts, BreakWith, GoTo, LoopAssumption, Numbers,
     CountsAgree
<1>19. CASE react_finish_run
    BY <1>19, Zenon DEF react_finish_run, queue, counts, GoTo, LoopAssumption, Numbers, CountsAgree
<1>20. CASE react_cancel
    BY <1>20, Zenon DEF react_cancel, flow, queue, counts, LoopAssumption, Numbers, CountsAgree
<1>21. CASE react_cancel_active
    BY <1>21, Zenon DEF react_cancel_active, flow, queue, counts, LoopAssumption, Numbers, CountsAgree
<1>22. CASE QueuePrompt
    BY <1>22 DEF QueuePrompt, flow, counts, LoopAssumption, Numbers, CountsAgree
<1> QED BY <1>1, <1>2, <1>3, <1>4, <1>5, <1>6, <1>7, <1>8, <1>9, <1>10, <1>11, <1>12, <1>13,
       <1>14, <1>15, <1>16, <1>17, <1>18, <1>19, <1>20, <1>21, <1>22, Zenon DEF Next, Loop

\* The position, the result and the response keep their types.
LEMMA MarksStep ==
  ASSUME LoopAssumption, Marks, Next PROVE Marks'
<1>1. CASE react_begin
    BY <1>1, Zenon DEF react_begin, react_check_input_guardrail, react_prepare_messages, result, GoTo,
                BreakWith, HistoryFails, react_set_result, Marks,
     Outcomes, Responses
<1>2. CASE IterationBegins
    BY <1>2, Zenon DEF IterationBegins, result, DrainFails, DrainCancelled, GoTo, BreakWith,
     react_set_result, Marks, Outcomes, Responses
<1>3. CASE LoopEnds
    BY <1>3, Zenon DEF LoopEnds, result, rest, GoTo, Marks, Outcomes, Responses
<1>4. CASE AskModel
    BY <1>4, Zenon DEF AskModel, react_maybe_compact_active_window, result, GoTo, BreakWith,
                react_set_result, Marks, Outcomes, Responses
<1>5. CASE react_chat_once
    BY <1>5, Zenon DEF react_chat_once, result, GoTo, Marks, Outcomes, Responses
<1>6. CASE ResponseArrived
    BY <1>6, Zenon DEF ResponseArrived, react_handle_llm_cancelled, react_handle_llm_error, result,
                GoTo, BreakWith, DrainFails, NextIteration,
     react_set_result, Marks, Outcomes, Responses
<1>7. CASE RecordToolCalls
    BY <1>7, Zenon DEF RecordToolCalls, result, GoTo, BreakWith, HistoryFails, react_set_result, Marks,
     Outcomes, Responses
<1>8. CASE StartFails
    BY <1>8, Zenon DEF StartFails, react_set_result, GoTo, Marks, Outcomes, Responses
<1>9. CASE CollectResult
    BY <1>9, Zenon DEF CollectResult, GoTo, Marks, Outcomes, Responses
<1>10. CASE GiveUp
    BY <1>10, Zenon DEF GiveUp, GoTo, HistoryFails, BreakWith, react_set_result, Marks, Outcomes,
     Responses
<1>11. CASE CollectFails
    BY <1>11, Zenon DEF CollectFails, HistoryFails, BreakWith, react_set_result, GoTo, Marks, Outcomes,
     Responses
<1>12. CASE JoinCancelled
    BY <1>12, Zenon DEF JoinCancelled, react_set_result, GoTo, Marks, Outcomes, Responses
<1>13. CASE Joined
    BY <1>13, Zenon DEF Joined, result, DrainFails, DrainCancelled, NextIteration, GoTo, BreakWith,
     react_set_result, Marks, Outcomes, Responses
<1>14. CASE RetryNote
    BY <1>14, Zenon DEF RetryNote, result, rest, IsNote, NextIteration, Marks, Outcomes, Responses
<1>15. CASE AcceptFinal
    BY <1>15, Zenon DEF AcceptFinal, rest, IsNote, IsEmpty, BreakWith, react_set_result, GoTo, Marks,
     Outcomes, Responses
<1>16. CASE GuardrailRetry
    BY <1>16, Zenon DEF GuardrailRetry, result, rest, IsNote, IsEmpty, NextIteration, Marks, Outcomes,
     Responses
<1>17. CASE EmptyResponse
    BY <1>17, Zenon DEF EmptyResponse, rest, IsEmpty, BreakWith, react_set_result, GoTo, Marks,
     Outcomes, Responses
<1>18. CASE ProposeFails
    BY <1>18, Zenon DEF ProposeFails, rest, BreakWith, react_set_result, GoTo, Marks, Outcomes,
     Responses
<1>19. CASE react_finish_run
    BY <1>19, Zenon DEF react_finish_run, rest, Completed, react_set_result, GoTo, Marks, Outcomes,
     Responses
<1>20. CASE react_cancel
    BY <1>20 DEF react_cancel, flow, result, rest, Marks, Outcomes, Responses
<1>21. CASE react_cancel_active
    BY <1>21 DEF react_cancel_active, flow, result, rest, Marks, Outcomes, Responses
<1>22. CASE QueuePrompt
    BY <1>22 DEF QueuePrompt, flow, result, rest, Marks, Outcomes, Responses
<1> QED BY <1>1, <1>2, <1>3, <1>4, <1>5, <1>6, <1>7, <1>8, <1>9, <1>10, <1>11, <1>12, <1>13,
       <1>14, <1>15, <1>16, <1>17, <1>18, <1>19, <1>20, <1>21, <1>22, Zenon DEF Next, Loop

\* The flags stay Boolean.
LEMMA FlagsStep ==
  ASSUME LoopAssumption, Flags, Next PROVE Flags'
<1>1. CASE react_begin
    BY <1>1, Zenon DEF react_begin, react_check_input_guardrail, react_prepare_messages, stop,
                       counts, HistoryFails, Flags
<1>2. CASE IterationBegins
    BY <1>2, Zenon DEF IterationBegins, counts, DrainFails, DrainCancelled, DrainPasses, stop,
     TakeStop, StopRequested, Flags
<1>3. CASE LoopEnds
    BY <1>3, Zenon DEF LoopEnds, stop, counts, rest, Flags
<1>4. CASE AskModel
    BY <1>4, Zenon DEF AskModel, react_maybe_compact_active_window, stop, Flags
<1>5. CASE react_chat_once
    BY <1>5, Zenon DEF react_chat_once, stop, counts, StopRequested, Flags
<1>6. CASE ResponseArrived
    BY <1>6, Zenon DEF ResponseArrived, react_handle_llm_cancelled, react_handle_llm_error, stop,
                       counts, StopRequested, TakeStop, DrainFails,
     DrainPasses, Flags
<1>7. CASE RecordToolCalls
    BY <1>7, Zenon DEF RecordToolCalls, stop, counts, HistoryFails, Flags
<1>8. CASE StartFails
    BY <1>8, Zenon DEF StartFails, stop, counts, Flags
<1>9. CASE CollectResult
    BY <1>9, Zenon DEF CollectResult, stop, Flags
<1>10. CASE GiveUp
    BY <1>10, Zenon DEF GiveUp, stop, HistoryFails, Flags
<1>11. CASE CollectFails
    BY <1>11, Zenon DEF CollectFails, stop, counts, HistoryFails, Flags
<1>12. CASE JoinCancelled
    BY <1>12, Zenon DEF JoinCancelled, counts, StopRequested, Flags
<1>13. CASE Joined
    BY <1>13, Zenon DEF Joined, counts, DrainFails, DrainCancelled, DrainPasses, stop, TakeStop,
     StopRequested, Flags
<1>14. CASE RetryNote
    BY <1>14, Zenon DEF RetryNote, stop, rest, IsNote, Flags
<1>15. CASE AcceptFinal
    BY <1>15, Zenon DEF AcceptFinal, stop, rest, IsNote, Flags
<1>16. CASE GuardrailRetry
    BY <1>16, Zenon DEF GuardrailRetry, stop, rest, IsNote, Flags
<1>17. CASE EmptyResponse
    BY <1>17, Zenon DEF EmptyResponse, stop, rest, Flags
<1>18. CASE ProposeFails
    BY <1>18, Zenon DEF ProposeFails, stop, counts, rest, Flags
<1>19. CASE react_finish_run
    BY <1>19, Zenon DEF react_finish_run, counts, rest, Flags
<1>20. CASE react_cancel
    BY <1>20, Zenon DEF react_cancel, counts, rest, Flags
<1>21. CASE react_cancel_active
    BY <1>21, Zenon DEF react_cancel_active, counts, rest, Flags
<1>22. CASE QueuePrompt
    BY <1>22, Zenon DEF QueuePrompt, stop, counts, rest, Flags
<1> QED BY <1>1, <1>2, <1>3, <1>4, <1>5, <1>6, <1>7, <1>8, <1>9, <1>10, <1>11, <1>12, <1>13,
       <1>14, <1>15, <1>16, <1>17, <1>18, <1>19, <1>20, <1>21, <1>22, Zenon DEF Next, Loop

\* Prompts are drained only where the response they discard is left.
LEMMA RequestStep ==
  ASSUME LoopAssumption, Numbers, RequestCurrent, Next PROVE RequestCurrent'
<1>1. CASE react_begin
    BY <1>1, Zenon DEF react_begin, react_check_input_guardrail, react_prepare_messages, queue, GoTo,
                BreakWith, HistoryFails, LoopAssumption, Numbers,
     RequestCurrent
<1>2. CASE IterationBegins
    BY <1>2, Zenon DEF IterationBegins, DrainFails, DrainCancelled, DrainPasses, GoTo, TakePrompts,
     BreakWith, LoopAssumption, Numbers, RequestCurrent
<1>3. CASE LoopEnds
    BY <1>3, Zenon DEF LoopEnds, queue, rest, GoTo, LoopAssumption, Numbers, RequestCurrent
<1>4. CASE AskModel
    BY <1>4, Zenon DEF AskModel, react_maybe_compact_active_window, queue, GoTo, BreakWith,
                LoopAssumption, Numbers, RequestCurrent
<1>5. CASE react_chat_once
    BY <1>5, Zenon DEF react_chat_once, queue, GoTo, LoopAssumption, Numbers, RequestCurrent
<1>6. CASE ResponseArrived
  <2>1. pc' \in {"end", "top"} \/ (queued = 0 /\ TakePrompts(queued) /\ UNCHANGED seen)
    BY <1>6, Zenon DEF ResponseArrived, react_handle_llm_cancelled, react_handle_llm_error, GoTo,
                       BreakWith, NextIteration, DrainFails, DrainPasses
  <2>2. TakePrompts(queued) /\ queued = 0 => drained' = drained
    BY DEF TakePrompts, Numbers
  <2> QED BY <2>1, <2>2, <1>6, Zenon DEF ResponseArrived, react_handle_llm_cancelled,
                                  react_handle_llm_error, RequestCurrent
<1>7. CASE RecordToolCalls
    BY <1>7, Zenon DEF RecordToolCalls, queue, GoTo, BreakWith, HistoryFails, LoopAssumption, Numbers,
     RequestCurrent
<1>8. CASE StartFails
    BY <1>8, Zenon DEF StartFails, queue, GoTo, LoopAssumption, Numbers, RequestCurrent
<1>9. CASE CollectResult
    BY <1>9, Zenon DEF CollectResult, queue, GoTo, LoopAssumption, Numbers, RequestCurrent
<1>10. CASE GiveUp
    BY <1>10, Zenon DEF GiveUp, queue, GoTo, HistoryFails, BreakWith, LoopAssumption, Numbers,
     RequestCurrent
<1>11. CASE CollectFails
    BY <1>11, Zenon DEF CollectFails, queue, HistoryFails, BreakWith, GoTo, LoopAssumption, Numbers,
     RequestCurrent
<1>12. CASE JoinCancelled
    BY <1>12, Zenon DEF JoinCancelled, queue, GoTo, LoopAssumption, Numbers, RequestCurrent
<1>13. CASE Joined
    BY <1>13, Zenon DEF Joined, DrainFails, DrainCancelled, DrainPasses, NextIteration, GoTo,
     TakePrompts, BreakWith, LoopAssumption, Numbers, RequestCurrent
<1>14. CASE RetryNote
    BY <1>14, Zenon DEF RetryNote, queue, rest, NextIteration, LoopAssumption, Numbers, RequestCurrent
<1>15. CASE AcceptFinal
    BY <1>15, Zenon DEF AcceptFinal, queue, rest, BreakWith, GoTo, LoopAssumption, Numbers,
     RequestCurrent
<1>16. CASE GuardrailRetry
    BY <1>16, Zenon DEF GuardrailRetry, queue, rest, NextIteration, LoopAssumption, Numbers,
     RequestCurrent
<1>17. CASE EmptyResponse
    BY <1>17, Zenon DEF EmptyResponse, queue, rest, BreakWith, GoTo, LoopAssumption, Numbers,
     RequestCurrent
<1>18. CASE ProposeFails
    BY <1>18, Zenon DEF ProposeFails, queue, rest, BreakWith, GoTo, LoopAssumption, Numbers,
     RequestCurrent
<1>19. CASE react_finish_run
    BY <1>19, Zenon DEF react_finish_run, queue, rest, GoTo, LoopAssumption, Numbers, RequestCurrent
<1>20. CASE react_cancel
    BY <1>20, Zenon DEF react_cancel, flow, queue, rest, LoopAssumption, Numbers, RequestCurrent
<1>21. CASE react_cancel_active
    BY <1>21, Zenon DEF react_cancel_active, flow, queue, rest, LoopAssumption, Numbers, RequestCurrent
<1>22. CASE QueuePrompt
    BY <1>22, Zenon DEF QueuePrompt, flow, rest, LoopAssumption, Numbers, RequestCurrent
<1> QED BY <1>1, <1>2, <1>3, <1>4, <1>5, <1>6, <1>7, <1>8, <1>9, <1>10, <1>11, <1>12, <1>13,
       <1>14, <1>15, <1>16, <1>17, <1>18, <1>19, <1>20, <1>21, <1>22, Zenon DEF Next, Loop

\* Every failed write leads out of the loop.
LEMMA ErrorStep ==
  ASSUME LoopAssumption, Flags, ErrorAbandons, Next PROVE ErrorAbandons'
<1>1. CASE react_begin
  <2>1. ~history_error BY <1>1, Zenon DEF react_begin, react_check_input_guardrail,
                                          react_prepare_messages, ErrorAbandons
  <2>2. history_error' => pc' = "end"
    BY <2>1, <1>1, Zenon DEF react_begin, react_check_input_guardrail, react_prepare_messages,
                             result, GoTo, BreakWith, HistoryFails, react_set_result
  <2> QED BY <2>2, Zenon DEF ErrorAbandons
<1>2. CASE IterationBegins
  <2>1. ~history_error BY <1>2, Zenon DEF IterationBegins, ErrorAbandons
  <2>2. history_error' => pc' = "end"
    BY <2>1, <1>2, Zenon DEF IterationBegins, result, DrainFails, DrainCancelled, DrainPasses,
    GoTo, BreakWith, react_set_result
  <2> QED BY <2>2, Zenon DEF ErrorAbandons
<1>3. CASE LoopEnds
    BY <1>3, Zenon DEF LoopEnds, result, rest, GoTo, Flags, ErrorAbandons
<1>4. CASE AskModel
    BY <1>4, Zenon DEF AskModel, react_maybe_compact_active_window, result, GoTo, BreakWith,
                       react_set_result, Flags, ErrorAbandons
<1>5. CASE react_chat_once
    BY <1>5, Zenon DEF react_chat_once, result, GoTo, Flags, ErrorAbandons
<1>6. CASE ResponseArrived
  <2>1. ~history_error BY <1>6, Zenon DEF ResponseArrived, react_handle_llm_cancelled,
                                          react_handle_llm_error, ErrorAbandons
  <2>2. history_error' => pc' = "end"
    BY <2>1, <1>6, Zenon DEF ResponseArrived, react_handle_llm_cancelled, react_handle_llm_error,
                             result, GoTo, BreakWith, DrainFails, DrainPasses,
    NextIteration, react_set_result
  <2> QED BY <2>2, Zenon DEF ErrorAbandons
<1>7. CASE RecordToolCalls
  <2>1. ~history_error BY <1>7, Zenon DEF RecordToolCalls, ErrorAbandons
  <2>2. history_error' => pc' = "end"
    BY <2>1, <1>7, Zenon DEF RecordToolCalls, result, GoTo, BreakWith, HistoryFails,
    react_set_result
  <2> QED BY <2>2, Zenon DEF ErrorAbandons
<1>8. CASE StartFails
    BY <1>8, Zenon DEF StartFails, react_set_result, GoTo, Flags, ErrorAbandons
<1>9. CASE CollectResult
    BY <1>9, Zenon DEF CollectResult, GoTo, Flags, ErrorAbandons
<1>10. CASE GiveUp
    BY <1>10, Zenon DEF GiveUp, GoTo, HistoryFails, BreakWith, react_set_result, Flags,
     ErrorAbandons
<1>11. CASE CollectFails
    BY <1>11, Zenon DEF CollectFails, HistoryFails, BreakWith, react_set_result, GoTo, Flags,
     ErrorAbandons
<1>12. CASE JoinCancelled
    BY <1>12, Zenon DEF JoinCancelled, react_set_result, GoTo, Flags, ErrorAbandons
<1>13. CASE Joined
  <2>2. history_error' => pc' = "end"
    BY <1>13, Zenon DEF Joined, result, DrainFails, DrainCancelled, DrainPasses, NextIteration,
    GoTo, BreakWith, react_set_result, ErrorAbandons
  <2> QED BY <2>2, Zenon DEF ErrorAbandons
<1>14. CASE RetryNote
    BY <1>14, Zenon DEF RetryNote, result, rest, NextIteration, Flags, ErrorAbandons
<1>15. CASE AcceptFinal
    BY <1>15, Zenon DEF AcceptFinal, rest, BreakWith, react_set_result, GoTo, Flags,
     ErrorAbandons
<1>16. CASE GuardrailRetry
    BY <1>16, Zenon DEF GuardrailRetry, result, rest, NextIteration, Flags, ErrorAbandons
<1>17. CASE EmptyResponse
    BY <1>17, Zenon DEF EmptyResponse, rest, BreakWith, react_set_result, GoTo, Flags,
     ErrorAbandons
<1>18. CASE ProposeFails
    BY <1>18, Zenon DEF ProposeFails, rest, BreakWith, react_set_result, GoTo, Flags,
     ErrorAbandons
<1>19. CASE react_finish_run
    BY <1>19, Zenon DEF react_finish_run, rest, Completed, react_set_result, GoTo, Flags,
     ErrorAbandons
<1>20. CASE react_cancel
    BY <1>20, Zenon DEF react_cancel, flow, result, rest, Flags, ErrorAbandons
<1>21. CASE react_cancel_active
    BY <1>21, Zenon DEF react_cancel_active, flow, result, rest, Flags, ErrorAbandons
<1>22. CASE QueuePrompt
    BY <1>22, Zenon DEF QueuePrompt, flow, result, rest, Flags, ErrorAbandons
<1> QED BY <1>1, <1>2, <1>3, <1>4, <1>5, <1>6, <1>7, <1>8, <1>9, <1>10, <1>11, <1>12, <1>13,
       <1>14, <1>15, <1>16, <1>17, <1>18, <1>19, <1>20, <1>21, <1>22, Zenon DEF Next, Loop

\* An answer is used only if nobody had asked to stop when it came.
LEMMA AnswerStep ==
  ASSUME LoopAssumption, Flags, AnswerEarned, Next PROVE AnswerEarned'
<1>1. CASE react_begin
    BY <1>1, Zenon DEF react_begin, react_check_input_guardrail, react_prepare_messages, result,
                       stop, GoTo, BreakWith, HistoryFails,
     react_set_result, Flags, AnswerEarned, StopRequested
<1>2. CASE IterationBegins
    BY <1>2, Zenon DEF IterationBegins, result, DrainFails, DrainCancelled, DrainPasses, stop,
     GoTo, TakeStop, BreakWith, StopRequested, react_set_result, Flags, AnswerEarned,
     StopRequested
<1>3. CASE LoopEnds
    BY <1>3, Zenon DEF LoopEnds, result, stop, rest, GoTo, Flags, AnswerEarned, StopRequested
<1>4. CASE AskModel
    BY <1>4, Zenon DEF AskModel, react_maybe_compact_active_window, result, stop, GoTo,
                       BreakWith, react_set_result, Flags,
     AnswerEarned, StopRequested
<1>5. CASE react_chat_once
    BY <1>5, Zenon DEF react_chat_once, result, stop, StopRequested, GoTo, Flags, AnswerEarned,
     StopRequested
<1>6. CASE ResponseArrived
    BY <1>6, Zenon DEF ResponseArrived, react_handle_llm_cancelled, react_handle_llm_error,
                       result, stop, GoTo, StopRequested, TakeStop, BreakWith,
     DrainFails, DrainPasses, NextIteration, react_set_result, Flags, AnswerEarned,
     StopRequested
<1>7. CASE RecordToolCalls
    BY <1>7, Zenon DEF RecordToolCalls, result, stop, GoTo, BreakWith, HistoryFails,
     react_set_result, Flags, AnswerEarned, StopRequested
<1>8. CASE StartFails
    BY <1>8, Zenon DEF StartFails, stop, react_set_result, GoTo, Flags, AnswerEarned,
     StopRequested
<1>9. CASE CollectResult
    BY <1>9, Zenon DEF CollectResult, stop, GoTo, Flags, AnswerEarned, StopRequested
<1>10. CASE GiveUp
    BY <1>10, Zenon DEF GiveUp, stop, GoTo, HistoryFails, BreakWith, react_set_result, Flags,
     AnswerEarned, StopRequested
<1>11. CASE CollectFails
    BY <1>11, Zenon DEF CollectFails, stop, HistoryFails, BreakWith, react_set_result, GoTo,
     Flags, AnswerEarned, StopRequested
<1>12. CASE JoinCancelled
    BY <1>12, Zenon DEF JoinCancelled, StopRequested, react_set_result, GoTo, Flags,
     AnswerEarned, StopRequested
<1>13. CASE Joined
    BY <1>13, Zenon DEF Joined, result, DrainFails, DrainCancelled, DrainPasses, stop,
     NextIteration, GoTo, TakeStop, BreakWith, StopRequested, react_set_result, Flags,
     AnswerEarned, StopRequested
<1>14. CASE RetryNote
    BY <1>14, Zenon DEF RetryNote, result, stop, rest, NextIteration, Flags, AnswerEarned,
     StopRequested
<1>15. CASE AcceptFinal
    BY <1>15, Zenon DEF AcceptFinal, stop, rest, BreakWith, react_set_result, GoTo, Flags,
     AnswerEarned, StopRequested
<1>16. CASE GuardrailRetry
    BY <1>16, Zenon DEF GuardrailRetry, result, stop, rest, NextIteration, Flags, AnswerEarned,
     StopRequested
<1>17. CASE EmptyResponse
    BY <1>17, Zenon DEF EmptyResponse, stop, rest, BreakWith, react_set_result, GoTo, Flags,
     AnswerEarned, StopRequested
<1>18. CASE ProposeFails
    BY <1>18, Zenon DEF ProposeFails, stop, rest, BreakWith, react_set_result, GoTo, Flags,
     AnswerEarned, StopRequested
<1>19. CASE react_finish_run
    BY <1>19, Zenon DEF react_finish_run, rest, Completed, react_set_result, GoTo, Flags,
     AnswerEarned, StopRequested
<1>20. CASE react_cancel
    BY <1>20, Zenon DEF react_cancel, flow, result, rest, Flags, AnswerEarned, StopRequested
<1>21. CASE react_cancel_active
    BY <1>21, Zenon DEF react_cancel_active, flow, result, rest, Flags, AnswerEarned,
     StopRequested
<1>22. CASE QueuePrompt
    BY <1>22, Zenon DEF QueuePrompt, flow, result, stop, rest, Flags, AnswerEarned,
     StopRequested
<1> QED BY <1>1, <1>2, <1>3, <1>4, <1>5, <1>6, <1>7, <1>8, <1>9, <1>10, <1>11, <1>12, <1>13,
       <1>14, <1>15, <1>16, <1>17, <1>18, <1>19, <1>20, <1>21, <1>22, Zenon DEF Next, Loop

\* A turn starts with nothing counted, nothing answered and nothing failed.
LEMMA InitIInv == ASSUME LoopAssumption, Init PROVE IInv
<1>1. Numbers BY DEF Init, Numbers, LoopAssumption
<1>2. Marks BY Zenon DEF Init, Marks, Outcomes, Responses
<1>3. Flags BY Zenon DEF Init, Flags
<1>4. CountsAgree BY DEF Init, CountsAgree
<1>5. RequestCurrent BY Zenon DEF Init, RequestCurrent
<1>6. ErrorAbandons BY Zenon DEF Init, ErrorAbandons
<1>7. AnswerEarned BY Zenon DEF Init, AnswerEarned
<1> QED BY <1>1, <1>2, <1>3, <1>4, <1>5, <1>6, <1>7, Zenon DEF IInv

\* Nothing the loop, the model, the tools or another thread does breaks the
\* inductive invariant.
LEMMA StepIInv == ASSUME LoopAssumption, IInv, [Next]_vars PROVE IInv'
<1>1. CASE Next
  BY <1>1, NumbersStep, CountsStep, MarksStep, FlagsStep, RequestStep, ErrorStep, AnswerStep,
     Zenon DEF IInv
<1>2. CASE UNCHANGED vars
  <2>1. Numbers' /\ CountsAgree'
    BY <1>2, Zenon DEF IInv, Numbers, CountsAgree, vars, flow, queue, counts, rest
  <2>2. Marks' /\ RequestCurrent'
    BY <1>2, Zenon DEF IInv, Marks, RequestCurrent, vars, flow, result, queue, rest
  <2>3. Flags' BY <1>2, Zenon DEF IInv, Flags, vars, stop, counts, rest
  <2>4. ErrorAbandons' BY <1>2, Zenon DEF IInv, ErrorAbandons, vars, flow, result, rest
  <2>5. AnswerEarned'
    BY <1>2, Zenon DEF IInv, AnswerEarned, StopRequested, vars, flow, result, stop, rest
  <2> QED BY <2>1, <2>2, <2>3, <2>4, <2>5, Zenon DEF IInv
<1> QED BY <1>1, <1>2, Zenon

\* The inductive invariant gives what a turn promises.
LEMMA IInvEarned == ASSUME IInv PROVE TurnEarned
<1>1. TypeOK BY Zenon DEF IInv, Numbers, Marks, Flags, TypeOK
<1>2. pc \in {"act", "acting", "propose"} => seen = drained BY Zenon DEF IInv, RequestCurrent
<1>3. HistoryErrorStops BY Zenon DEF IInv, ErrorAbandons, HistoryErrorStops
<1>4. SuccessEarned BY Zenon DEF IInv, AnswerEarned, SuccessEarned
<1> QED BY <1>1, <1>2, <1>3, <1>4, Zenon DEF TurnEarned, SteersHonoured

\* However many iterations, retries, calls and prompts a turn is allowed, react_run
\* acts only on an answer to the last requirement, does not ask the model again once
\* the history cannot be written, and succeeds only with an answer nobody cancelled.
THEOREM Earned == ASSUME LoopAssumption PROVE Spec => []TurnEarned
<1>1. Init => IInv BY InitIInv, Zenon
<1>2. IInv /\ [Next]_vars => IInv' BY StepIInv, Zenon
<1>3. IInv => TurnEarned BY IInvEarned, Zenon
<1> QED BY <1>1, <1>2, <1>3, PTL DEF Spec

=============================================================================
