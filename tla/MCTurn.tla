------------------------------- MODULE MCTurn -------------------------------
(***************************************************************************)
(* A turn.  A behaviour follows one batch of tool calls, or one run of the *)
(* ReAct loop, or the runtime that turns of several sessions share.        *)
(***************************************************************************)
EXTENDS MCToolCalls

CONSTANTS MaxIterations, MaxRetries, MaxEmptyRounds, ToolMaxRetries, MaxCalls, MaxSteers,
          Threads, NoThread, Slots, MaxSessions, Hosts

VARIABLES
  which,
  pc, iteration, state, outcome, final, cancelled, sigint, queued, drained, steers, seen, response,
  left, failures, guard_retries, empty_rounds, compacted, note_retries, history_error, interrupted,
  host, owner, last, exists, current, active_plan, plans, cache, tool_session, source, bound,
  at, request, stopped, reported, result

React == INSTANCE ReactLoop
Runtime == INSTANCE RuntimeTurn WITH pc <- at, cancelled <- stopped, outcome <- reported

ASSUME React!LoopAssumption /\ Runtime!TurnAssumption

react == <<pc, iteration, state, outcome, final, cancelled, sigint, queued, drained, steers, seen,
           response, left, failures, guard_retries, empty_rounds, compacted, note_retries,
           history_error, interrupted>>
runtime == <<host, owner, last, exists, current, active_plan, plans, cache, tool_session, source,
             bound, at, request, stopped, reported, result>>

\* The parts that are not followed rest in one of their initial states.
TurnInit ==
  /\ which \in {"tools", "loop", "runtime"}
  /\ Init /\ (which # "tools" => events = Unattended)
  /\ React!Init /\ (which # "loop" => ~sigint)
  /\ Runtime!Init /\ (which # "runtime" => host = "locked")

\* The turn is over.
LoopEnds == pc = "done" /\ UNCHANGED react

TurnNext ==
  /\ UNCHANGED which
  /\ \/ which = "tools" /\ MCNext /\ UNCHANGED <<react, runtime>>
     \/ which = "loop" /\ (React!Next \/ LoopEnds) /\ UNCHANGED <<vars, runtime>>
     \/ which = "runtime" /\ Runtime!Next /\ UNCHANGED <<vars, react>>

\* The threads of a batch go on, and the model and the tools answer.
TurnSpec ==
  /\ TurnInit /\ [][TurnNext]_<<which, vars, react, runtime>>
  /\ WF_vars(which = "tools" /\ Main /\ UNCHANGED events)
  /\ \A c \in Calls : WF_vars(which = "tools" /\ WorkerProceeds(c) /\ UNCHANGED events)
  /\ WF_react(which = "loop" /\ React!Loop)

\* The CLI, with its extra calls, is explored with two sessions.
CliBound == host = "cli" => last <= 2

\* A turn answers the last requirement, stops once the history cannot be written
\* and succeeds only with an answer (ReactLoop).
TurnEarned == which = "loop" => React!TurnEarned

\* A batch returns, its workers are released (ToolCalls), and a turn ends
\* (ReactLoop).
TurnEnds == (which = "tools" => BatchEnds) /\ (which = "loop" => React!Terminates)

\* A turn works with the plans and the tools of its session, and gives them back
\* (RuntimeTurn).
BindingsRight == which = "runtime" => Runtime!BindingsRight

\* A session that exists keeps its plans (RuntimeTurn).
PlansKept == [][Runtime!KeepsPlans]_runtime
=============================================================================
