----------------------------- MODULE ToolCalls -----------------------------
(***************************************************************************)
(* One batch of parallel tool calls of src/agent/react.c: the thread that  *)
(* runs react_run (react_start_tool_calls, react_join_tool_calls and what  *)
(* they call) and one worker thread per call (async_tool_exec).  They      *)
(* share a heap-allocated struct async_tool_call per call, which the       *)
(* joining thread frees, or the worker once the call has been detached.    *)
(*                                                                         *)
(* A critical section under call->mutex is one action; accesses outside    *)
(* the mutex are actions of their own.                                     *)
(***************************************************************************)
EXTENDS Naturals, FiniteSets

CONSTANTS
  N,        \* response->tool_call_count
  Scenarios \* sets of what may happen to a batch, subsets of AllEvents

AllEvents ==
  {"cancel",      \* react_cancel sets ctx->cancelled
   "sigint",      \* react_cancel_active sets react_sigint_flag
   "timeout",     \* a call's deadline passes
   "deny",        \* the user denies a call (human in the loop)
   "no_memory",   \* async_tool_call_create fails
   "no_thread",   \* pthread_create fails
   "disabled",    \* a tool is disabled in the configuration
   "give_up",     \* react_track_tool_failure reaches tool_max_retries
   "no_history"}  \* a result cannot be persisted or appended to the messages

ASSUME BatchAssumption == N \in Nat \ {0} /\ Scenarios \subseteq SUBSET AllEvents

Calls == 1..N

VARIABLES
  events,     \* what may happen to this batch, fixed when it begins
  mpc,        \* where the joining thread is
  i,          \* its loop index
  slot,       \* slots[i].call # NULL
  started,    \* slots[i].thread_started
  denied,     \* slots[i].hitl_denied
  mem,        \* the struct: never allocated, live or freed
  flags,      \* completed, cancelled, detached, start_released and rc of the
              \* struct ("none": rc is 0 and result NULL, as allocated)
  tool,       \* history: what the tool itself returned
  wpc,        \* where each worker thread is
  ctx,        \* ctx->cancelled and react_sigint_flag
  over,       \* ctx->state is DONE or ABORT
  recorded    \* the result persisted per call (agent_history_record_tool_result)

slots == <<slot, started, denied>>
threads == <<mem, flags, tool, wpc>>
main == <<mpc, i, slots, over, recorded>>
vars == <<main, threads, ctx, events>>

NoFlags == [completed |-> FALSE, cancelled |-> FALSE, detached |-> FALSE,
            released |-> FALSE, rc |-> "none"]

MainSteps == {"hitl", "start", "release", "check", "join", "wait", "joining",
              "collect", "give_up", "cleanup", "cleanup_detach", "drain",
              "returned"}
Returned == {"none", "ok", "error"}
Struct == [completed : BOOLEAN, cancelled : BOOLEAN, detached : BOOLEAN, released : BOOLEAN,
           rc : Returned]
Results == Returned \union {"denied", "timeout", "cancelled"}
WorkerSteps == {"none", "waiting", "exec", "emit", "check", "free", "exited"}

TypeOK ==
  /\ events \in Scenarios
  /\ mpc \in MainSteps
  /\ i \in 1..(N + 1)
  /\ slot \in [Calls -> BOOLEAN]
  /\ started \in [Calls -> BOOLEAN]
  /\ denied \in [Calls -> BOOLEAN]
  /\ mem \in [Calls -> {"none", "live", "freed"}]
  /\ flags \in [Calls -> Struct]
  /\ tool \in [Calls -> Returned]
  /\ wpc \in [Calls -> WorkerSteps]
  /\ ctx \in [cancelled : BOOLEAN, sigint : BOOLEAN]
  /\ over \in BOOLEAN
  /\ recorded \in [Calls -> Results]

Init ==
  /\ events \in Scenarios
  /\ mpc = "hitl" /\ i = 1
  /\ slot = [c \in Calls |-> FALSE]
  /\ started = [c \in Calls |-> FALSE]
  /\ denied = [c \in Calls |-> FALSE]
  /\ mem = [c \in Calls |-> "none"]
  /\ flags = [c \in Calls |-> NoFlags]
  /\ tool = [c \in Calls |-> "none"]
  /\ wpc = [c \in Calls |-> "none"]
  /\ ctx = [cancelled |-> FALSE, sigint |-> FALSE]
  /\ over = FALSE
  /\ recorded = [c \in Calls |-> "none"]

At(p) == mpc = p /\ i <= N
AfterLoop(p) == mpc = p /\ i = N + 1
GoTo(p, k) == mpc' = p /\ i' = k
Free(c) == mem' = [mem EXCEPT ![c] = "freed"]
DropSlot(c) == slot' = [slot EXCEPT ![c] = FALSE] /\ started' = [started EXCEPT ![c] = FALSE]
Detach(C) == flags' = [c \in Calls |->
  IF c \in C THEN [flags[c] EXCEPT !.cancelled = TRUE, !.detached = TRUE] ELSE flags[c]]
Record(c, r) == recorded' = [recorded EXCEPT ![c] = r]

-----------------------------------------------------------------------------
(* react_start_tool_calls                                                  *)

\* Whether a call is denied: only one that needs approval may be.
hitl_denied == IF "deny" \in events THEN BOOLEAN ELSE {FALSE}

react_check_hitl_approvals ==
  /\ mpc = "hitl"
  /\ denied' \in [Calls -> hitl_denied]
  /\ GoTo("start", 1)
  /\ UNCHANGED <<slot, started, threads, ctx, over, recorded>>

StartDenied ==
  /\ At("start") /\ denied[i]
  /\ GoTo("start", i + 1)
  /\ UNCHANGED <<slots, threads, ctx, over, recorded>>

StartCall ==
  /\ At("start") /\ ~denied[i]
  /\ mem' = [mem EXCEPT ![i] = "live"]
  /\ slot' = [slot EXCEPT ![i] = TRUE]
  /\ started' = [started EXCEPT ![i] = TRUE]
  /\ wpc' = [wpc EXCEPT ![i] = "waiting"]
  /\ GoTo("start", i + 1)
  /\ UNCHANGED <<denied, flags, tool, ctx, over, recorded>>

\* No memory for the struct, or no thread (the struct is freed again): the
\* loop breaks with react_set_result(INTERNAL_ERROR).
StartFails ==
  /\ At("start") /\ ~denied[i]
  /\ \/ "no_memory" \in events /\ mem' = mem
     \/ "no_thread" \in events /\ Free(i)
  /\ over' = TRUE
  /\ GoTo("release", 1)
  /\ UNCHANGED <<slots, flags, tool, wpc, ctx, recorded>>

StartsDone ==
  /\ AfterLoop("start")
  /\ GoTo("release", 1)
  /\ UNCHANGED <<slots, threads, ctx, over, recorded>>

\* Mutant: the loop stops at the first slot without a thread.
Release_breaks ==
  /\ At("release")
  /\ flags' = [flags EXCEPT ![i].released = started[i]]
  /\ GoTo("release", IF started[i] THEN i + 1 ELSE N + 1)
  /\ UNCHANGED <<slots, mem, tool, wpc, ctx, over, recorded>>

Release ==
  /\ At("release")
  /\ flags' = [flags EXCEPT ![i].released = started[i]]
  /\ GoTo("release", i + 1)
  /\ UNCHANGED <<slots, mem, tool, wpc, ctx, over, recorded>>

-----------------------------------------------------------------------------
(* react_join_tool_calls                                                   *)

TakeSigint ==
  /\ AfterLoop("release")
  /\ ctx' = [cancelled |-> ctx.cancelled \/ ctx.sigint, sigint |-> FALSE]
  /\ GoTo("join", 1)
  /\ UNCHANGED <<slots, threads, over, recorded>>

\* Persisting a result fails, or appending it to the messages once it is
\* persisted: the batch is left at once, slots and all.
HistoryFails(c, r) ==
  /\ "no_history" \in events
  /\ UNCHANGED recorded \/ Record(c, r)
  /\ over' = TRUE
  /\ GoTo("returned", N + 1)

JoinDenied ==
  /\ At("join") /\ denied[i]
  /\ \/ Record(i, "denied") /\ GoTo("join", i + 1) /\ UNCHANGED over
     \/ HistoryFails(i, "denied")
  /\ UNCHANGED <<slots, threads, ctx>>

JoinNothing ==
  /\ At("join") /\ ~denied[i] /\ ~slot[i]
  /\ GoTo("join", i + 1)
  /\ UNCHANGED <<slots, threads, ctx, over, recorded>>

\* A cancelled turn asks the tool to stop before waiting for it.
JoinCall ==
  /\ At("join") /\ ~denied[i] /\ slot[i]
  /\ flags' = [flags EXCEPT ![i].cancelled = @ \/ ctx.cancelled]
  /\ GoTo("wait", i)
  /\ UNCHANGED <<slots, mem, tool, wpc, ctx, over, recorded>>

\* The ways out of join_tool_thread's loop, which wakes every 100ms.
Interrupted == ctx.cancelled \/ ctx.sigint

WaitCompleted ==
  /\ At("wait") /\ flags[i].completed
  /\ GoTo("joining", i)
  /\ UNCHANGED <<slots, threads, ctx, over, recorded>>

\* The deadline passed: the worker owns the struct from here on.
Deadline == At("wait") /\ ~flags[i].completed /\ ~Interrupted /\ "timeout" \in events

\* Mutant: the joining thread frees the struct.
WaitTimedOut_frees ==
  /\ Deadline /\ Free(i)
  /\ Record(i, "timeout") /\ DropSlot(i) /\ GoTo("join", i + 1)
  /\ UNCHANGED <<over, denied, flags, tool, wpc, ctx>>

WaitTimedOut ==
  /\ Deadline /\ Detach({i})
  /\ \/ Record(i, "timeout") /\ DropSlot(i) /\ GoTo("join", i + 1) /\ UNCHANGED over
     \/ HistoryFails(i, "timeout") /\ UNCHANGED <<slot, started>>
  /\ UNCHANGED <<denied, mem, tool, wpc, ctx>>

\* Cancelled before completion: detach, record this call, leave the loop.  A
\* failure to record only changes the outcome.
WaitCancelled ==
  /\ At("wait") /\ ~flags[i].completed /\ Interrupted
  /\ ctx' = [ctx EXCEPT !.cancelled = TRUE]
  /\ Detach({i})
  /\ \/ Record(i, "cancelled")
     \/ "no_history" \in events /\ UNCHANGED recorded
  /\ DropSlot(i)
  /\ over' = TRUE
  /\ GoTo("cleanup", 1)
  /\ UNCHANGED <<denied, mem, tool, wpc>>

\* pthread_join
JoinThread ==
  /\ At("joining") /\ wpc[i] = "exited"
  /\ started' = [started EXCEPT ![i] = FALSE]
  /\ over' = FALSE   \* react_set_state(REACT_STATE_OBSERVING)
  /\ GoTo("collect", i)
  /\ UNCHANGED <<slot, denied, threads, ctx, recorded>>

\* Mutant: the return code is not looked at.
Collected_ok(c) == "ok"

\* rc < 0 is a failure; anything else, an untouched rc included, a success.
Collected(c) == IF flags[c].rc = "error" THEN "error" ELSE "ok"

Collect ==
  /\ At("collect")
  /\ \/ Record(i, Collected(i)) /\ GoTo("join", i + 1) /\ UNCHANGED over
     \/ HistoryFails(i, Collected(i))
  /\ UNCHANGED <<slots, threads, ctx>>

\* react_track_tool_failure forces a final answer: the calls not joined yet
\* are detached (react_cancel_remaining_tool_calls), the joined ones freed.
GiveUp ==
  /\ At("collect") /\ flags[i].rc = "error" /\ "give_up" \in events
  /\ \/ Record(i, "error")
     \/ "no_history" \in events /\ UNCHANGED recorded
  /\ Detach({c \in Calls : c > i /\ slot[c] /\ started[c]})
  /\ mem' = [c \in Calls |-> IF c <= i /\ slot[c] THEN "freed" ELSE mem[c]]
  /\ slot' = [c \in Calls |-> FALSE]
  /\ started' = [c \in Calls |-> FALSE]
  /\ over' = TRUE
  /\ GoTo("returned", N + 1)
  /\ UNCHANGED <<denied, tool, wpc, ctx>>

JoinsDone ==
  /\ AfterLoop("join")
  /\ GoTo("cleanup", 1)
  /\ UNCHANGED <<slots, threads, ctx, over, recorded>>

-----------------------------------------------------------------------------
(* react_cleanup_tool_calls: completed is read without the mutex.          *)

CleanupNothing ==
  /\ At("cleanup") /\ ~slot[i]
  /\ GoTo("cleanup", i + 1)
  /\ UNCHANGED <<slots, threads, ctx, over, recorded>>

CleanupSeesRunning ==
  /\ At("cleanup") /\ slot[i] /\ started[i] /\ ~flags[i].completed
  /\ GoTo("cleanup_detach", i)
  /\ UNCHANGED <<slots, threads, ctx, over, recorded>>

CleanupDetach ==
  /\ At("cleanup_detach")
  /\ Detach({i})
  /\ DropSlot(i)
  /\ GoTo("cleanup", i + 1)
  /\ UNCHANGED <<denied, mem, tool, wpc, ctx, over, recorded>>

CleanupDestroy ==
  /\ At("cleanup") /\ slot[i] /\ (flags[i].completed \/ ~started[i])
  /\ Free(i)
  /\ DropSlot(i)
  /\ GoTo("cleanup", i + 1)
  /\ UNCHANGED <<denied, flags, tool, wpc, ctx, over, recorded>>

\* The trailing react_drain_actions: a cancelled turn ends here.
Drain ==
  /\ AfterLoop("cleanup")
  /\ ctx' = [cancelled |-> ctx.cancelled \/ ctx.sigint, sigint |-> FALSE]
  /\ over' = (over \/ ctx'.cancelled)
  /\ GoTo("returned", N + 1)
  /\ UNCHANGED <<slots, threads, recorded>>

-----------------------------------------------------------------------------
(* async_tool_exec                                                         *)

WorkerStep(c, from, to) == wpc[c] = from /\ wpc' = [wpc EXCEPT ![c] = to]

WorkerReleased(c) ==
  /\ flags[c].released \/ flags[c].cancelled
  /\ WorkerStep(c, "waiting", "exec")
  /\ UNCHANGED <<main, mem, flags, tool, ctx>>

\* A disabled tool is reported even if the call was cancelled.
WorkerDisabled(c) ==
  /\ "disabled" \in events
  /\ WorkerStep(c, "exec", "emit")
  /\ flags' = [flags EXCEPT ![c].completed = TRUE, ![c].rc = "error"]
  /\ tool' = [tool EXCEPT ![c] = "error"]
  /\ UNCHANGED <<main, mem, ctx>>

\* What a tool returns: a failure without an answer gets one.
tool_exec == {"ok", "error"}

\* tool_exec has returned; what a cancelled call returned is dropped.
WorkerCompletes(c) ==
  \E r \in tool_exec :
    /\ WorkerStep(c, "exec", IF flags[c].cancelled THEN "check" ELSE "emit")
    /\ flags' = [flags EXCEPT ![c].completed = TRUE,
                              ![c].rc = IF flags[c].cancelled THEN @ ELSE r]
    /\ tool' = [tool EXCEPT ![c] = r]
    /\ UNCHANGED <<main, mem, ctx>>

\* react_output_emit reads the struct's name, arguments and ids.
WorkerEmits(c) ==
  /\ WorkerStep(c, "emit", "check")
  /\ UNCHANGED <<main, mem, flags, tool, ctx>>

WorkerChecks(c) ==
  /\ WorkerStep(c, "check", IF flags[c].detached THEN "free" ELSE "exited")
  /\ UNCHANGED <<main, mem, flags, tool, ctx>>

WorkerFrees(c) ==
  /\ WorkerStep(c, "free", "exited")
  /\ Free(c)
  /\ UNCHANGED <<main, flags, tool, ctx>>

WorkerProceeds(c) ==
  WorkerReleased(c) \/ WorkerEmits(c) \/ WorkerChecks(c) \/ WorkerFrees(c)

Worker(c) == WorkerProceeds(c) \/ WorkerDisabled(c) \/ WorkerCompletes(c)

-----------------------------------------------------------------------------

react_cancel ==
  /\ "cancel" \in events /\ mpc # "returned" /\ ~ctx.cancelled
  /\ ctx' = [ctx EXCEPT !.cancelled = TRUE]
  /\ UNCHANGED <<main, threads>>

react_sigint ==
  /\ "sigint" \in events /\ mpc # "returned" /\ ~ctx.sigint
  /\ ctx' = [ctx EXCEPT !.sigint = TRUE]
  /\ UNCHANGED <<main, threads>>

Main ==
  \/ react_check_hitl_approvals \/ StartDenied \/ StartCall \/ StartFails
  \/ StartsDone \/ Release \/ TakeSigint
  \/ JoinDenied \/ JoinNothing \/ JoinCall
  \/ WaitCompleted \/ WaitTimedOut \/ WaitCancelled \/ JoinThread
  \/ Collect \/ GiveUp \/ JoinsDone
  \/ CleanupNothing \/ CleanupSeesRunning \/ CleanupDetach \/ CleanupDestroy
  \/ Drain

Next ==
  /\ Main \/ react_cancel \/ react_sigint \/ \E c \in Calls : Worker(c)
  /\ UNCHANGED events

Spec == Init /\ [][Next]_vars

\* The threads are scheduled and a deadline that passed is noticed within
\* 100ms; a tool need never return.
Fairness ==
  /\ WF_vars(Main /\ UNCHANGED events)
  /\ \A c \in Calls : WF_vars(WorkerProceeds(c) /\ UNCHANGED events)

FairSpec == Spec /\ Fairness

-----------------------------------------------------------------------------
(* Properties                                                              *)

Running(c) == wpc[c] \notin {"none", "exited"}
Over == mpc = "returned" /\ \A c \in Calls : ~Running(c)

\* Nobody cancels the batch or gives it up, and its results can be persisted.
Undisturbed == events \cap {"cancel", "sigint", "give_up", "no_history"} = {}

\* In an undisturbed batch neither thread ever holds a struct that has been
\* freed: the worker until it exits, the joining thread while the slot points
\* to it.  (After a cancel react_cleanup_tool_calls frees structs of workers
\* that have set completed and not returned.)  Every variable keeps its type.
MemorySafe ==
  /\ TypeOK
  /\ Undisturbed => \A c \in Calls :
       (Running(c) \/ (slot[c] /\ mpc # "returned")) => mem[c] = "live"

\* When an undisturbed batch is over and every worker has exited, every struct
\* allocated for it has been freed by one of the two.  (A batch given up
\* detaches calls whose workers have looked at the flag already.)
NoLeak == Undisturbed /\ Over => \A c \in Calls : mem[c] # "live"

\* The model is only called again (join returns 0 in a turn that is not over)
\* with a persisted result for every call that was denied or started.
PairedResults ==
  (mpc = "returned" /\ ~over) =>
    \A c \in Calls : (denied[c] \/ wpc[c] # "none") => recorded[c] # "none"

\* A late answer is silent: a call whose result was recorded as timed out or
\* cancelled is never reported as completed afterwards, unless the tool is
\* disabled.
LateAnswerSilent ==
  "disabled" \notin events => \A c \in Calls :
    recorded[c] \in {"timeout", "cancelled"} => wpc[c] # "emit"

\* What a tool returned is what is recorded of it (join_tool_thread,
\* react_collect_tool_result), unless the call timed out or was cancelled.
\* (A call marked cancelled that completes before the wait is recorded with
\* the rc its struct was allocated with.)
RecordsTheAnswer ==
  Undisturbed => \A c \in Calls :
    recorded[c] \in {"ok", "error"} => recorded[c] = tool[c]

\* The structs of a batch (async_tool_call_create, async_tool_call_destroy) are
\* used only while they live, and all of them are freed.
MemoryAccounted == MemorySafe /\ NoLeak

\* Every call has its result before the model is asked again, what is recorded is
\* what the tool said, and a late answer is silent.
ResultsRight == PairedResults /\ RecordsTheAnswer /\ LateAnswerSilent

\* The batch ends whatever the tools do, if the calls have deadlines; and no
\* worker waits for ever to be released, whatever subset of the calls was denied
\* or failed to start.  (Both are left once: that they are left is that from some
\* time on nobody is in them.)
BatchEnds ==
  <>[](/\ "timeout" \in events => mpc = "returned"
       /\ \A c \in Calls : wpc[c] # "waiting")

\* async_tool_call_destroy runs "in react_run after join" or, for a detached
\* call, in the worker: never while the worker of the call is running.
DestroyedAfterJoin ==
  \A c \in Calls : (mem[c] = "freed") => ~Running(c)
=============================================================================
