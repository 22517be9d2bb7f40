----------------------------- MODULE SubAgents -----------------------------
(***************************************************************************)
(* Sub-agents (src/agent/sub_agent.c, src/agent/tools/sub_agent_tools.c).  *)
(*                                                                         *)
(* A tool thread invokes an agent and waits for it, delegates to one that  *)
(* runs in a thread of its own, asks for the status of a delegated task,   *)
(* or fans tasks out to worker threads.  Tasks live in a fixed array that  *)
(* is never reused and have a row in the table sub_agent_tasks.  Every     *)
(* tool call has a thread of its own, so that the thread-local depth is 0  *)
(* when an agent is invoked and only the shared rt->depth limits nesting;  *)
(* a caller may as well be a tool of a sub-agent.  rt->depth is changed    *)
(* without a lock: its read and its write are two steps.                   *)
(***************************************************************************)
EXTENDS Integers, FiniteSets

CONSTANTS
  Callers,      \* the threads of tool calls
  Fan,          \* the tasks of a fan-out
  TaskMax,      \* SUB_AGENT_TASK_MAX
  MaxDepth,     \* SUB_AGENT_MAX_DEPTH
  MaxCalls,     \* bound on the calls of a tool thread
  MaxLost       \* bound on the rows whose update fails

VARIABLES
  task_count,
  tasks,        \* rt->tasks and what the threads know of them
  rows,         \* sub_agent_tasks.status, by task
  lost,         \* tasks with a row that could not be updated
  depth,        \* rt->depth
  caller,       \* what each tool thread does
  overlapped,   \* history: two fan-outs have been under way at once
  badjoin,      \* history: threads were joined that never started
  runtime,      \* "up", "destroy" or "freed"
  reached       \* the tasks that destroy is done with

vars == <<task_count, tasks, rows, lost, depth, caller, overlapped,
          badjoin, runtime, reached>>
storage == <<rows, lost>>

Index == 1..TaskMax
Final == {"completed", "failed", "cancelled"}
Statuses == {"pending", "running"} \cup Final

\* pc is the place in sub_agent_run_task of the thread that runs the task.
NoTask == [mode |-> "", status |-> "pending", joined |-> FALSE, ctx |-> "none", pc |-> "none",
           cancelled |-> FALSE, cancel_sent |-> FALSE, joins |-> 0]
Idle == [pc |-> "idle", seen |-> 0, waits |-> {}, refused |-> 0, left |-> 0]

Init ==
  /\ task_count = 0 /\ tasks = [i \in Index |-> NoTask]
  /\ rows = [i \in Index |-> "pending"] /\ lost = {}
  /\ depth = 0
  /\ caller = [c \in Callers |-> [Idle EXCEPT !.left = MaxCalls]]
  /\ overlapped = FALSE /\ badjoin = {} /\ runtime = "up" /\ reached = 0

Goes(c, pc) == caller' = [caller EXCEPT ![c].pc = pc]

\* A call returns to the model.
Returns(c) == [Idle EXCEPT !.left = caller[c].left]

Calls(c) == caller[c].pc = "idle" /\ caller[c].left > 0 /\ runtime = "up"

Called(c) == [caller EXCEPT ![c].left = @ - 1]

----------------------------------------------------------------------------
(* Creating a task. *)

\* sub_agent_task_create under rt->mutex: a slot of the array and a row, or
\* neither: the array may be full, and the row may not be stored.
sub_agent_task_create(mode, pc) ==
  /\ task_count < TaskMax
  /\ task_count' = task_count + 1
  /\ tasks' = [tasks EXCEPT ![task_count + 1] =
                 [NoTask EXCEPT !.mode = mode, !.joined = (mode = "tool"), !.pc = pc]]

\* sub_agent_storage_update_task: what it copied under the task's mutex is
\* written under the storage mutex; a failed write goes unnoticed.
Stores(i, status) ==
  \/ rows' = [rows EXCEPT ![i] = status] /\ lost' = lost \ {i}
  \/ Cardinality(lost) < MaxLost /\ lost' = lost \cup {i} /\ UNCHANGED rows

----------------------------------------------------------------------------
(* Calls of the tools. *)

\* sub_agent_invoke_sync, past its depth check.
sub_agent_invoke_sync(c) ==
  /\ Calls(c) /\ depth < MaxDepth
  /\ sub_agent_task_create("tool", "start")
  /\ caller' = [Called(c) EXCEPT ![c].pc = "wait", ![c].waits = {task_count + 1}]
  /\ UNCHANGED <<storage, depth, overlapped, badjoin, runtime, reached>>

\* The task that was waited for has run.
InvokeReturns(c) ==
  /\ caller[c].pc = "wait"
  /\ \A i \in caller[c].waits : tasks[i].pc = "done"
  /\ caller' = [caller EXCEPT ![c] = Returns(c)]
  /\ UNCHANGED <<task_count, tasks, storage, depth, overlapped, badjoin, runtime, reached>>

\* sub_agent_delegate: its thread starts.
sub_agent_delegate(c) ==
  /\ Calls(c) /\ depth < MaxDepth
  /\ sub_agent_task_create("delegate", "start")
  /\ caller' = Called(c)
  /\ UNCHANGED <<storage, depth, overlapped, badjoin, runtime, reached>>

\* The thread cannot be created: the task has failed.
DelegateFails(c) ==
  /\ Calls(c) /\ depth < MaxDepth /\ task_count < TaskMax
  /\ task_count' = task_count + 1
  /\ tasks' = [tasks EXCEPT ![task_count + 1] =
                 [NoTask EXCEPT !.mode = "delegate", !.status = "failed"]]
  /\ Stores(task_count + 1, "failed")
  /\ caller' = Called(c)
  /\ UNCHANGED <<depth, overlapped, badjoin, runtime, reached>>

\* sub_agent_check_status: the first one that sees a final status joins the thread.
sub_agent_check_status(c) ==
  /\ Calls(c)
  /\ \E i \in 1..task_count :
       IF tasks[i].status \in Final /\ ~tasks[i].joined
       THEN /\ tasks' = [tasks EXCEPT ![i].joined = TRUE]
            /\ caller' = [Called(c) EXCEPT ![c].pc = "join", ![c].waits = {i}]
       ELSE tasks' = tasks /\ caller' = Called(c)
  /\ UNCHANGED <<task_count, storage, depth, overlapped, badjoin, runtime, reached>>

\* pthread_join of the thread of task i.
Joined(i) == [tasks EXCEPT ![i].joins = @ + 1]
NeverStarted(i) == tasks[i].pc = "none"

StatusJoins(c) ==
  /\ caller[c].pc = "join"
  /\ \E i \in caller[c].waits :
       /\ tasks[i].pc \in {"done", "none"}
       /\ tasks' = Joined(i)
       /\ badjoin' = IF NeverStarted(i) THEN badjoin \cup {i} ELSE badjoin
  /\ caller' = [caller EXCEPT ![c] = Returns(c)]
  /\ UNCHANGED <<task_count, storage, depth, overlapped, runtime, reached>>

----------------------------------------------------------------------------
(* sub_agent_fanout: rt->depth++, workers that each invoke an agent, their  *)
(* joins, rt->depth--.                                                      *)

Fanning == {c \in Callers : caller[c].pc \in {"raise", "fork", "lower"}}

FanoutReads(c) ==
  /\ Calls(c) /\ depth < MaxDepth
  /\ caller' = [Called(c) EXCEPT ![c].pc = "raise", ![c].seen = depth]
  /\ overlapped' = (overlapped \/ Fanning # {})
  /\ UNCHANGED <<task_count, tasks, storage, depth, badjoin, runtime, reached>>

FanoutRaises(c) ==
  /\ caller[c].pc = "raise"
  /\ depth' = caller[c].seen + 1
  /\ Goes(c, "fork")
  /\ UNCHANGED <<task_count, tasks, storage, overlapped, badjoin, runtime, reached>>

\* A worker's sub_agent_invoke_sync creates its task, or is refused: too deep, or
\* the array is full.
WorkerInvokes(c) ==
  /\ caller[c].pc = "fork" /\ Cardinality(caller[c].waits) + caller[c].refused < Fan
  /\ IF depth < MaxDepth /\ task_count < TaskMax
     THEN /\ sub_agent_task_create("tool", "start")
          /\ caller' = [caller EXCEPT ![c].waits = @ \cup {task_count + 1}]
     ELSE /\ UNCHANGED <<task_count, tasks>>
          /\ caller' = [caller EXCEPT ![c].refused = @ + 1]
  /\ UNCHANGED <<storage, depth, overlapped, badjoin, runtime, reached>>

\* A worker whose thread cannot be created goes unnoticed: its result is not looked
\* at, what is joined is no thread, and its code is 0.
WorkerMissing(c) ==
  /\ caller[c].pc = "fork" /\ Cardinality(caller[c].waits) + caller[c].refused < Fan
  /\ caller' = [caller EXCEPT ![c].refused = @ + 1]
  /\ badjoin' = badjoin \cup {0}
  /\ UNCHANGED <<task_count, tasks, storage, depth, overlapped, runtime, reached>>

\* Mutant: a worker that was refused is waited for.
FanoutJoins_all(c) ==
  /\ caller[c].pc = "fork" /\ Cardinality(caller[c].waits) = Fan
  /\ \A i \in caller[c].waits : tasks[i].pc = "done"
  /\ caller' = [caller EXCEPT ![c].pc = "lower", ![c].seen = depth]
  /\ UNCHANGED <<task_count, tasks, storage, depth, overlapped, badjoin, runtime, reached>>

\* All workers are joined.
FanoutJoins(c) ==
  /\ caller[c].pc = "fork" /\ Cardinality(caller[c].waits) + caller[c].refused = Fan
  /\ \A i \in caller[c].waits : tasks[i].pc = "done"
  /\ caller' = [caller EXCEPT ![c].pc = "lower", ![c].seen = depth]
  /\ UNCHANGED <<task_count, tasks, storage, depth, overlapped, badjoin, runtime, reached>>

\* Mutant: a fan-out that no worker answered returns before it lowers the depth.
FanoutLowers_early(c) ==
  /\ caller[c].pc = "lower"
  /\ depth' = IF caller[c].waits = {} THEN depth ELSE caller[c].seen - 1
  /\ caller' = [caller EXCEPT ![c] = Returns(c)]
  /\ UNCHANGED <<task_count, tasks, storage, overlapped, badjoin, runtime, reached>>

FanoutLowers(c) ==
  /\ caller[c].pc = "lower"
  /\ depth' = caller[c].seen - 1
  /\ caller' = [caller EXCEPT ![c] = Returns(c)]
  /\ UNCHANGED <<task_count, tasks, storage, overlapped, badjoin, runtime, reached>>

----------------------------------------------------------------------------
(* sub_agent_run_task, in the thread of task i. *)

\* Too deep by now: the thread returns and the task stays pending.
RunRefused(i) ==
  /\ tasks[i].pc = "start" /\ depth >= MaxDepth
  /\ tasks' = [tasks EXCEPT ![i].pc = "done"]
  /\ UNCHANGED <<task_count, storage, depth, caller, overlapped, badjoin, runtime, reached>>

\* The context is there and cancellable, and the task is running.
RunStarts(i) ==
  /\ tasks[i].pc = "start" /\ depth < MaxDepth
  /\ tasks' = [tasks EXCEPT ![i].ctx = "live", ![i].status = "running", ![i].pc = "begin"]
  /\ Stores(i, "running")
  /\ UNCHANGED <<task_count, depth, caller, overlapped, badjoin, runtime, reached>>

\* agent_turn_begin, and react_run clears the cancel flag of the context: a cancel
\* that came before is lost.
ReactBegins(i) ==
  /\ tasks[i].pc = "begin"
  /\ tasks' = [tasks EXCEPT ![i].cancelled = FALSE, ![i].pc = "run"]
  /\ UNCHANGED <<task_count, storage, depth, caller, overlapped, badjoin, runtime, reached>>

\* react_run has returned: child_ctx is cleared under the mutex, then destroyed.
ReactReturns(i) ==
  /\ tasks[i].pc = "run"
  /\ tasks' = [tasks EXCEPT ![i].ctx = "none", ![i].pc = "ended"]
  /\ UNCHANGED <<task_count, storage, depth, caller, overlapped, badjoin, runtime, reached>>

\* The result is published, then stored.
RunEnds(i) ==
  /\ tasks[i].pc = "ended"
  /\ \E s \in {"completed", "failed"} \cup IF tasks[i].cancelled THEN {"cancelled"} ELSE {} :
       /\ tasks' = [tasks EXCEPT ![i].status = s, ![i].ctx = "none", ![i].pc = "store"]
  /\ UNCHANGED <<task_count, storage, depth, caller, overlapped, badjoin, runtime, reached>>

RunStores(i) ==
  /\ tasks[i].pc = "store"
  /\ Stores(i, tasks[i].status)
  /\ tasks' = [tasks EXCEPT ![i].pc = "done"]
  /\ UNCHANGED <<task_count, depth, caller, overlapped, badjoin, runtime, reached>>

----------------------------------------------------------------------------
(* The owner of the runtime. *)

\* sub_agent_runtime_destroy, once no tool call is left.
DestroyBegins ==
  /\ runtime = "up" /\ \A c \in Callers : caller[c].pc = "idle"
  /\ runtime' = "destroy"
  /\ UNCHANGED <<task_count, tasks, storage, depth, caller, overlapped, badjoin, reached>>

Unjoined(i) == ~tasks[i].joined /\ tasks[i].mode = "delegate"

\* The next task is cancelled if it has a context ...
DestroyCancels ==
  /\ runtime = "destroy" /\ reached < task_count
  /\ LET i == reached + 1 IN
       /\ Unjoined(i) /\ ~tasks[i].cancel_sent
       /\ tasks' = [tasks EXCEPT ![i].cancel_sent = TRUE,
                                 ![i].cancelled = (tasks[i].ctx # "none")]
  /\ UNCHANGED <<task_count, storage, depth, caller, overlapped, badjoin, runtime, reached>>

\* ... its thread is joined, and what it owns is freed.
DestroyJoins ==
  /\ runtime = "destroy" /\ reached < task_count
  /\ LET i == reached + 1 IN
       IF Unjoined(i)
       THEN /\ tasks[i].cancel_sent /\ tasks[i].pc \in {"done", "none"}
            /\ tasks' = [Joined(i) EXCEPT ![i].joined = TRUE]
            /\ badjoin' = IF NeverStarted(i) THEN badjoin \cup {i} ELSE badjoin
       ELSE UNCHANGED <<tasks, badjoin>>
  /\ reached' = reached + 1
  /\ UNCHANGED <<task_count, storage, depth, caller, overlapped, runtime>>

DestroyFrees ==
  /\ runtime = "destroy" /\ reached = task_count /\ runtime' = "freed"
  /\ UNCHANGED <<task_count, tasks, storage, depth, caller, overlapped, badjoin, reached>>

----------------------------------------------------------------------------
CallerStep(c) ==
  \/ sub_agent_invoke_sync(c) \/ sub_agent_delegate(c) \/ DelegateFails(c)
  \/ sub_agent_check_status(c) \/ FanoutReads(c)

CallerReturns(c) ==
  \/ InvokeReturns(c) \/ StatusJoins(c) \/ FanoutRaises(c) \/ WorkerInvokes(c) \/ WorkerMissing(c)
  \/ FanoutJoins(c) \/ FanoutLowers(c)

TaskStep(i) ==
  \/ RunRefused(i) \/ RunStarts(i) \/ ReactBegins(i) \/ ReactReturns(i) \/ RunEnds(i)
  \/ RunStores(i)

DestroyStep == DestroyCancels \/ DestroyJoins \/ DestroyFrees

Next ==
  \/ \E c \in Callers : CallerStep(c) \/ CallerReturns(c)
  \/ \E i \in Index : TaskStep(i)
  \/ DestroyBegins \/ DestroyStep

\* Threads run, a react loop ends (its iterations are bounded and its requests
\* time out), and the runtime is destroyed in the end.
Fairness ==
  /\ \A c \in Callers : WF_vars(CallerReturns(c))
  /\ \A i \in Index : WF_vars(TaskStep(i))
  /\ WF_vars(DestroyBegins) /\ WF_vars(DestroyStep)

Spec == Init /\ [][Next]_vars /\ Fairness
----------------------------------------------------------------------------
(* Properties. *)

\* Depth: while no two fan-outs have overlapped, rt->depth counts the fan-out under
\* way, so that no thread that was let in is refused later: a task is left pending
\* for ever only after fan-outs overlapped.
DepthCounts ==
  ~overlapped =>
    /\ depth = Cardinality({c \in Callers : caller[c].pc \in {"fork", "lower"}})
    /\ \A i \in Index : tasks[i].pc = "done" => tasks[i].status \in Final

\* Threads and rows: a delegated thread is joined at most once and, if it ever
\* started, before the runtime is freed; only a task whose thread could not be
\* created is joined without one; and when the thread of a task is done its row
\* says what the task says, unless the write itself failed.
ThreadsAccounted ==
  /\ \A i \in Index : tasks[i].joins <= 1
  /\ runtime = "freed" => \A i \in 1..task_count : tasks[i].pc \in {"done", "none"}
  /\ \A i \in badjoin \ {0} : tasks[i].status = "failed"
  /\ \A i \in Index \ lost : tasks[i].pc = "done" => rows[i] = tasks[i].status

\* Every call has returned and the runtime is freed: where every behaviour ends.
Returned == runtime = "freed" /\ \A c \in Callers : caller[c].pc = "idle"
============================================================================
