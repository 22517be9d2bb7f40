----------------------------- MODULE Lifecycle -----------------------------
(***************************************************************************)
(* The life of a runtime (runtime/lifecycle.c, bootstrap.c,                *)
(* context_owner.c): runtime_open acquires one component after another and *)
(* on any failure closes what it has; runtime_close stops the runtime's    *)
(* workers, takes the execution lock and releases the components in the    *)
(* order of runtime_bootstrap_cleanup.  Around it run the threads that use *)
(* the components: turns of the owner and of the task worker, the sync     *)
(* worker, delegated sub-agents and the memory worker, which belongs to    *)
(* the process and uses the model of the runtime that is not a replica.    *)
(*                                                                         *)
(* A server opens its first runtime as the primary and further ones as     *)
(* replicas, and closes the replicas first (agent_bridge.c).               *)
(***************************************************************************)
EXTENDS Naturals, Sequences, FiniteSets

CONSTANTS
  Runtimes,   \* slots for a struct runtime; 0 stands for none
  Primary,    \* the one opened with process_replica = 0
  MaxJobs     \* bound: memory jobs queued

VARIABLES
  at_step,    \* where open or close of each runtime is
  owned,      \* the components each struct runtime_context points to
  holder,     \* who holds execution_lock: "none", "owner", "task", "close"
  task_worker, sync_worker, \* "off", "waiting", "working"
  stop_task, stop_sync,     \* worker->stop
  delegates,  \* delegate threads of sub_agent_runtime that still run
  g_async,    \* the memory worker: "off", "idle", "busy"
  g_async_stop,
  jobs,       \* jobs in the memory queue
  g_memory_llm, usage_user_data \* the runtime whose model, whose record; 0 for none

Opening == <<"init_lock", "config", "workdir", "database", "bootstrap", "callback", "tools", "shell",
             "others", "skills", "platform", "extensions", "sub_agents", "connect", "session", "finalize">>
\* The cleanup with the memory worker stopped after the models are destroyed.
CleanupMemoryLate == <<"react", "tokenizer", "registry", "tctx", "usage", "models", "memory", "subs",
                       "skill_registry", "mcp", "db", "unlock">>
\* The order in which runtime_bootstrap_cleanup stops and frees.
runtime_bootstrap_cleanup ==
  <<"memory", "react", "tokenizer", "registry", "tctx", "usage", "models", "subs",
    "skill_registry", "mcp", "db", "unlock">>
Components == {"lock", "react", "tokenizer", "registry", "tctx", "models", "subs",
               "skill_registry", "mcp", "db"}
\* What runtime_execute touches during a turn.
TurnNeeds == {"lock", "react", "tokenizer", "registry", "tctx", "models", "skill_registry", "db"}

lifeVars == <<at_step, owned, holder, task_worker, sync_worker, stop_task, stop_sync,
              delegates, g_async, g_async_stop, jobs, g_memory_llm, usage_user_data>>
workers == <<task_worker, sync_worker, stop_task, stop_sync>>
memory == <<g_async, g_async_stop, jobs>>
globals == <<g_memory_llm, usage_user_data>>

IndexOf(s, x) == CHOOSE i \in DOMAIN s : s[i] = x
After(s, x) == s[IndexOf(s, x) + 1]

LifeInit ==
  /\ at_step = [r \in Runtimes |-> "none"] /\ owned = [r \in Runtimes |-> {}]
  /\ holder = [r \in Runtimes |-> "none"]
  /\ task_worker = [r \in Runtimes |-> "off"] /\ sync_worker = [r \in Runtimes |-> "off"]
  /\ stop_task = [r \in Runtimes |-> FALSE] /\ stop_sync = [r \in Runtimes |-> FALSE]
  /\ delegates = [r \in Runtimes |-> 0]
  /\ g_async = "off" /\ g_async_stop = FALSE /\ jobs = 0
  /\ g_memory_llm = 0 /\ usage_user_data = 0

-----------------------------------------------------------------------------
(* runtime_open.                                                           *)

Gone(r) == at_step[r] \in {"none", "gone"}

\* A replica is opened beside a primary that is ready.
runtime_open(r) ==
  /\ Gone(r)
  /\ r # Primary => at_step[Primary] = "ready"
  /\ at_step' = [at_step EXCEPT ![r] = "init_lock"]
  /\ UNCHANGED <<owned, holder, workers, delegates, memory, globals>>

\* The step acquires `gain` and open goes on, or it fails with `gain` left in the
\* context and runtime_open calls runtime_close.
Acquire(r, name, gain, ok) ==
  /\ at_step[r] = name
  /\ owned' = [owned EXCEPT ![r] = @ \cup gain]
  /\ at_step' = [at_step EXCEPT ![r] = IF ~ok THEN "stop_task"
                                       ELSE IF name = "finalize" THEN "ready"
                                       ELSE After(Opening, name)]
  /\ UNCHANGED <<holder, workers, delegates, memory>>

runtime_context_init_lock(r) ==
  \E ok \in BOOLEAN : Acquire(r, "init_lock", IF ok THEN {"lock"} ELSE {}, ok) /\ UNCHANGED globals
runtime_load_config(r) == \E ok \in BOOLEAN : Acquire(r, "config", {}, ok) /\ UNCHANGED globals
runtime_set_workdir(r) == \E ok \in BOOLEAN : Acquire(r, "workdir", {}, ok) /\ UNCHANGED globals
\* The replacements left by a restore cannot be recovered or the file cannot be
\* opened: no connection.  The schema cannot be applied: the connection stays.
runtime_open_database(r) ==
  \E ok \in BOOLEAN, gain \in {{}, {"db"}} :
    /\ ok => gain = {"db"}
    /\ Acquire(r, "database", gain, ok) /\ UNCHANGED globals

\* Unsupported adapters and an exhausted heap leave the context without models (a
\* tokenizer created before a failing react_context_create is not released); only
\* the primary publishes its model and its usage record to the process.
runtime_bootstrap_models(r) ==
  \E ok \in BOOLEAN :
    /\ Acquire(r, "bootstrap", IF ok THEN {"react", "tokenizer", "registry", "models"} ELSE {}, ok)
    /\ g_memory_llm' = IF ok /\ r = Primary THEN r ELSE g_memory_llm
    /\ usage_user_data' = IF ok /\ r = Primary THEN r ELSE usage_user_data
after_models_cb(r) == \E ok \in BOOLEAN : Acquire(r, "callback", {}, ok) /\ UNCHANGED globals
runtime_bootstrap_tools(r) ==
  \E ok \in BOOLEAN, gain \in {{}, {"tctx"}} :
    /\ ok => gain = {"tctx"}
    /\ Acquire(r, "tools", gain, ok) /\ UNCHANGED globals
\* bash_exec and its permission profile, paths, commands and environment.
BootstrapShell(r) == \E ok \in BOOLEAN : Acquire(r, "shell", {}, ok) /\ UNCHANGED globals
\* The question, plan, task and annotation tools: a failure is only logged.
OtherTools(r) == Acquire(r, "others", {}, TRUE) /\ UNCHANGED globals
runtime_discover_skills(r) ==
  \E ok \in BOOLEAN :
    Acquire(r, "skills", IF ok THEN {"skill_registry"} ELSE {}, ok) /\ UNCHANGED globals
PlatformTools(r) == \E ok \in BOOLEAN : Acquire(r, "platform", {}, ok) /\ UNCHANGED globals
LoadExtensions(r) == \E ok \in BOOLEAN : Acquire(r, "extensions", {}, ok) /\ UNCHANGED globals
\* No sub-agent configured: nothing is created.  A configuration that cannot be
\* loaded leaves its runtime behind, out of the context's reach.
runtime_bootstrap_sub_agents(r) ==
  \E ok \in BOOLEAN, gain \in {{}, {"subs"}} :
    /\ ~ok => gain = {}
    /\ Acquire(r, "sub_agents", gain, ok) /\ UNCHANGED globals
\* The result of connecting the servers is ignored.
McpServers(r) == Acquire(r, "connect", {"mcp"}, TRUE) /\ UNCHANGED globals
\* None yet, the most recent, or the named one, which may have to be created; then
\* its plan, tool context, dynamic tools and history, all best effort.
StartSession(r) == \E ok \in BOOLEAN : Acquire(r, "session", {}, ok) /\ UNCHANGED globals
FinalizeReplacements(r) == \E ok \in BOOLEAN : Acquire(r, "finalize", {}, ok) /\ UNCHANGED globals

-----------------------------------------------------------------------------
(* A runtime that is ready.                                                *)

Ready(r) == at_step[r] = "ready"

runtime_task_worker_start(r) ==
  /\ Ready(r) /\ task_worker[r] = "off"
  /\ task_worker' = [task_worker EXCEPT ![r] = "waiting"]
  /\ UNCHANGED <<at_step, owned, holder, sync_worker, stop_task, stop_sync, delegates,
                 memory, globals>>

\* A due task runs a turn if runtime_lock_turn gets the lock at once.
TaskTurn(r) ==
  /\ task_worker[r] = "waiting" /\ ~stop_task[r] /\ holder[r] = "none"
  /\ task_worker' = [task_worker EXCEPT ![r] = "working"]
  /\ holder' = [holder EXCEPT ![r] = "task"]
  /\ UNCHANGED <<at_step, owned, sync_worker, stop_task, stop_sync, delegates, memory,
                 globals>>
runtime_task_worker_main(r) ==
  /\ task_worker[r] = "waiting" /\ stop_task[r]
  /\ task_worker' = [task_worker EXCEPT ![r] = "off"]
  /\ UNCHANGED <<at_step, owned, holder, sync_worker, stop_task, stop_sync, delegates,
                 memory, globals>>

runtime_sync_start_instance(r) ==
  /\ Ready(r) /\ r = Primary /\ sync_worker[r] = "off"
  /\ sync_worker' = [sync_worker EXCEPT ![r] = "waiting"]
  /\ UNCHANGED <<at_step, owned, holder, task_worker, stop_task, stop_sync, delegates,
                 memory, globals>>
\* A pass of morph_sync_once begins, ends, or the loop sees the flag between passes.
sync_worker_main(r) ==
  /\ \/ sync_worker[r] = "waiting" /\ sync_worker' = [sync_worker EXCEPT ![r] =
                                       IF stop_sync[r] THEN "off" ELSE "working"]
     \/ sync_worker[r] = "working" /\ sync_worker' = [sync_worker EXCEPT ![r] = "waiting"]
  /\ UNCHANGED <<at_step, owned, holder, task_worker, stop_task, stop_sync, delegates,
                 memory, globals>>

\* runtime_execute_turn by the thread that owns the runtime.
runtime_execute_turn(r) ==
  /\ Ready(r) /\ holder[r] = "none"
  /\ holder' = [holder EXCEPT ![r] = "owner"]
  /\ UNCHANGED <<at_step, owned, workers, delegates, memory, globals>>

\* A turn delegates to a sub-agent, whose thread may outlive the turn.
DelegateStarts(r) ==
  /\ holder[r] \in {"owner", "task"} /\ "subs" \in owned[r] /\ delegates[r] = 0
  /\ delegates' = [delegates EXCEPT ![r] = 1]
  /\ UNCHANGED <<at_step, owned, holder, workers, memory, globals>>
DelegateEnds(r) ==
  /\ delegates[r] = 1 /\ delegates' = [delegates EXCEPT ![r] = 0]
  /\ UNCHANGED <<at_step, owned, holder, workers, memory, globals>>

\* The turn ends; what it said may be queued for the memory worker, which is
\* started if there is none.
TurnEnds(r, remember) ==
  /\ holder[r] \in {"owner", "task"}
  /\ holder' = [holder EXCEPT ![r] = "none"]
  /\ task_worker' = [task_worker EXCEPT ![r] = IF holder[r] = "task" THEN "waiting" ELSE @]
  /\ remember => jobs < MaxJobs
  /\ jobs' = IF remember THEN jobs + 1 ELSE jobs
  /\ g_async' = IF remember /\ g_async = "off" THEN "idle" ELSE g_async
  /\ UNCHANGED <<at_step, owned, sync_worker, stop_task, stop_sync, delegates,
                 g_async_stop, globals>>

MemoryWorker ==
  /\ \/ g_async = "idle" /\ jobs > 0 /\ g_async' = "busy" /\ jobs' = jobs - 1
     \/ g_async = "busy" /\ g_async' = "idle" /\ UNCHANGED jobs
     \/ g_async = "idle" /\ jobs = 0 /\ g_async_stop /\ g_async' = "off" /\ UNCHANGED jobs
  /\ UNCHANGED <<at_step, owned, holder, workers, delegates, g_async_stop, globals>>

-----------------------------------------------------------------------------
(* runtime_close.                                                          *)

\* The owner closes between turns; the server closes the primary last.
runtime_close(r) ==
  /\ Ready(r) /\ holder[r] # "owner"
  /\ r = Primary => \A o \in Runtimes \ {r} : Gone(o)
  /\ at_step' = [at_step EXCEPT ![r] = "stop_task"]
  /\ UNCHANGED <<owned, holder, workers, delegates, memory, globals>>

\* The flag is set, the thread is joined.
runtime_task_worker_stop(r) ==
  /\ at_step[r] = "stop_task"
  /\ IF task_worker[r] = "off"
     THEN /\ at_step' = [at_step EXCEPT ![r] = "stop_sync"]
          /\ stop_task' = [stop_task EXCEPT ![r] = FALSE]
     ELSE /\ ~stop_task[r] /\ stop_task' = [stop_task EXCEPT ![r] = TRUE]
          /\ UNCHANGED at_step
  /\ UNCHANGED <<owned, holder, task_worker, sync_worker, stop_sync, delegates, memory,
                 globals>>
morph_sync_stop(r) ==
  /\ at_step[r] = "stop_sync"
  /\ IF sync_worker[r] = "off"
     THEN /\ at_step' = [at_step EXCEPT ![r] = "take_lock"]
          /\ stop_sync' = [stop_sync EXCEPT ![r] = FALSE]
     ELSE /\ ~stop_sync[r] /\ stop_sync' = [stop_sync EXCEPT ![r] = TRUE]
          /\ UNCHANGED at_step
  /\ UNCHANGED <<owned, holder, task_worker, sync_worker, stop_task, delegates, memory,
                 globals>>
CloseTakesLock(r) ==
  /\ at_step[r] = "take_lock" /\ holder[r] = "none"
  /\ holder' = [holder EXCEPT ![r] = IF "lock" \in owned[r] THEN "close" ELSE @]
  /\ at_step' = [at_step EXCEPT ![r] = runtime_bootstrap_cleanup[1]]
  /\ UNCHANGED <<owned, workers, delegates, memory, globals>>

StepTo(r, name) == at_step' = [at_step EXCEPT ![r] = After(runtime_bootstrap_cleanup, name)]

\* Only the primary stops the memory worker, after the queue is drained.
memory_async_shutdown(r) ==
  /\ at_step[r] = "memory"
  /\ \/ r # Primary /\ StepTo(r, "memory") /\ UNCHANGED g_async_stop
     \/ r = Primary /\ g_async = "off" /\ StepTo(r, "memory") /\ g_async_stop' = FALSE
     \/ r = Primary /\ g_async # "off" /\ ~g_async_stop /\ g_async_stop' = TRUE /\ UNCHANGED at_step
  /\ UNCHANGED <<owned, holder, workers, delegates, g_async, jobs, globals>>

\* One component is destroyed if the context has it; sub_agent_runtime_destroy
\* cancels and joins the delegates first.
DestroyComponent(r) ==
  /\ at_step[r] \in Components
  /\ at_step[r] = "subs" => delegates[r] = 0
  /\ owned' = [owned EXCEPT ![r] = @ \ {at_step[r]}]
  /\ StepTo(r, at_step[r])
  /\ UNCHANGED <<holder, workers, delegates, memory, globals>>

\* model_set_usage_callback(NULL); g_memory_llm keeps the model's address.
ResetUsage(r) ==
  /\ at_step[r] = "usage" /\ StepTo(r, "usage")
  /\ usage_user_data' = IF r = Primary THEN 0 ELSE usage_user_data
  /\ UNCHANGED <<owned, holder, workers, delegates, memory, g_memory_llm>>

runtime_context_cleanup_lock(r) ==
  /\ at_step[r] = "unlock"
  /\ holder' = [holder EXCEPT ![r] = "none"]
  /\ owned' = [owned EXCEPT ![r] = @ \ {"lock"}]
  /\ at_step' = [at_step EXCEPT ![r] = "gone"]
  /\ UNCHANGED <<workers, delegates, memory, globals>>

LifeNext ==
  \/ MemoryWorker
  \/ \E r \in Runtimes :
       \/ runtime_open(r) \/ runtime_context_init_lock(r) \/ runtime_load_config(r)
       \/ runtime_set_workdir(r) \/ runtime_open_database(r) \/ runtime_bootstrap_models(r)
       \/ after_models_cb(r) \/ runtime_bootstrap_tools(r) \/ BootstrapShell(r)
       \/ OtherTools(r) \/ runtime_discover_skills(r) \/ PlatformTools(r) \/ LoadExtensions(r)
       \/ runtime_bootstrap_sub_agents(r) \/ McpServers(r) \/ StartSession(r)
       \/ FinalizeReplacements(r)
       \/ runtime_task_worker_start(r) \/ TaskTurn(r) \/ runtime_task_worker_main(r)
       \/ runtime_sync_start_instance(r) \/ sync_worker_main(r)
       \/ runtime_execute_turn(r) \/ DelegateStarts(r) \/ DelegateEnds(r)
       \/ \E remember \in BOOLEAN : TurnEnds(r, remember)
       \/ runtime_close(r) \/ runtime_task_worker_stop(r) \/ morph_sync_stop(r)
       \/ CloseTakesLock(r) \/ memory_async_shutdown(r) \/ DestroyComponent(r)
       \/ ResetUsage(r) \/ runtime_context_cleanup_lock(r)

\* No thread of the process uses a component after it was destroyed: a turn has
\* all it needs, whoever runs it; the memory worker consolidates with a model that
\* exists, although g_memory_llm is never cleared; a model call never reports its
\* usage to a runtime that was freed; a delegate has its sub-agent runtime and the
\* database.  And a runtime that was closed, after a failed open as after a full
\* life, has left nothing behind: no component, no worker, no holder of its lock.
\* (The model and the tools a delegate was started with are destroyed before the
\* delegates are joined: that part does not hold and is not claimed.)
UsersOutlived ==
  /\ \A r \in Runtimes :
       /\ holder[r] \in {"owner", "task"} => TurnNeeds \subseteq owned[r]
       /\ task_worker[r] = "working" => holder[r] = "task"
       /\ delegates[r] > 0 => {"subs", "db"} \subseteq owned[r]
       /\ sync_worker[r] # "off" => ~Gone(r)
       /\ Gone(r) => /\ owned[r] = {} /\ holder[r] = "none"
                     /\ task_worker[r] = "off" /\ sync_worker[r] = "off"
  /\ g_async = "busy" => g_memory_llm # 0 /\ "models" \in owned[g_memory_llm]
  /\ usage_user_data # 0 => "models" \in owned[usage_user_data]
  /\ Gone(Primary) => g_async = "off" /\ jobs = 0
=============================================================================
