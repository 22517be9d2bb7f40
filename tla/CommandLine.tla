---------------------------- MODULE CommandLine ----------------------------
(***************************************************************************)
(* The command line front end (src/sapi/cli).  One thread owns the         *)
(* terminal and the user interface: it polls the keyboard and a wake pipe, *)
(* shows what the other threads have queued, and answers the questions     *)
(* they put to it (cli_ui_call_owner).  A command job runs one line at a   *)
(* time in a thread of its own; lines typed meanwhile are queued for it.   *)
(* The task scheduler is a third thread, whose turns compete with the      *)
(* job's for the runtime's execution lock.                                 *)
(*                                                                         *)
(* Modes: "readline" (the interactive loop), "structured" (--events json)  *)
(* and "once" (-p).  The fallback loop of a build without Readline, what   *)
(* is drawn, media paths and continuation lines are left out.  A line is a *)
(* text for the agent, a slash command that takes the execution lock       *)
(* (/switch, /permissions), or /quit.                                      *)
(***************************************************************************)
EXTENDS Naturals, Sequences, FiniteSets

CONSTANTS
  Modes,       \* the modes the program may be started in
  MaxLines,    \* lines the user types
  MaxEvents,   \* events a turn emits
  MaxAsks,     \* questions put to the owner
  MaxTasks,    \* scheduled turns
  MaxCancels,  \* Esc and Ctrl-C
  MaxTotal     \* lines, questions, scheduled turns and cancels together

VARIABLES
  mode, running,   \* ctx->presentation_mode, ctx->running
  owner,           \* its place, where it goes after a drain, a readable stdin, the loop left
  lines,           \* what became of each line typed: "queued", "taken" for a turn or a command
  job, prompts,    \* struct cli_command_job and its queue of lines
  task,            \* the scheduler's thread
  execution_lock,  \* who holds it
  pending, local,  \* ui->pending, and what the drain in progress has taken
  wake,            \* the wake pipe is readable
  calls,           \* the owner call of each thread
  sigint, cancelled, \* react_sigint_flag; the react context's cancelled, which the next run would clear
  told, spent      \* what the properties remember; what the bounds count

cli == <<mode, running, owner, lines, job, prompts, task, execution_lock, pending, local, wake,
         calls, sigint, cancelled, told, spent>>

Threads == {"job", "task"}
Item(kind, thread) == [kind |-> kind, thread |-> thread]

cli_command_job_init == [active |-> FALSE, done |-> FALSE, pc |-> "none", kind |-> "none", result |-> "none"]

CliInit ==
  /\ mode \in Modes /\ running = TRUE
  /\ owner = [pc |-> IF mode = "once" THEN "once" ELSE "poll", then |-> "check", key |-> FALSE, left |-> FALSE]
  /\ lines = <<>> /\ job = cli_command_job_init /\ prompts = <<>>
  /\ task = IF mode = "once" THEN "stopped" ELSE "idle"
  /\ execution_lock = "none" /\ pending = <<>> /\ local = <<>> /\ wake = FALSE
  /\ calls = [t \in Threads |-> "none"]
  /\ sigint = FALSE /\ cancelled = FALSE
  /\ told = [posted |-> 0, shown |-> 0, aimed |-> FALSE, due |-> FALSE, failed |-> FALSE]
  /\ spent = [asks |-> 0, tasks |-> 0, cancels |-> 0]

Room == Len(lines) + spent.asks + spent.tasks + spent.cancels < MaxTotal

-----------------------------------------------------------------------------
(* The queue of the user interface. *)

\* The item is in the queue before the byte is in the pipe.
cli_ui_enqueue(item) == pending' = Append(pending, item) /\ wake' = TRUE

At(pc) == owner.pc = pc
GoTo(pc) == owner' = [owner EXCEPT !.pc = pc]
Drain(then) == owner' = [owner EXCEPT !.pc = "drain", !.then = then]

ui == <<pending, local, wake, calls>>
session == <<mode, running, lines, prompts>>
flags == <<sigint, cancelled>>

\* Mutant: the pipe is emptied after the queue is taken.
TakesQueueFirst ==
  \/ /\ At("drain") /\ GoTo("take")
     /\ local' = pending /\ pending' = <<>>
     /\ UNCHANGED <<wake, calls, session, job, task, execution_lock, flags, told, spent>>
  \/ /\ At("take") /\ GoTo("items")
     /\ wake' = FALSE
     /\ UNCHANGED <<pending, local, calls, session, job, task, execution_lock, flags, told, spent>>

\* cli_ui_drain: the pipe is emptied, then the queue is taken.
DrainTakes ==
  \/ /\ At("drain") /\ GoTo("take")
     /\ wake' = FALSE
     /\ UNCHANGED <<pending, local, calls, session, job, task, execution_lock, flags, told, spent>>
  \/ /\ At("take") /\ GoTo("items")
     /\ local' = pending /\ pending' = <<>>
     /\ UNCHANGED <<wake, calls, session, job, task, execution_lock, flags, told, spent>>

\* One item of the drain: an event or a notification is shown, an owner call is run.
cli_ui_drain ==
  /\ At("items")
  /\ \/ /\ local = <<>> /\ owner' = [owner EXCEPT !.pc = owner.then, !.then = "check"]
        /\ UNCHANGED <<local, calls, told>>
     \/ /\ local # <<>> /\ Head(local).kind # "call"
        /\ local' = Tail(local)
        /\ told' = IF Head(local).thread = "job" THEN [told EXCEPT !.shown = @ + 1] ELSE told
        /\ UNCHANGED <<owner, calls>>
     \/ /\ local # <<>> /\ Head(local).kind = "call"
        /\ GoTo("answer")
        /\ calls' = [calls EXCEPT ![Head(local).thread] = "asked"]
        /\ UNCHANGED <<local, told>>
  /\ UNCHANGED <<pending, wake, session, job, task, execution_lock, flags, spent>>

\* The question is put until it is answered, refused, or its input ends (a
\* response that does not parse, of another request or of an unknown choice is
\* asked for again); then the caller is released.
interaction_request_on_owner ==
  /\ At("answer")
  /\ calls' = [calls EXCEPT ![Head(local).thread] = "complete"]
  /\ local' = Tail(local) /\ GoTo("items")
  /\ UNCHANGED <<pending, wake, session, job, task, execution_lock, flags, told, spent>>

-----------------------------------------------------------------------------
(* The job, as the owner sees it. *)

\* cli_cancel_state_reset
cli_turn_begin == sigint' = FALSE

Untold == [told EXCEPT !.posted = 0, !.shown = 0, !.aimed = FALSE, !.due = FALSE]

\* A failed start leaves the job inactive.
cli_command_job_start(kind) ==
  /\ cli_turn_begin
  /\ told' = Untold
  /\ job' = [active |-> TRUE, done |-> FALSE, pc |-> "prepare", kind |-> kind, result |-> "none"]

StartFails ==
  /\ ~told.failed
  /\ sigint' = FALSE
  /\ told' = [Untold EXCEPT !.failed = TRUE]
  /\ UNCHANGED job

\* The line starts a job, or is reported as not started.
Starts(kind) == cli_command_job_start(kind) \/ StartFails

\* Before the next step of the loop: the key that was ready is read.
Next2 == owner' = [owner EXCEPT !.pc = IF owner.key THEN "input" ELSE "poll", !.key = FALSE]

CheckDone ==
  /\ At("check")
  /\ IF job.active /\ job.done THEN GoTo("join") ELSE Next2
  /\ UNCHANGED <<ui, session, job, task, execution_lock, flags, told, spent>>

cli_command_job_finish ==
  /\ At("join") /\ job.pc = "exited"
  /\ job' = cli_command_job_init
  /\ Drain("finish")
  /\ UNCHANGED <<ui, session, task, execution_lock, flags, told, spent>>

cli_turn_finish == sigint' = FALSE

\* Submissions that missed the final drain become the next turn.
cli_command_job_take_prompt ==
  /\ At("finish")
  /\ IF mode = "readline" /\ ~owner.left /\ prompts # <<>>
     THEN /\ Starts(Head(prompts).kind)
          /\ lines' = [lines EXCEPT ![Head(prompts).line] = "taken"]
          /\ prompts' = Tail(prompts)
     ELSE /\ cli_turn_finish
          /\ told' = Untold
          /\ UNCHANGED <<lines, job, prompts>>
  /\ IF mode = "once" \/ owner.left THEN GoTo("close") ELSE Next2
  /\ UNCHANGED <<ui, mode, running, task, execution_lock, cancelled, spent>>

-----------------------------------------------------------------------------
(* The loops of cli_run, cli_run_structured and cli_run_once. *)

\* poll returns: the pipe is readable, or a key is; in structured mode and in
\* cli_command_job_wait a timeout drains too.
cli_run ==
  /\ At("poll") /\ (running \/ job.active)
  /\ \E key \in BOOLEAN :
       /\ key => running /\ (mode = "structured" => ~job.active) /\ mode # "once"
       /\ \/ wake
          \/ key
          \/ mode \in {"structured", "once"} /\ job.active
       /\ owner' = [owner EXCEPT !.then = "check", !.key = key,
            !.pc = IF wake \/ (mode # "readline" /\ job.active) THEN "drain" ELSE "check"]
  /\ UNCHANGED <<ui, session, job, task, execution_lock, flags, told, spent>>

\* poll fails: the loop is left, with the job joined first.
PollFails ==
  /\ At("poll") /\ mode # "once" /\ told.failed = FALSE
  /\ running' = FALSE
  /\ told' = [told EXCEPT !.failed = TRUE]
  /\ owner' = [owner EXCEPT !.pc = IF job.active THEN "join" ELSE "close", !.left = TRUE]
  /\ UNCHANGED <<ui, mode, lines, prompts, job, task, execution_lock, flags, spent>>

cli_run_once ==
  /\ At("once")
  /\ \E kind \in {"text", "slash"} :
       /\ Starts(kind) /\ lines' = <<"taken">>
       /\ GoTo(IF job'.active THEN "poll" ELSE "close")
  /\ running' = FALSE
  /\ UNCHANGED <<ui, mode, prompts, task, execution_lock, cancelled, spent>>

\* The user cancels: every active turn, which is one, and the process's flag.
react_cancel_active ==
  /\ sigint' = TRUE
  /\ cancelled' = (cancelled \/ (execution_lock \in Threads /\ job.pc # "tail"))
  /\ told' = [told EXCEPT !.aimed = job.active, !.due = @ \/ (execution_lock = "job" /\ job.pc = "run")]

\* Mutant: a key clears the flags of a job that is running.
KeyResetsAlways == sigint' = FALSE
\* A key clears the flags when no job is running.
KeyResets == sigint' = IF job.active THEN sigint ELSE FALSE

\* A key that does not complete a line, or an empty line.
KeyTyped ==
  /\ At("input")
  /\ KeyResets /\ GoTo("poll")
  /\ UNCHANGED <<ui, session, job, task, execution_lock, cancelled, told, spent>>

\* A lone Esc while a job is running.
cli_readline_getc ==
  /\ At("input") /\ mode = "readline" /\ job.active
  /\ spent.cancels < MaxCancels /\ Room
  /\ react_cancel_active /\ GoTo("poll")
  /\ spent' = [spent EXCEPT !.cancels = @ + 1]
  /\ UNCHANGED <<ui, session, job, task, execution_lock>>

\* End of input: the program stops, and cancels what is running.
cli_readline_line_ready ==
  /\ At("input") /\ running' = FALSE /\ GoTo("poll")
  /\ IF job.active THEN react_cancel_active ELSE KeyResets /\ UNCHANGED <<cancelled, told>>
  /\ UNCHANGED <<ui, mode, lines, prompts, job, task, execution_lock, spent>>

\* While a job is running every line is queued for it.
cli_command_job_prompt ==
  /\ At("input") /\ Len(lines) < MaxLines /\ Room /\ job.active
  /\ lines' = Append(lines, "queued")
  /\ \E kind \in {"text", "slash", "quit"} :
       prompts' = Append(prompts, [line |-> Len(lines) + 1, kind |-> kind])
  /\ GoTo("poll")
  /\ UNCHANGED <<ui, mode, running, job, task, execution_lock, flags, told, spent>>

\* A text, or any line in structured mode, is run by a job.
LineStartsJob ==
  /\ At("input") /\ Len(lines) < MaxLines /\ Room /\ ~job.active
  /\ \E kind \in IF mode = "structured" THEN {"text", "slash", "quit"} ELSE {"text"} :
       Starts(kind)
  /\ lines' = Append(lines, "taken")
  /\ GoTo("poll")
  /\ UNCHANGED <<ui, mode, running, prompts, task, execution_lock, cancelled, spent>>

\* In the interactive loop a slash command is run by the owner itself.
CommandOnOwner ==
  /\ At("input") /\ Len(lines) < MaxLines /\ Room /\ ~job.active /\ mode = "readline"
  /\ KeyResets /\ lines' = Append(lines, "taken")
  /\ \/ GoTo("lock") /\ UNCHANGED running
     \/ Drain("poll") /\ running' = FALSE
  /\ UNCHANGED <<ui, mode, prompts, job, task, execution_lock, cancelled, told, spent>>

\* pthread_mutex_lock(&execution_lock), the command, the unlock.
cli_command_dispatch ==
  /\ At("lock") /\ execution_lock = "none"
  /\ Drain("poll")
  /\ UNCHANGED <<ui, session, job, task, execution_lock, flags, told, spent>>

\* The loop ends; runtime_close stops the scheduler and takes the lock.
LoopEnds ==
  /\ At("poll") /\ ~running /\ ~job.active
  /\ GoTo("close")
  /\ UNCHANGED <<ui, session, job, task, execution_lock, flags, told, spent>>

cli_shutdown ==
  /\ At("close") /\ task = "stopped" /\ execution_lock = "none"
  /\ Drain("gone")
  /\ UNCHANGED <<ui, session, job, task, execution_lock, flags, told, spent>>

-----------------------------------------------------------------------------
(* A turn, in the job's thread or the scheduler's. *)

\* Asking the owner: the thread waits until its call is complete.
cli_ui_call_owner(t) ==
  /\ calls[t] = "none" /\ spent.asks < MaxAsks /\ Room
  /\ calls' = [calls EXCEPT ![t] = "queued"]
  /\ cli_ui_enqueue(Item("call", t))
  /\ spent' = [spent EXCEPT !.asks = @ + 1]

Answered(t) == calls[t] = "complete" /\ calls' = [calls EXCEPT ![t] = "none"]

JobAt(pc) == job.pc = pc
JobTo(pc) == job' = [job EXCEPT !.pc = pc, !.kind = "none"]

\* cli_handle_command: a text is a turn, anything else a command.
cli_handle_command ==
  /\ JobAt("prepare")
  /\ \/ /\ job.kind = "text"
        /\ IF execution_lock = "none"
           THEN execution_lock' = "job" /\ JobTo("run")
           ELSE /\ \E pc \in {"name", "finish"} : job' = [job EXCEPT !.pc = pc, !.kind = "none", !.result = "busy"]
                /\ UNCHANGED execution_lock
        /\ UNCHANGED running
     \/ /\ job.kind = "slash" /\ execution_lock = "none"
        /\ JobTo("finish")
        /\ UNCHANGED <<execution_lock, running>>
     \/ /\ job.kind = "quit"
        /\ JobTo("finish") /\ running' = FALSE
        /\ UNCHANGED execution_lock
  /\ UNCHANGED <<mode, lines, prompts, owner, task, ui, flags, told, spent>>

cli_event_callback ==
  /\ JobAt("run") /\ told.posted < MaxEvents
  /\ cli_ui_enqueue(Item("event", "job"))
  /\ told' = [told EXCEPT !.posted = @ + 1]
  /\ UNCHANGED <<session, owner, job, task, execution_lock, local, calls, flags, spent>>

JobAsks ==
  /\ JobAt("run") /\ cli_ui_call_owner("job") /\ JobTo("asking")
  /\ UNCHANGED <<session, owner, task, execution_lock, local, flags, told>>

JobAnswered ==
  /\ JobAt("asking") /\ Answered("job") /\ JobTo("run")
  /\ UNCHANGED <<session, owner, task, execution_lock, pending, local, wake, flags, told, spent>>

\* A queued line joins the turn; only the interactive loop has an input job.
cli_command_job_drain ==
  /\ JobAt("run") /\ mode = "readline" /\ prompts # <<>>
  /\ lines' = [lines EXCEPT ![Head(prompts).line] = "taken"]
  /\ prompts' = Tail(prompts)
  /\ UNCHANGED <<mode, running, owner, job, task, execution_lock, ui, flags, told, spent>>

\* The turn ends: cancelled if it sees a cancellation, otherwise not.
TurnEnds ==
  /\ JobAt("run")
  /\ job' = [job EXCEPT !.pc = "tail", !.result = IF sigint \/ cancelled THEN "cancelled" ELSE "ok"]
  /\ sigint' = FALSE /\ cancelled' = FALSE
  /\ UNCHANGED <<session, owner, task, execution_lock, ui, told, spent>>

\* react_finish_run, the unlock; then a new session may have to be named, under the lock.
TurnReleases ==
  \/ /\ JobAt("tail")
     /\ sigint' = FALSE /\ execution_lock' = "none"
     /\ \/ JobTo("name") \/ JobTo("finish")
     /\ UNCHANGED <<session, owner, task, ui, cancelled, told, spent>>
  \/ /\ JobAt("name") /\ execution_lock = "none" /\ JobTo("finish")
     /\ UNCHANGED <<session, owner, task, execution_lock, ui, flags, told, spent>>

\* done is set before the owner is notified.
cli_command_job_run ==
  \/ /\ JobAt("finish")
     /\ job' = [job EXCEPT !.done = TRUE, !.pc = "notify"]
     /\ UNCHANGED <<session, owner, task, execution_lock, ui, flags, told, spent>>
  \/ /\ JobAt("notify") /\ JobTo("exited") /\ wake' = TRUE
     /\ UNCHANGED <<session, owner, task, execution_lock, pending, local, calls, flags, told, spent>>

-----------------------------------------------------------------------------
(* The scheduler's thread. *)

Stopping == At("close")
TaskTo(pc) == task' = pc

\* A due task: its session is created under the lock.
TaskClaims ==
  /\ task = "idle" /\ ~Stopping /\ spent.tasks < MaxTasks /\ Room
  /\ TaskTo("create")
  /\ spent' = [spent EXCEPT !.tasks = @ + 1]
  /\ UNCHANGED <<session, owner, job, execution_lock, ui, flags, told>>

runtime_session_create_detached ==
  /\ task = "create" /\ execution_lock = "none" /\ TaskTo("try")
  /\ UNCHANGED <<session, owner, job, execution_lock, ui, flags, told, spent>>

cli_scheduled_task_runner ==
  /\ task = "try"
  /\ IF execution_lock = "none"
     THEN TaskTo("run") /\ execution_lock' = "task"
     ELSE TaskTo("notify") /\ UNCHANGED execution_lock
  /\ UNCHANGED <<session, owner, job, ui, flags, told, spent>>

TaskAsks ==
  /\ task = "run" /\ cli_ui_call_owner("task") /\ TaskTo("asking")
  /\ UNCHANGED <<session, owner, job, execution_lock, local, flags, told>>

TaskAnswered ==
  /\ task = "asking" /\ Answered("task") /\ TaskTo("run")
  /\ UNCHANGED <<session, owner, job, execution_lock, pending, local, wake, flags, told, spent>>

\* The task's turn ends, seeing the same flags, and clears them.
TaskEnds ==
  /\ task = "run" /\ TaskTo("notify")
  /\ sigint' = FALSE /\ cancelled' = FALSE /\ execution_lock' = "none"
  /\ UNCHANGED <<session, owner, job, ui, told, spent>>

cli_task_notification ==
  /\ task = "notify" /\ TaskTo("idle")
  /\ cli_ui_enqueue(Item("notification", "task"))
  /\ UNCHANGED <<session, owner, job, execution_lock, local, calls, flags, told, spent>>

runtime_task_worker_stop ==
  /\ task = "idle" /\ Stopping /\ TaskTo("stopped")
  /\ UNCHANGED <<session, owner, job, execution_lock, ui, flags, told, spent>>

-----------------------------------------------------------------------------
\* Ctrl-C at any moment: only the flag, not the react context's.
cli_sigint_handler ==
  /\ spent.cancels < MaxCancels /\ Room /\ ~At("gone")
  /\ sigint' = TRUE
  /\ told' = [told EXCEPT !.aimed = job.active, !.due = @ \/ (execution_lock = "job" /\ job.pc = "run")]
  /\ spent' = [spent EXCEPT !.cancels = @ + 1]
  /\ UNCHANGED <<session, owner, job, task, execution_lock, ui, cancelled>>

OwnerStep ==
  \/ DrainTakes \/ cli_ui_drain \/ interaction_request_on_owner \/ CheckDone
  \/ cli_command_job_finish \/ cli_command_job_take_prompt \/ cli_run_once
  \/ cli_command_dispatch \/ LoopEnds \/ cli_shutdown
  \/ cli_run \/ KeyTyped
UserStep ==
  \/ PollFails \/ cli_readline_getc \/ cli_readline_line_ready \/ cli_command_job_prompt
  \/ LineStartsJob \/ CommandOnOwner \/ cli_sigint_handler
JobStep ==
  \/ cli_handle_command \/ cli_event_callback \/ JobAsks \/ JobAnswered \/ cli_command_job_drain
  \/ TurnEnds \/ TurnReleases \/ cli_command_job_run
TaskStep ==
  \/ TaskClaims \/ runtime_session_create_detached \/ cli_scheduled_task_runner \/ TaskAsks
  \/ TaskAnswered \/ TaskEnds \/ cli_task_notification \/ runtime_task_worker_stop

CliNext == OwnerStep \/ UserStep \/ JobStep \/ TaskStep

-----------------------------------------------------------------------------
\* A line is never lost or used twice: while its job is busy it waits in the
\* queue, it ends in a turn, its own or the one it steers, and when the
\* program ends none is left waiting, unless a thread could not be started or
\* the input could not be polled (command_job.c: "submissions that missed the
\* final drain become the next turn instead of disappearing").  What a turn
\* emitted is shown before the turn is finished, also when it was queued
\* after the last drain of the loop.  A turn ends cancelled only when the user
\* cancelled after it was begun, never by a cancellation of an earlier turn,
\* and a turn that was running when the user cancelled does not end as if
\* they had not (Esc, end of input and Ctrl-C, whatever the owner and the
\* scheduler do to the flags meanwhile).
TurnsAsTyped ==
  /\ \A n \in DOMAIN lines :
       lines[n] = "queued" <=> \E i \in DOMAIN prompts : prompts[i].line = n
  /\ Cardinality({prompts[i].line : i \in DOMAIN prompts}) = Len(prompts)
  /\ At("gone") /\ ~told.failed => prompts = <<>>
  /\ At("finish") => told.shown = told.posted
  /\ job.result = "cancelled" => told.aimed
  /\ job.result = "ok" => ~told.due

\* A thread waits for the owner while the owner waits for it: in a command or
\* in runtime_close for the lock of the task's turn, or, after a failed poll,
\* for the job to end, which may itself wait for that lock.  The code has no way out of these.
Embraced ==
  \/ calls["task"] = "queued" /\ owner.pc \in {"lock", "close"}
  \/ "queued" \in {calls[t] : t \in Threads} /\ owner.pc = "join" /\ owner.left /\ ~job.done

\* Every job ends and is joined, and once the program is told to stop it does:
\* no wake-up of the owner is lost between its drain and its poll, and every
\* question of a thread is put, except in an embrace.
CommandsReturn ==
  /\ []<>(~job.active \/ Embraced)
  /\ []<>(running \/ At("gone") \/ Embraced)
=============================================================================
