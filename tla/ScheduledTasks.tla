--------------------------- MODULE ScheduledTasks ---------------------------
(***************************************************************************)
(* The scheduled_tasks and notifications tables of src/db/scheduled_task.c *)
(* and the schedulers that work on them concurrently: the background       *)
(* worker of src/runtime/task_worker.c, the `/tasks run` command and the   *)
(* schedulers of other processes on the same SQLite file.                  *)
(*                                                                         *)
(* One action is one SQL statement (SQLite serialises them) or one call of *)
(* the runner.  What a scheduler holds between two statements (the time it *)
(* read, the rows it listed, the runner's answer) is state of its own and  *)
(* may be stale when it is used.                                           *)
(***************************************************************************)
EXTENDS Naturals, Sequences, FiniteSets

CONSTANTS
  Tasks,        \* row ids of scheduled_tasks (naturals: list_due sorts by id)
  Schedulers,   \* callers of the run_due functions
  Runnerless,   \* those that pass no runner (scheduled_task_run_due)
  Inputs,       \* the struct scheduled_task_input values of create calls
  EditInputs,   \* and of update calls
  RetryAfters,  \* what a runner may leave in result.retry_after_seconds
  Limit,        \* LIMIT of list_due
  StaleAfter,   \* 15 * 60 seconds in task_worker.c
  StartTime,    \* time(NULL) when the model starts
  MaxTime,      \* bound: the clock stops here
  MaxEdits,     \* bound: number of user calls other than create
  MaxAborts     \* bound: number of collects that fail or are killed

Statuses == {"absent", "pending", "running", "waiting", "completed",
             "failed", "cancelled", "timed_out"}
Claimable == {"pending", "waiting"}
Ended == {"completed", "failed", "timed_out"}
Kinds == {"agent", "reminder", "action", "watch"}
Triggers == {"once", "interval", "cron", "event"}
Levels == {"info", "warning"}

Row == [status : Statuses, kind : Kinds, trigger_type : Triggers,
        next_run_at : Nat, interval_seconds : Nat, timeout_at : Nat,
        attempts : Nat, max_attempts : Nat, updated_at : Nat]
Snapshot == [id : Tasks, row : Row]
Outcome == [rc : {"ok", "error"}, completed : BOOLEAN, retry_after : Nat]
Result == [status : Statuses, next_run_at : Nat, level : Levels]
Notification == [task_id : Tasks, level : Levels, read : BOOLEAN]
Input == [kind : Kinds, trigger_type : Triggers, delay : Nat,
          interval_seconds : Nat, timeout : Nat, max_attempts : Nat]

\* scheduled_task_validate_input: the conditions the model's fields can meet.
Valid(in) == in.trigger_type = "interval" => in.interval_seconds > 0

ASSUME ConstantsAssumption ==
  /\ Tasks \subseteq Nat
  /\ Runnerless \subseteq Schedulers
  /\ Tasks # {}
  /\ Inputs \subseteq Input
  /\ EditInputs \subseteq Input
  /\ RetryAfters \subseteq Nat
  /\ Limit \in Nat \ {0}
  /\ StaleAfter \in Nat \ {0}
  /\ StartTime \in Nat /\ StartTime > StaleAfter
  /\ MaxTime \in Nat
  /\ MaxEdits \in Nat
  /\ MaxAborts \in Nat

VARIABLES
  row,            \* the scheduled_tasks table
  notifications,  \* the notifications table, by id
  clock,          \* time(NULL)
  pc,             \* where each scheduler is in run_due_collect
  now,            \* the `now` it read when its collect began
  batch,          \* the listed rows it has not reached yet
  cur,            \* the row it is working on, as it was when listed
  result,         \* status, next_run_at and level it is about to store
  edits,          \* number of user calls other than create so far
  aborts,         \* number of aborted collects so far
  claimed_at,     \* observer: when each scheduler made its last claim
  forfeited       \* observer: the claim of a run in flight was taken away

tables == <<row, notifications>>
locals == <<pc, now, batch, cur, result>>
observers == <<claimed_at, forfeited>>
vars == <<tables, clock, locals, edits, aborts, observers>>

NoRow == [status |-> "absent", kind |-> "agent", trigger_type |-> "once",
          next_run_at |-> 0, interval_seconds |-> 0, timeout_at |-> 0,
          attempts |-> 0, max_attempts |-> 0, updated_at |-> 0]
NoResult == [status |-> "absent", next_run_at |-> 0, level |-> "info"]
NoSnapshot == [id |-> CHOOSE t \in Tasks : TRUE, row |-> NoRow]

\* Between its claim and its update_run (or its abort) a run is in flight.
Flying == {"claimed", "ran", "notified"}
InFlight(t) == {s \in Schedulers : pc[s] \in Flying /\ cur[s].id = t}

TypeOK ==
  /\ row \in [Tasks -> Row]
  /\ notifications \in Seq(Notification)
  /\ clock \in Nat
  /\ pc \in [Schedulers -> {"idle", "recovered", "batch"} \cup Flying]
  /\ now \in [Schedulers -> Nat]
  /\ batch \in [Schedulers -> SUBSET Snapshot]
  /\ cur \in [Schedulers -> Snapshot]
  /\ result \in [Schedulers -> Result]
  /\ edits \in Nat
  /\ aborts \in Nat
  /\ claimed_at \in [Schedulers -> Nat]
  /\ forfeited \in [Tasks -> BOOLEAN]

Init ==
  /\ row = [t \in Tasks |-> NoRow]
  /\ notifications = <<>>
  /\ clock = StartTime
  /\ pc = [s \in Schedulers |-> "idle"]
  /\ now = [s \in Schedulers |-> 0]
  /\ batch = [s \in Schedulers |-> {}]
  /\ cur = [s \in Schedulers |-> NoSnapshot]
  /\ result = [s \in Schedulers |-> NoResult]
  /\ edits = 0
  /\ aborts = 0
  /\ claimed_at = [s \in Schedulers |-> 0]
  /\ forfeited = [t \in Tasks |-> FALSE]

-----------------------------------------------------------------------------
(* What the run_due_* functions decide from the listed row r, the time n   *)
(* at which the collect began and the runner's outcome o.                  *)

Verdict(status, next, level) ==
  [status |-> status, next_run_at |-> next, level |-> level]

TimedOut(r, n) == r.timeout_at > 0 /\ n >= r.timeout_at
Exhausted_late(r) == r.max_attempts > 0 /\ r.attempts >= r.max_attempts \* mutant
Exhausted(r) == r.max_attempts > 0 /\ r.attempts + 1 >= r.max_attempts

task_retry_after(r, o) ==
  IF o.retry_after > 0 THEN o.retry_after
  ELSE IF r.interval_seconds > 0 THEN r.interval_seconds ELSE 60

action_should_retry(r) ==
  r.max_attempts > 0 /\ ~Exhausted(r) /\ r.interval_seconds > 0

run_due_agent(r, n, o) ==
  IF o.rc = "ok"
  THEN IF r.trigger_type = "interval" /\ r.interval_seconds > 0
       THEN Verdict("waiting", n + r.interval_seconds, "info")
       ELSE Verdict("completed", 0, "info")
  ELSE IF TimedOut(r, n) THEN Verdict("timed_out", 0, "warning")
  ELSE IF Exhausted(r) THEN Verdict("failed", 0, "warning")
  ELSE IF r.interval_seconds > 0
       THEN Verdict("waiting", n + task_retry_after(r, o), "warning")
       ELSE Verdict("failed", 0, "warning")

run_due_action(r, n, o) ==
  IF o.rc = "ok" THEN Verdict("completed", 0, "info")
  ELSE IF TimedOut(r, n) THEN Verdict("timed_out", 0, "warning")
  ELSE IF action_should_retry(r)
       THEN Verdict("waiting", n + task_retry_after(r, o), "warning")
       ELSE Verdict("failed", 0, "warning")

run_due_watch(r, n, o) ==
  IF o.rc = "ok" /\ o.completed THEN Verdict("completed", 0, "info")
  ELSE IF TimedOut(r, n) THEN Verdict("timed_out", 0, "warning")
  ELSE IF Exhausted(r)
       THEN Verdict(IF o.rc = "ok" THEN "timed_out" ELSE "failed", 0, "warning")
       ELSE Verdict("waiting", n + task_retry_after(r, o), "info")

task_finish_or_reschedule(r, n) ==
  IF TimedOut(r, n) THEN Verdict("timed_out", 0, "info")
  ELSE IF Exhausted(r) THEN Verdict("completed", 0, "info")
  ELSE IF r.interval_seconds > 0
       THEN Verdict("waiting", n + r.interval_seconds, "info")
       ELSE Verdict("completed", 0, "info")

run_due_reminder(r, n) == task_finish_or_reschedule(r, n)

run_due_unsupported == Verdict("failed", 0, "warning")

Outcomes == {o \in [rc : {"ok", "error"}, completed : BOOLEAN,
                    retry_after : RetryAfters] : o.completed => o.rc = "ok"}

-----------------------------------------------------------------------------
(* One collect: recover stale rows, list, then per row claim, run, notify, *)
(* store.                                                                  *)

\* Mutant: the status is not looked at.
Stale_any(t) == row[t].status # "absent" /\ row[t].updated_at + StaleAfter <= clock

\* cutoff = now - stale_after_seconds; the clock is past StaleAfter, so the
\* clamp of a negative cutoff to 0 never applies.
Stale(t) == row[t].status = "running" /\ row[t].updated_at + StaleAfter <= clock

recover_stale_running(s) ==
  /\ pc[s] = "idle" /\ s \notin Runnerless
  /\ row' = [t \in Tasks |->
       IF Stale(t)
       THEN [row[t] EXCEPT !.status = "waiting", !.next_run_at = clock,
                           !.updated_at = clock]
       ELSE row[t]]
  /\ forfeited' = [t \in Tasks |->
       forfeited[t] \/ (Stale(t) /\ InFlight(t) # {})]
  /\ pc' = [pc EXCEPT ![s] = "recovered"]
  /\ now' = [now EXCEPT ![s] = clock]
  /\ UNCHANGED <<notifications, clock, batch, cur, result, edits, aborts,
                 claimed_at>>

\* ORDER BY next_run_at ASC, id ASC
Before(x, y) ==
  \/ x.row.next_run_at < y.row.next_run_at
  \/ x.row.next_run_at = y.row.next_run_at /\ x.id <= y.id

\* Mutant: a row due this very second is left out.
Due_strict(n) == {[id |-> t, row |-> row[t]] : t \in
                    {u \in Tasks : row[u].status \in Claimable
                                   /\ row[u].next_run_at < n}}

Due(n) == {[id |-> t, row |-> row[t]] : t \in
             {u \in Tasks : row[u].status \in Claimable
                            /\ row[u].next_run_at <= n}}

\* The first Limit due rows.
IsListing(B, D) ==
  /\ \/ B = D /\ Cardinality(D) <= Limit
     \/ B # D /\ Cardinality(B) = Limit
  /\ \A x \in B, y \in D \ B : Before(x, y)

list_due(s) ==
  /\ \/ pc[s] = "recovered" /\ now' = now
     \/ pc[s] = "idle" /\ s \in Runnerless /\ now' = [now EXCEPT ![s] = clock]
  /\ \E B \in SUBSET Due(now'[s]) :
       /\ IsListing(B, Due(now'[s]))
       /\ batch' = [batch EXCEPT ![s] = B]
  /\ pc' = [pc EXCEPT ![s] = "batch"]
  /\ UNCHANGED <<tables, clock, cur, result, edits, aborts, observers>>

\* The rows of the batch are taken in listing order.
First(s, x) == x \in batch[s] /\ \A y \in batch[s] : Before(x, y)

\* WHERE id=? AND status IN ('pending','waiting'), on the stored row.
CanClaim(r) == r.status \in Claimable

\* The stored next_run_at is not looked at again; the run uses the listed row.
task_claim_due(s) ==
  /\ pc[s] = "batch"
  /\ \E x \in batch[s] :
       /\ First(s, x)
       /\ CanClaim(row[x.id])
       /\ row' = [row EXCEPT ![x.id] =
            [@ EXCEPT !.status = "running", !.updated_at = clock]]
       /\ batch' = [batch EXCEPT ![s] = @ \ {x}]
       /\ cur' = [cur EXCEPT ![s] = x]
  /\ pc' = [pc EXCEPT ![s] = "claimed"]
  /\ claimed_at' = [claimed_at EXCEPT ![s] = clock]
  /\ UNCHANGED <<notifications, clock, now, result, edits, aborts, forfeited>>

skip_unclaimed(s) ==
  /\ pc[s] = "batch"
  /\ \E x \in batch[s] :
       /\ First(s, x)
       /\ ~CanClaim(row[x.id])
       /\ batch' = [batch EXCEPT ![s] = @ \ {x}]
  /\ UNCHANGED <<tables, clock, pc, now, cur, result, edits, aborts, observers>>

collect_done(s) ==
  /\ pc[s] = "batch" /\ batch[s] = {}
  /\ pc' = [pc EXCEPT ![s] = "idle"]
  /\ now' = [now EXCEPT ![s] = 0]
  /\ UNCHANGED <<tables, clock, batch, cur, result, edits, aborts, observers>>

run_due(s, o) ==
  LET r == cur[s].row
  IN CASE r.kind = "reminder" -> run_due_reminder(r, now[s])
       [] r.kind # "reminder" /\ s \in Runnerless -> run_due_unsupported
       [] r.kind = "agent" /\ s \notin Runnerless -> run_due_agent(r, now[s], o)
       [] r.kind = "action" /\ s \notin Runnerless -> run_due_action(r, now[s], o)
       [] r.kind = "watch" /\ s \notin Runnerless -> run_due_watch(r, now[s], o)

run_task(s) ==
  /\ pc[s] = "claimed"
  /\ \E o \in Outcomes : result' = [result EXCEPT ![s] = run_due(s, o)]
  /\ pc' = [pc EXCEPT ![s] = "ran"]
  /\ UNCHANGED <<tables, clock, now, batch, cur, edits, aborts, observers>>

\* Mutant: an insert that fails is not noticed.
notification_create_unchecked(s) ==
  /\ pc[s] = "ran"
  /\ notifications' \in {notifications, Append(notifications,
       [task_id |-> cur[s].id, level |-> result[s].level, read |-> FALSE])}
  /\ pc' = [pc EXCEPT ![s] = "notified"]
  /\ UNCHANGED <<row, clock, now, batch, cur, result, edits, aborts, observers>>

notification_create(s) ==
  /\ pc[s] = "ran"
  /\ notifications' = Append(notifications,
       [task_id |-> cur[s].id, level |-> result[s].level, read |-> FALSE])
  /\ pc' = [pc EXCEPT ![s] = "notified"]
  /\ UNCHANGED <<row, clock, now, batch, cur, result, edits, aborts, observers>>

\* The run of s is over: its locals go out of scope, and its task counts as
\* undisturbed again unless other runs of it are in flight.
Landed(s) ==
  /\ cur' = [cur EXCEPT ![s] = NoSnapshot]
  /\ result' = [result EXCEPT ![s] = NoResult]
  /\ claimed_at' = [claimed_at EXCEPT ![s] = 0]
  /\ forfeited' = [t \in Tasks |-> forfeited[t] /\ InFlight(t) # {s}]

\* The statement has no guard on the stored status.
update_run(s) ==
  /\ pc[s] = "notified"
  /\ row' = [row EXCEPT ![cur[s].id] =
       [@ EXCEPT !.status = result[s].status,
                 !.next_run_at = result[s].next_run_at,
                 !.attempts = cur[s].row.attempts + 1,
                 !.updated_at = clock]]
  /\ Landed(s)
  /\ pc' = [pc EXCEPT ![s] = "batch"]
  /\ UNCHANGED <<notifications, clock, now, batch, edits, aborts>>

\* out_fail of the collect (database, event sink or allocation error), or the
\* death of the process: the tables stay as they are.
collect_abort(s) ==
  /\ pc[s] # "idle" /\ aborts < MaxAborts
  /\ aborts' = aborts + 1
  /\ batch' = [batch EXCEPT ![s] = {}]
  /\ Landed(s)
  /\ pc' = [pc EXCEPT ![s] = "idle"]
  /\ now' = [now EXCEPT ![s] = 0]
  /\ UNCHANGED <<tables, clock, edits>>

-----------------------------------------------------------------------------
(* The users' operations, from the CLI and from the agent's tasks tool.    *)

\* The columns create and update set; relative times are anchored at the clock.
Written(in) ==
  [status |-> "pending", kind |-> in.kind, trigger_type |-> in.trigger_type,
   next_run_at |-> clock + in.delay, interval_seconds |-> in.interval_seconds,
   timeout_at |-> IF in.timeout = 0 THEN 0 ELSE clock + in.timeout,
   attempts |-> 0, max_attempts |-> in.max_attempts, updated_at |-> clock]

\* AUTOINCREMENT: ids are handed out in order.
task_create(t, in) ==
  /\ Valid(in)
  /\ row[t].status = "absent"
  /\ \A u \in Tasks : u < t => row[u].status # "absent"
  /\ row' = [row EXCEPT ![t] = Written(in)]
  /\ UNCHANGED <<notifications, clock, locals, edits, aborts, observers>>

task_update(t, in) ==
  /\ Valid(in) /\ edits < MaxEdits
  /\ row[t].status # "absent"
  /\ row' = [row EXCEPT ![t] = Written(in)]
  /\ forfeited' = [forfeited EXCEPT ![t] = @ \/ InFlight(t) # {}]
  /\ edits' = edits + 1
  /\ UNCHANGED <<notifications, clock, locals, aborts, claimed_at>>

task_cancel(t) ==
  /\ edits < MaxEdits
  /\ row[t].status # "absent"
  /\ row' = [row EXCEPT ![t] =
       [@ EXCEPT !.status = "cancelled", !.updated_at = clock]]
  /\ edits' = edits + 1
  /\ UNCHANGED <<notifications, clock, locals, aborts, observers>>

notification_mark_read(i) ==
  /\ ~notifications[i].read /\ edits < MaxEdits
  /\ notifications' = [notifications EXCEPT ![i].read = TRUE]
  /\ edits' = edits + 1
  /\ UNCHANGED <<row, clock, locals, aborts, observers>>

Tick ==
  /\ clock < MaxTime
  /\ clock' = clock + 1
  /\ UNCHANGED <<tables, locals, edits, aborts, observers>>

Collect(s) ==
  \/ recover_stale_running(s) \/ list_due(s)
  \/ task_claim_due(s) \/ skip_unclaimed(s) \/ collect_done(s)
  \/ run_task(s) \/ notification_create(s) \/ update_run(s)

cmd_tasks_add == \E t \in Tasks, in \in Inputs : task_create(t, in)
cmd_tasks_update == \E t \in Tasks, in \in EditInputs : task_update(t, in)
cmd_tasks_cancel == \E t \in Tasks : task_cancel(t)
cmd_inbox_read == \E i \in DOMAIN notifications : notification_mark_read(i)

User == cmd_tasks_add \/ cmd_tasks_update \/ cmd_tasks_cancel \/ cmd_inbox_read

Next == Tick \/ User \/ \E s \in Schedulers : Collect(s) \/ collect_abort(s)

Spec == Init /\ [][Next]_vars

\* The worker loops for as long as it is not stopped; a runner returns because
\* model calls and tools have deadlines; time passes.
Fairness == WF_vars(Tick) /\ \A s \in Schedulers : WF_vars(Collect(s))
FairSpec == Spec /\ Fairness

-----------------------------------------------------------------------------
(* Properties.                                                             *)

\* A claim is exclusive: as long as nobody took the claim away from a run in
\* flight (stale recovery after StaleAfter, or a user's update), at most one
\* scheduler runs the task and its row says running, or cancelled by a user.
ExclusiveUnlessForfeited ==
  \A t \in Tasks : ~forfeited[t] =>
    /\ \A s1, s2 \in InFlight(t) : s1 = s2
    /\ InFlight(t) # {} => row[t].status \in {"running", "cancelled"}

\* Recovery takes a claim from a run in flight only when that run made it at
\* least StaleAfter seconds ago.
HonoursLease ==
  \A t \in Tasks : \A s \in InFlight(t) :
    ~forfeited[t] /\ forfeited'[t] /\ edits' = edits => claimed_at[s] + StaleAfter <= clock

\* The inbox hears of every end: a task that completed, failed or timed out
\* has a notification, and one that failed has a warning.  The notification
\* is stored before the status, so an abort between the two cannot lose it.
NeverEndsSilently ==
  \A t \in Tasks : row[t].status \in Ended =>
    \E i \in DOMAIN notifications :
      /\ notifications[i].task_id = t
      /\ row[t].status = "failed" => notifications[i].level = "warning"

\* A task that ended or was cancelled, with no run in flight, is changed by
\* users only: a scheduler that listed it earlier can no longer claim it.
LeavesEnded ==
  \A t \in Tasks :
    row[t].status \in Ended \cup {"cancelled"} /\ InFlight(t) = {} /\ row'[t] # row[t]
      => edits' # edits

\* Whatever the schedulers do between one another's steps, a task has one run at a
\* time and its end is announced (scheduled_task_claim, recover_stale and
\* notification_create before update_run).
ClaimsSafe == TypeOK /\ ExclusiveUnlessForfeited /\ NeverEndsSilently

\* What schedulers may not do to a row: take a claim before its time, or touch a
\* task that has ended.
RowsRespected == [][HonoursLease /\ LeavesEnded]_vars

\* Until a user changes a task, retries respect max_attempts in every
\* interleaving, even when two schedulers store counts from the same listing:
\* a task with attempts to spare is the only one offered again.  A succeeding
\* interval agent task repeats without limit.
AttemptsWithinMax ==
  edits = 0 => \A t \in Tasks :
    row[t].max_attempts > 0 /\ ~(row[t].kind = "agent"
                                 /\ row[t].trigger_type = "interval") =>
      /\ row[t].attempts <= row[t].max_attempts
      /\ row[t].status \in Claimable => row[t].attempts < row[t].max_attempts

WaitsForRun(t) == row[t].status \in Claimable /\ row[t].next_run_at <= MaxTime

Orphan(t) ==
  /\ row[t].status = "running" /\ InFlight(t) = {}
  /\ row[t].updated_at + StaleAfter <= MaxTime

\* No task waits for ever: one that falls due is claimed or withdrawn, since
\* LIMIT and the order of list_due starve nobody, and a row left running by a
\* collect that died is taken up again.
NobodyStarves == \A t \in Tasks : []<>~WaitsForRun(t) /\ []<>~Orphan(t)

\* docs/scheduled-tasks.md: after a cancel the scheduler no longer handles the
\* task.  Violated: update_run of the run in flight overwrites the status.
CancelSticks ==
  [][\A t \in Tasks : row[t].status = "cancelled" /\ edits' = edits
       => row'[t].status = "cancelled"]_vars
=============================================================================
