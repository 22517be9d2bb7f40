------------------------------ MODULE MCServer ------------------------------
(***************************************************************************)
(* The server.  A behaviour follows the pool of runtimes, or what lies     *)
(* behind one of them: the permissions of a process, the session store     *)
(* under one load, the life of the runtimes or the plans of a session.     *)
(***************************************************************************)
EXTENDS ServerPool, Sequences, TLC

CONSTANTS turn1, turn2, turn3, turn4, sessA, sessB, sessC

VARIABLES
  which,
  mode, read_allowed_dirs, write_allowed_dirs, allowed_commands, exec_allowed_dirs,
  scoped_grants, persistent_grants, table, call, consents,
  load, db, saved, txn, shared, job, thread, awake, sse, log, deleted, approvals, faults,
  at_step, owned, holder, task_worker, sync_worker, stop_task, stop_sync, delegates,
  g_async, g_async_stop, jobs, g_memory_llm, usage_user_data,
  registry, ui_state, updates

\* Two turns of one session and two of others.
MCSessionOf == turn1 :> sessA @@ turn2 :> sessA @@ turn3 :> sessB @@ turn4 :> sessC

Dirs == {"/", "/work", "/tmp", "/ext", "/ext/f", "/cli"}
AllAbove == [p \in Dirs |-> IF p = "/ext/f" THEN {p, "/ext", "/"} ELSE {p, "/"}]
ParentOf == [p \in Dirs |-> IF p = "/ext/f" THEN "/ext" ELSE "/"]
InCli == [x \in {"git", "make"} |-> "/cli"]
Permission == INSTANCE Permissions WITH
  Paths <- Dirs, Above <- AllAbove, Parent <- ParentOf,
  Subjects <- {"git", "make"}, Work <- "/work", CliDir <- InCli,
  ProfileDirs <- {}, ServerDirs <- {"/work"}, ServerCommands <- {"git"}, MaxConsents <- 2

None == [workers |-> {"w1"}, ops |-> {"turn"}, actions |-> 0, asks |-> 0, artifacts |-> FALSE,
         canvas |-> 0, faults |-> 0, sse |-> FALSE]
\* Two requests at a time that post turns and delete the session.
Posting == [None EXCEPT !.workers = {"w1", "w2"}, !.ops = {"turn", "delete"}, !.faults = 1]
\* A client that answers the questions of two turns.
Answering == [None EXCEPT !.ops = {"turn", "action"}, !.actions = 2, !.asks = 2]
\* A subscriber beside two turns and a writer of the canvas.
Watching == [None EXCEPT !.ops = {"turn", "canvas"}, !.artifacts = TRUE,
                         !.canvas = 1, !.sse = TRUE]
Store == INSTANCE SessionStore WITH
  Workers <- {"w1", "w2"}, Turns <- {"t1", "t2"}, Sessions <- {"s1"}, Watched <- "s1",
  Limit <- 1, Daily <- 2, Loads <- {Posting, Answering, Watching}, turn <- thread

Life == INSTANCE Lifecycle WITH Runtimes <- {1, 2}, Primary <- 1, MaxJobs <- 2

Plan == INSTANCE Plans WITH
  Ids <- {1, 2}, Names <- {"a"}, Statuses <- {"pending", "in_progress", "completed", "done"},
  Replies <- {<<"failed">>, <<"plain">>, <<"numbered", "plain", "bullet">>},
  MAX_PLANS <- 2, MAX_STEPS <- 3, MaxUpdates <- 4

permission == <<mode, read_allowed_dirs, write_allowed_dirs, allowed_commands, exec_allowed_dirs,
                scoped_grants, persistent_grants, table, call, consents>>
store == <<load, db, saved, txn, shared, job, thread, awake, sse, log, deleted, approvals, faults>>
life == <<at_step, owned, holder, task_worker, sync_worker, stop_task, stop_sync, delegates,
          g_async, g_async_stop, jobs, g_memory_llm, usage_user_data>>
plans == <<registry, ui_state, updates>>

\* The parts that are not followed rest in one of their initial states.
ServerInit ==
  /\ which \in {"pool", "permissions", "store", "life", "plans"}
  /\ Init
  /\ Permission!Init /\ (which # "permissions" => mode = "local")
  /\ Store!Init /\ (which # "store" => load = Posting)
  /\ Life!LifeInit /\ Plan!PlanInit

\* The server has shut down.
Terminating == main = "done" /\ (\A t \in Turns : pc[t] \in {"new", "done"}) /\ UNCHANGED vars

\* A client or a user may stop, and the bounds are reached.
Rests == which # "pool" /\ UNCHANGED <<vars, permission, store, life, plans>>

ServerNext ==
  /\ UNCHANGED which
  /\ \/ which = "pool" /\ (Next \/ Terminating) /\ UNCHANGED <<permission, store, life, plans>>
     \/ which = "permissions" /\ Permission!Next /\ UNCHANGED <<vars, store, life, plans>>
     \/ which = "store" /\ Store!Next /\ UNCHANGED <<vars, permission, life, plans>>
     \/ which = "life" /\ Life!LifeNext /\ UNCHANGED <<vars, permission, store, plans>>
     \/ which = "plans" /\ Plan!PlanNext /\ UNCHANGED <<vars, permission, store, life>>
     \/ Rests

ServerSpec ==
  ServerInit /\ [][ServerNext]_<<which, vars, permission, store, life, plans>> /\ Fairness

\* Behaviours of the store are followed until two transactions overlap.
Apart == ~shared

\* An accepted turn ends and a shutdown returns (ServerPool).
TurnsSettle == which = "pool" => PoolSettles

\* Nothing is allowed that was not agreed to, and what was agreed to is not asked
\* again (Permissions).
ConsentKept == which = "permissions" => Permission!OnlyWhatWasAgreed /\ Permission!AgreedIsRemembered

\* A running turn has its row and its session, and an approval is used once
\* (SessionStore).
SessionOutlivesTurn == which = "store" => Store!SessionOutlivesTurn /\ Store!ApprovalsSpent

\* The subscriber misses no event (SessionStore).
StreamComplete == which = "store" => Store!StreamComplete

\* No thread uses what was destroyed, and a closed runtime leaves nothing behind
\* (Lifecycle).
UsersOutlived == which = "life" => Life!UsersOutlived

\* The plans that a result shows are the session's, told apart by their ids, and
\* what is done is not shown as under way (Plans).
PlanShown == which = "plans" => Plan!PlanShown
=============================================================================
