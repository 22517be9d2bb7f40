---------------------------- MODULE SessionStore ----------------------------
(***************************************************************************)
(* The FastCGI server's session store (sapi/fastcgi/session_store.c), the  *)
(* handlers that use it and the threads of the turns (handlers/turns.c).   *)
(*                                                                         *)
(* Request threads and turn threads share ONE SQLite connection, opened    *)
(* with SQLITE_OPEN_FULLMUTEX: a statement is atomic, a transaction is     *)
(* not.  A BEGIN inside another thread's transaction fails, and the code   *)
(* goes on; its statements then belong to that transaction, and the first  *)
(* COMMIT or ROLLBACK of anybody ends it.  The history variable `shared'   *)
(* tells whether that has happened.  One action is one statement with the  *)
(* broadcast that follows it.  The turns are those of one user.            *)
(***************************************************************************)
EXTENDS Naturals, FiniteSets, Sequences, SequencesExt

CONSTANTS
  Workers,     \* request threads
  Turns,       \* turn threads, and the turn ids
  Sessions,
  Watched,     \* the session the SSE subscriber reads
  Limit,       \* max_concurrent_turns of the user's profile
  Daily,       \* daily_turns of the profile
  Loads        \* what the clients may do: a behaviour keeps to one of them

(* A load names the workers that serve, the kinds of request, and bounds on  *)
(* the actions posted, the questions and events of a turn, its artifacts, canvas *)
(* writes and failing statements; and whether a subscriber is connected.     *)

VARIABLES
  load,        \* the load of this behaviour
  db,          \* the tables, as the connection sees them
  saved,       \* <<the tables at BEGIN>>, or <<>> when no transaction is open
  txn,         \* the thread whose BEGIN opened the transaction, or ""
  shared,      \* history: a thread wrote or began inside another's transaction
  job,         \* the request each worker serves
  turn,        \* the turn threads
  awake,       \* threads a broadcast has woken
  sse,         \* the subscriber: where it is, last_id, the events it was sent
  log,         \* history: events published to the watched session
  deleted,     \* history: the sessions that were deleted
  approvals,   \* history: approve actions posted, and questions approved
  faults

vars == <<load, db, saved, txn, shared, job, turn, awake, sse, log, deleted, approvals, faults>>
client == <<sse, log>>

NoJob == [op |-> "", session |-> "", pc |-> "", verdict |-> ""]
NoAction == [id |-> 0, session |-> "", type |-> ""]
Idle == [pc |-> "none", session |-> "", asks |-> 0, why |-> "", again |-> FALSE,
         rec |-> NoAction, pending |-> "", cancelled |-> FALSE, artifact |-> ""]

Init ==
  /\ load \in Loads
  /\ db = [sessions |-> Sessions, owner |-> Sessions, running |-> {}, used |-> 0,
           events |-> <<>>, event_id |-> 0, actions |-> <<>>, action_id |-> 0,
           nodes |-> 0, artifacts |-> {}]
  /\ saved = <<>> /\ txn = "" /\ shared = FALSE
  /\ job = [w \in Workers |-> NoJob] /\ turn = [t \in Turns |-> Idle]
  /\ awake = {} /\ sse = [pc |-> "fetch", last_id |-> 0, seen |-> <<>>]
  /\ log = <<>> /\ deleted = {} /\ approvals = [posted |-> 0, used |-> 0] /\ faults = 0

----------------------------------------------------------------------------
(* Statements on the shared connection. *)

\* A write of thread x: inside whatever transaction is open.
Write(x, new) ==
  /\ db' = new
  /\ shared' = (shared \/ txn \notin {"", x})
  /\ UNCHANGED <<saved, txn>>

Read == UNCHANGED <<db, saved, txn, shared>>

\* BEGIN IMMEDIATE; its result is not looked at.
Begin(x) ==
  /\ IF saved = <<>> THEN saved' = <<db>> /\ txn' = x ELSE UNCHANGED <<saved, txn>>
  /\ shared' = (shared \/ txn \notin {"", x})
  /\ UNCHANGED db

Commit == saved' = <<>> /\ txn' = "" /\ UNCHANGED <<db, shared>>

\* ROLLBACK takes back every statement since BEGIN, whoever ran it.
Rollback(x) ==
  /\ db' = IF saved = <<>> THEN db ELSE saved[1]
  /\ saved' = <<>> /\ txn' = ""
  /\ shared' = (shared \/ txn \notin {"", x})

\* The row an event gets; a rolled back id is given out again.
Event(d, s, t) ==
  [d EXCEPT !.events = Append(@, [id |-> d.event_id + 1, session |-> s, turn |-> t]),
            !.event_id = @ + 1]

Waiting == {t \in Turns : turn[t].pc = "wait"} \cup
           (IF sse.pc = "wait" THEN {"sse"} ELSE {})

\* INSERT INTO fcgi_events, then pthread_cond_broadcast.
events_publish(x, s, t) ==
  /\ Write(x, Event(db, s, t))
  /\ awake' = Waiting
  /\ log' = IF s = Watched /\ load.sse THEN Append(log, db.event_id + 1) ELSE log
  /\ UNCHANGED sse

----------------------------------------------------------------------------
(* Requests: POST turns, DELETE session, POST actions, POST canvas nodes. *)

Goes(w, pc) == job' = [job EXCEPT ![w].pc = pc]
Replies(w) == job' = [job EXCEPT ![w] = NoJob]
At(w, op, pc) == job[w].op = op /\ job[w].pc = pc
OnlyJob == UNCHANGED <<turn, awake, client, deleted, approvals>>

\* store_session_owned_by, which every handler of a session calls first.
store_session_owned_by(s) == s \in db.owner

Request(w, op, s) ==
  /\ op \in load.ops /\ job[w] = NoJob /\ store_session_owned_by(s)
  /\ op = "action" => db.action_id < load.actions
  /\ op = "canvas" => db.nodes < load.canvas
  /\ op = "turn" => \E t \in Turns : turn[t].pc = "none"
  /\ job' = [job EXCEPT ![w] = [op |-> op, session |-> s, pc |-> "begin", verdict |-> ""]]
  /\ Read /\ OnlyJob /\ UNCHANGED faults

Begins(w) ==
  /\ job[w].op \in {"turn", "delete"} /\ job[w].pc = "begin"
  /\ Begin(w) /\ Goes(w, "check")
  /\ OnlyJob /\ UNCHANGED faults

\* A statement of the transaction fails: ROLLBACK and -EIO.
Fails(w) ==
  /\ job[w].op \in {"turn", "delete"} /\ job[w].pc \in {"check", "usage", "insert", "erase", "row"}
  /\ faults < load.faults /\ faults' = faults + 1
  /\ Goes(w, "rollback") /\ Read /\ OnlyJob

\* The SELECT of store_quota_begin_turn, and the limits it is held against.
QuotaChecks(w) ==
  /\ At(w, "turn", "check")
  /\ Goes(w, IF db.used >= Daily \/ Cardinality(db.running) >= Limit THEN "rollback" ELSE "usage")
  /\ Read /\ OnlyJob /\ UNCHANGED faults

QuotaCounts(w) ==
  /\ At(w, "turn", "usage")
  /\ Write(w, [db EXCEPT !.used = @ + 1]) /\ Goes(w, "insert")
  /\ OnlyJob /\ UNCHANGED faults

QuotaInserts(w) ==
  /\ At(w, "turn", "insert")
  /\ \E t \in Turns :
       /\ turn[t].pc = "none"
       /\ Write(w, [db EXCEPT !.running = @ \cup {<<t, job[w].session>>}])
       /\ turn' = [turn EXCEPT ![t] = [Idle EXCEPT !.pc = "posted", !.session = job[w].session]]
       /\ job' = [job EXCEPT ![w].pc = "commit", ![w].verdict = t]
  /\ UNCHANGED <<awake, client, deleted, approvals, faults>>

Commits(w) ==
  /\ job[w].op \in {"turn", "delete"} /\ job[w].pc = "commit"
  /\ Commit
  /\ IF job[w].op = "turn" THEN Goes(w, "spawn") /\ UNCHANGED deleted
     ELSE Replies(w) /\ deleted' = deleted \cup {job[w].session}
  /\ UNCHANGED <<turn, awake, client, approvals, faults>>

RollsBack(w) ==
  /\ job[w].op \in {"turn", "delete"} /\ job[w].pc = "rollback"
  /\ Rollback(w) /\ Replies(w)
  /\ OnlyJob /\ UNCHANGED faults

\* DELETE FROM fcgi_running_turns WHERE id = the turn's.
store_quota_end_turn(x, t) ==
  Write(x, [db EXCEPT !.running = {r \in @ : r[1] # t}])

\* fcgi_bridge_turn_begin and pthread_create: the thread starts, or the
\* server is shutting down or out of threads and the turn is taken back.
handle_post_turn(w) ==
  /\ At(w, "turn", "spawn") /\ Replies(w)
  /\ LET t == job[w].verdict IN
       \/ turn' = [turn EXCEPT ![t].pc = "lookup"] /\ Read
       \/ turn' = [turn EXCEPT ![t].pc = "done"] /\ store_quota_end_turn(w, t)
  /\ UNCHANGED <<awake, client, deleted, approvals, faults>>

\* store_delete_session: the owner, then the running turns, are checked ...
DeleteChecks_owner(w) ==
  /\ At(w, "delete", "check")
  /\ Goes(w, IF job[w].session \notin db.owner THEN "rollback" ELSE "erase")
  /\ Read /\ OnlyJob /\ UNCHANGED faults

DeleteChecks(w) ==
  /\ At(w, "delete", "check")
  /\ Goes(w, IF job[w].session \notin db.owner \/ \E r \in db.running : r[2] = job[w].session
             THEN "rollback" ELSE "erase")
  /\ Read /\ OnlyJob /\ UNCHANGED faults

\* ... then del_tables are emptied of the session, ...
DeleteErases(w) ==
  /\ At(w, "delete", "erase")
  /\ LET s == job[w].session IN
       Write(w, [db EXCEPT !.owner = @ \ {s},
                           !.events = SelectSeq(@, LAMBDA e : e.session # s),
                           !.actions = SelectSeq(@, LAMBDA a : a.session # s),
                           !.artifacts = {a \in @ : a[2] # s},
                           !.running = {r \in @ : r[2] # s}])
  /\ Goes(w, "row") /\ OnlyJob /\ UNCHANGED faults

\* ... and session_delete removes the row of sessions, unless it is gone.
DeleteRow(w) ==
  /\ At(w, "delete", "row")
  /\ Goes(w, IF job[w].session \in db.sessions THEN "commit" ELSE "rollback")
  /\ Write(w, [db EXCEPT !.sessions = @ \ {job[w].session}])
  /\ OnlyJob /\ UNCHANGED faults

\* INSERT INTO fcgi_actions, then actions_signal.
actions_enqueue(w) ==
  /\ At(w, "action", "begin") /\ Replies(w)
  /\ \E type \in {"approve", "reject", "cancel", "prompt"} :
       /\ Write(w, [db EXCEPT !.action_id = @ + 1,
                      !.actions = Append(@, [id |-> db.action_id + 1,
                                             session |-> job[w].session, type |-> type])])
       /\ approvals' = IF type = "approve" THEN [approvals EXCEPT !.posted = @ + 1] ELSE approvals
  /\ awake' = Waiting
  /\ UNCHANGED <<turn, client, deleted, faults>>

\* canvas_add_node or canvas_patch_node, which may fail or find no node, then
\* the event for subscribers.
canvas_write(w) ==
  /\ At(w, "canvas", "begin")
  /\ \/ Write(w, [db EXCEPT !.nodes = @ + 1]) /\ Goes(w, "publish")
     \/ Read /\ Replies(w)
  /\ OnlyJob /\ UNCHANGED faults

CanvasPublishes(w) ==
  /\ At(w, "canvas", "publish") /\ Replies(w)
  /\ events_publish(w, job[w].session, "")
  /\ UNCHANGED <<turn, deleted, approvals, faults>>

----------------------------------------------------------------------------
(* The turn's thread. *)

Running == {"run", "d_begin", "d_select", "d_update", "d_commit", "wait", "decide",
            "usage", "ready", "end"}
Moves(t, pc) == turn' = [turn EXCEPT ![t].pc = pc]
OnlyTurn == UNCHANGED <<job, awake, client, deleted, approvals, faults>>

\* session_get_by_display_id, and turn_start or the error event.
TurnStarts(t) ==
  /\ turn[t].pc = "lookup"
  /\ Moves(t, IF turn[t].session \in db.sessions THEN "acquire" ELSE "out")
  /\ events_publish(t, turn[t].session, t)
  /\ UNCHANGED <<job, deleted, approvals, faults>>

\* fcgi_bridge_runtime_acquire: a runtime no turn of the session runs on,
\* or -EAGAIN or -ETIMEDOUT and the error event.
TurnAcquires(t) ==
  /\ turn[t].pc = "acquire"
  /\ \A u \in Turns \ {t} :
       turn[u].session = turn[t].session => turn[u].pc \notin Running \ {"end"}
  /\ Moves(t, "run") /\ Read /\ OnlyTurn

TurnRefused(t) ==
  /\ turn[t].pc = "acquire" /\ Moves(t, "out")
  /\ events_publish(t, turn[t].session, t)
  /\ UNCHANGED <<job, deleted, approvals, faults>>

\* bridge_event_cb: an event of the loop becomes an event of the session,
\* through event_sink.c.
bridge_event_cb(t) ==
  /\ turn[t].pc = "run" /\ turn[t].asks < load.asks
  /\ turn' = [turn EXCEPT ![t].asks = @ + 1]
  /\ events_publish(t, turn[t].session, t)
  /\ UNCHANGED <<job, deleted, approvals, faults>>

\* turn_take_pending_action hands the action over: what is pending after it.
turn_take_pending_action(t) == ""

\* fcgi_turn_hitl, fcgi_turn_operation_approval: the question is published,
\* and answered by the pending action when there is one.
AsksApproval(t) ==
  /\ turn[t].pc = "run" /\ turn[t].asks < load.asks
  /\ events_publish(t, turn[t].session, t)
  /\ turn' = [turn EXCEPT ![t].asks = @ + 1, ![t].why = "approval",
                ![t].rec = IF turn[t].pending = "" THEN NoAction
                           ELSE [NoAction EXCEPT !.type = turn[t].pending],
                ![t].pc = IF turn[t].pending = "" THEN "d_begin" ELSE "decide",
                ![t].again = FALSE, ![t].pending = turn_take_pending_action(t)]
  /\ UNCHANGED <<job, deleted, approvals, faults>>

\* fcgi_turn_ask_user: published, and answered from the queue.
fcgi_turn_ask_user(t) ==
  /\ turn[t].pc = "run" /\ turn[t].asks < load.asks
  /\ events_publish(t, turn[t].session, t)
  /\ turn' = [turn EXCEPT ![t].asks = @ + 1, ![t].why = "question",
                          ![t].pc = "d_begin", ![t].again = FALSE]
  /\ UNCHANGED <<job, deleted, approvals, faults>>

\* A checkpoint of the loop looks for actions; so it does again after one.
Polls(t) ==
  /\ turn[t].pc = "run" /\ db.actions # <<>>
  /\ turn' = [turn EXCEPT ![t].why = "poll", ![t].pc = "d_begin", ![t].again = FALSE]
  /\ Read /\ OnlyTurn

\* actions_drain_one: BEGIN, the oldest action of the session, consumed = 1,
\* COMMIT.
DrainBegins(t) ==
  /\ turn[t].pc = "d_begin" /\ Begin(t) /\ Moves(t, "d_select") /\ OnlyTurn

Queue(t) == SelectSeq(db.actions, LAMBDA a : a.session = turn[t].session)

DrainSelects(t) ==
  /\ turn[t].pc = "d_select"
  /\ turn' = [turn EXCEPT ![t].rec = IF Queue(t) = <<>> THEN NoAction ELSE Head(Queue(t)),
                          ![t].pc = IF Queue(t) = <<>> THEN "d_commit" ELSE "d_update"]
  /\ Read /\ OnlyTurn

DrainUpdates(t) ==
  /\ turn[t].pc = "d_update"
  /\ Write(t, [db EXCEPT !.actions = SelectSeq(@, LAMBDA a : a.id # turn[t].rec.id)])
  /\ Moves(t, "d_commit") /\ OnlyTurn

\* action_pump_wait: nothing found, so wait once and look once more.
DrainCommits(t) ==
  /\ turn[t].pc = "d_commit" /\ Commit
  /\ Moves(t, IF turn[t].rec # NoAction \/ turn[t].again THEN "decide" ELSE "wait")
  /\ awake' = awake \ {t}
  /\ UNCHANGED <<job, client, deleted, approvals, faults>>

actions_wait(t) ==
  /\ turn[t].pc = "wait"
  /\ \/ t \in awake /\ turn' = [turn EXCEPT ![t].pc = "d_begin", ![t].again = TRUE]
     \/ turn' = [turn EXCEPT ![t].pc = "decide", ![t].rec = NoAction]
  /\ awake' = awake \ {t}
  /\ Read /\ UNCHANGED <<job, client, deleted, approvals, faults>>

\* turn_save_pending_action keeps the first and drops the others.
turn_save_pending_action(t, type) == IF turn[t].pending = "" THEN type ELSE turn[t].pending

\* What the taken action does: an approval asks for approve and takes the
\* rest for a no; a question is answered by a prompt and cancelled by cancel;
\* a checkpoint steers, cancels, and keeps approvals for later.
Decides(t) ==
  /\ turn[t].pc = "decide"
  /\ LET type == turn[t].rec.type
         put_off == \/ turn[t].why = "question" /\ type \in {"approve", "reject"}
                    \/ turn[t].why = "poll" /\ type \in {"approve", "reject"}
         more == turn[t].why = "poll" /\ type \in {"cancel", "prompt"} IN
       /\ turn' = [turn EXCEPT ![t].pc = IF more THEN "d_begin" ELSE "run",
                     ![t].again = FALSE, ![t].rec = NoAction, ![t].why = IF more THEN @ ELSE "",
                     ![t].cancelled = @ \/ (type = "cancel" /\ turn[t].why = "poll"),
                     ![t].pending = IF put_off THEN turn_save_pending_action(t, type) ELSE @]
       /\ approvals' = IF turn[t].why = "approval" /\ type = "approve"
                       THEN [approvals EXCEPT !.used = @ + 1] ELSE approvals
  /\ Read /\ UNCHANGED <<job, awake, client, deleted, faults>>

\* turn_artifact_get, once per path: the row, the usage, the event.
store_artifact_register(t) ==
  /\ turn[t].pc = "run" /\ turn[t].artifact = "" /\ load.artifacts
  /\ turn' = [turn EXCEPT ![t].artifact = "made", ![t].pc = "usage"]
  /\ Write(t, [db EXCEPT !.artifacts = @ \cup {<<t, turn[t].session>>}]) /\ OnlyTurn

ArtifactUsage(t) ==
  /\ turn[t].pc = "usage" /\ Moves(t, "ready") /\ Write(t, db) /\ OnlyTurn

artifact_publish_ready(t) ==
  /\ turn[t].pc = "ready" /\ Moves(t, "run")
  /\ events_publish(t, turn[t].session, t)
  /\ UNCHANGED <<job, deleted, approvals, faults>>

\* The turn is over and the runtime released: the error event and no more,
\* or the final event, unless bridge_event_cb has sent it, and turn_end.
TurnEnds(t) ==
  /\ turn[t].pc = "run"
  /\ \/ \E pc \in {"end", "out"} : Moves(t, pc) /\ events_publish(t, turn[t].session, t)
     \/ turn[t].asks > 0 /\ Moves(t, "end") /\ Read /\ UNCHANGED <<awake, client>>
  /\ UNCHANGED <<job, deleted, approvals, faults>>

TurnReleases(t) ==
  /\ turn[t].pc = "end" /\ Moves(t, "out")
  /\ events_publish(t, turn[t].session, t)
  /\ UNCHANGED <<job, deleted, approvals, faults>>

turn_thread_out(t) ==
  /\ turn[t].pc = "out"
  /\ store_quota_end_turn(t, t)
  /\ turn' = [turn EXCEPT ![t] = [Idle EXCEPT !.pc = "done"]] /\ OnlyTurn

----------------------------------------------------------------------------
(* GET events: the SSE loop of handle_sse. *)

events_fetch_newest ==
  LET es == SelectSeq(db.events, LAMBDA e : e.session = Watched /\ e.id > sse.last_id)
  IN IF es = <<>> THEN es ELSE <<Last(es)>>

\* events_fetch_after: the events after last_id, the first one first.
events_fetch_after ==
  SelectSeq(db.events, LAMBDA e : e.session = Watched /\ e.id > sse.last_id)

Sent(e) == sse' = [pc |-> "fetch", last_id |-> e.id, seen |-> Append(sse.seen, e.id)]

\* events_wait_after: fetch, else wait; a broadcast fetches again, a timeout
\* sends a heartbeat and begins the loop again.
SseFetches ==
  /\ load.sse /\ sse.pc \in {"fetch", "refetch"}
  /\ LET es == events_fetch_after IN
       IF es # <<>> THEN Sent(Head(es))
       ELSE sse' = [sse EXCEPT !.pc = IF sse.pc = "fetch" THEN "wait" ELSE "fetch"]
  /\ awake' = awake \ {"sse"}
  /\ Read /\ UNCHANGED <<job, turn, log, deleted, approvals, faults>>

SseWakes ==
  /\ sse.pc = "wait"
  /\ \/ "sse" \in awake /\ sse' = [sse EXCEPT !.pc = "refetch"]
     \/ sse' = [sse EXCEPT !.pc = "fetch"]
  /\ awake' = awake \ {"sse"}
  /\ Read /\ UNCHANGED <<job, turn, log, deleted, approvals, faults>>

Handler(w) ==
  \/ \E op \in {"turn", "delete", "action", "canvas"}, s \in Sessions : Request(w, op, s)
  \/ Begins(w) \/ Fails(w) \/ QuotaChecks(w) \/ QuotaCounts(w) \/ QuotaInserts(w)
  \/ Commits(w) \/ RollsBack(w) \/ handle_post_turn(w)
  \/ DeleteChecks(w) \/ DeleteErases(w) \/ DeleteRow(w)
  \/ actions_enqueue(w) \/ canvas_write(w) \/ CanvasPublishes(w)

turn_thread(t) ==
  \/ TurnStarts(t) \/ TurnAcquires(t) \/ TurnRefused(t)
  \/ bridge_event_cb(t) \/ AsksApproval(t) \/ fcgi_turn_ask_user(t) \/ Polls(t)
  \/ DrainBegins(t) \/ DrainSelects(t) \/ DrainUpdates(t) \/ DrainCommits(t)
  \/ actions_wait(t) \/ Decides(t)
  \/ store_artifact_register(t) \/ ArtifactUsage(t) \/ artifact_publish_ready(t)
  \/ TurnEnds(t) \/ TurnReleases(t) \/ turn_thread_out(t)

Next ==
  /\ \/ \E w \in load.workers : Handler(w)
     \/ \E t \in Turns : turn_thread(t)
     \/ SseFetches \/ SseWakes
  /\ UNCHANGED load

Spec == Init /\ [][Next]_vars

----------------------------------------------------------------------------
\* As long as no two transactions have overlapped, a turn that runs has its
\* row in fcgi_running_turns and its session still exists: the delete that
\* checks the rows and the turn that looks its session up cannot miss each
\* other, though the handlers check the owner outside their transactions.
SessionOutlivesTurn ==
  ~shared => \A t \in Turns : turn[t].pc \in Running =>
    /\ <<t, turn[t].session>> \in db.running
    /\ turn[t].session \in db.sessions /\ turn[t].session \in db.owner

\* As long as no two transactions have overlapped and the session lives, the
\* subscriber has been sent every event up to last_id, once and in the order
\* of publication, whatever wakes it and whenever it times out.
StreamComplete ==
  ~shared /\ Watched \notin deleted /\ Watched \in db.owner =>
    sse.seen = SelectSeq(log, LAMBDA i : i <= sse.last_id)

\* As long as no two transactions have overlapped, no more questions are
\* approved than approve actions were posted: an action is consumed once,
\* whether a question waits for it or it was put off as pending.
ApprovalsSpent == ~shared => approvals.used <= approvals.posted
=============================================================================
