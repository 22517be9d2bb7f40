------------------------ MODULE ScheduledTasksProofs ------------------------
(***************************************************************************)
(* Proofs about ScheduledTasks for any set of tasks and schedulers, any    *)
(* inputs and any bounds.                                                  *)
(***************************************************************************)
EXTENDS ScheduledTasks, TLAPS

USE DEF Statuses, Claimable, Ended, Kinds, Triggers, Levels, Flying

\* The runner's outcomes are of the type the decisions expect.
LEMMA OutcomesType == \A o \in Outcomes : o \in Outcome
BY ConstantsAssumption, Zenon DEF Outcomes, Outcome

\* The decisions of run_due_* are storable: a status and a time of the schema.
LEMMA DecisionType ==
  ASSUME NEW r \in Row, NEW n \in Nat, NEW o \in Outcome
  PROVE  /\ run_due_agent(r, n, o) \in Result
         /\ run_due_action(r, n, o) \in Result
         /\ run_due_watch(r, n, o) \in Result
         /\ run_due_reminder(r, n) \in Result
         /\ run_due_unsupported \in Result
<1>1. task_retry_after(r, o) \in Nat /\ r.interval_seconds \in Nat
  BY Zenon DEF task_retry_after, Row, Outcome
<1>2. ASSUME NEW st \in Statuses, NEW k \in Nat, NEW l \in Levels
      PROVE  Verdict(st, k, l) \in Result
  BY Zenon DEF Verdict, Result
<1>3. n + task_retry_after(r, o) \in Nat /\ n + r.interval_seconds \in Nat
  BY <1>1
<1>4. run_due_agent(r, n, o) \in Result
  BY <1>1, <1>2, <1>3, Zenon DEF run_due_agent
<1>5. run_due_action(r, n, o) \in Result
  BY <1>1, <1>2, <1>3, Zenon DEF run_due_action
<1>6. run_due_watch(r, n, o) \in Result
  BY <1>1, <1>2, <1>3, Zenon DEF run_due_watch
<1>7. task_finish_or_reschedule(r, n) \in Result
  BY <1>1, <1>2, <1>3, Zenon DEF task_finish_or_reschedule
<1>8. run_due_reminder(r, n) \in Result
  BY <1>7, Zenon DEF run_due_reminder
<1>9. run_due_unsupported \in Result
  BY <1>2, Zenon DEF run_due_unsupported
<1> QED BY <1>4, <1>5, <1>6, <1>8, <1>9, Zenon

\* A run ends with a storable decision.
LEMMA RunDueType ==
  ASSUME TypeOK, NEW s \in Schedulers, NEW o \in Outcomes
  PROVE  run_due(s, o) \in Result
<1> DEFINE r == cur[s].row
<1>1. r \in Row /\ now[s] \in Nat /\ o \in Outcome
  BY OutcomesType, Zenon DEF TypeOK, Snapshot
<1>2. r.kind \in Kinds
  BY <1>1, Zenon DEF Row
<1> QED BY <1>1, <1>2, DecisionType, Zenon DEF run_due

\* What an input writes is a row.
LEMMA WrittenType ==
  ASSUME TypeOK, NEW in \in Input
  PROVE  Written(in) \in Row
BY DEF TypeOK, Row, Input, Written

\* What the UPDATE statements of claim, cancel and recovery leave.
LEMMA RowUpdateType ==
  ASSUME NEW r \in Row, NEW st \in Statuses, NEW n \in Nat, NEW u \in Nat
  PROVE  /\ [r EXCEPT !.status = st, !.updated_at = u] \in Row
         /\ [r EXCEPT !.status = st, !.next_run_at = n, !.updated_at = u] \in Row
<1>1. [r EXCEPT !.status = st, !.updated_at = u] \in Row
  BY Zenon DEF Row
<1>2. [r EXCEPT !.status = st, !.next_run_at = n, !.updated_at = u] \in Row
  BY Zenon DEF Row
<1> QED BY <1>1, <1>2, Zenon

\* Marking a notification read leaves a list of notifications.
LEMMA MarkReadType ==
  ASSUME NEW q \in Seq(Notification), NEW i \in DOMAIN q
  PROVE  [q EXCEPT ![i].read = TRUE] \in Seq(Notification)
<1>1. q[i] \in Notification
  OBVIOUS
<1>2. [q[i] EXCEPT !.read = TRUE] \in Notification
  BY <1>1, Zenon DEF Notification
<1> QED BY <1>2

\* The values of locals out of scope.
LEMMA EmptyType == NoRow \in Row /\ NoResult \in Result /\ NoSnapshot \in Snapshot
<1>1. NoRow \in Row /\ NoResult \in Result
  BY Zenon DEF NoRow, Row, NoResult, Result
<1>2. (CHOOSE t \in Tasks : TRUE) \in Tasks
  BY ConstantsAssumption, Zenon
<1> QED BY <1>1, <1>2, Zenon DEF NoSnapshot, Snapshot

\* Every variable keeps its type: no interleaving of schedulers, users and
\* aborts stores a status or a time outside the schema.
THEOREM TypeCorrect == Spec => []TypeOK
<1>1. Init => TypeOK
  BY ConstantsAssumption, EmptyType DEF Init, TypeOK
<1>2. TypeOK /\ [Next]_vars => TypeOK'
  <2> SUFFICES ASSUME TypeOK, [Next]_vars PROVE TypeOK'
    BY Zenon
  <2>1. CASE Tick
    BY <2>1 DEF Tick, TypeOK, tables, locals, observers
  <2>2. ASSUME NEW t \in Tasks, NEW in \in Inputs, task_create(t, in) PROVE TypeOK'
    <3>1. Written(in) \in Row
      BY ConstantsAssumption, WrittenType, Zenon
    <3>2. row' \in [Tasks -> Row]
      <4>1. row \in [Tasks -> Row] /\ row' = [row EXCEPT ![t] = Written(in)]
        BY <2>2, Zenon DEF task_create, TypeOK
      <4> QED BY <3>1, <4>1, Zenon
    <3> QED BY <2>2, <3>2, Zenon DEF task_create, TypeOK, locals, observers
  <2>3. ASSUME NEW t \in Tasks, NEW in \in EditInputs, task_update(t, in) PROVE TypeOK'
    <3>1. Written(in) \in Row
      BY ConstantsAssumption, WrittenType, Zenon
    <3>2. row' \in [Tasks -> Row]
      <4>1. row \in [Tasks -> Row] /\ row' = [row EXCEPT ![t] = Written(in)]
        BY <2>3, Zenon DEF task_update, TypeOK
      <4> QED BY <3>1, <4>1, Zenon
    <3>3. forfeited' \in [Tasks -> BOOLEAN]
      BY <2>3, Zenon DEF task_update, TypeOK
    <3> QED BY <2>3, <3>2, <3>3 DEF task_update, TypeOK, locals
  <2>4. ASSUME NEW t \in Tasks, task_cancel(t) PROVE TypeOK'
    <3>1. [row[t] EXCEPT !.status = "cancelled", !.updated_at = clock] \in Row
      BY RowUpdateType, Zenon DEF TypeOK
    <3>2. row' \in [Tasks -> Row]
      BY <2>4, <3>1, Zenon DEF task_cancel, TypeOK
    <3> QED BY <2>4, <3>2 DEF task_cancel, TypeOK, locals, observers
  <2>5. ASSUME NEW i \in DOMAIN notifications, notification_mark_read(i) PROVE TypeOK'
    <3>1. notifications' \in Seq(Notification)
      BY <2>5, MarkReadType, Zenon DEF notification_mark_read, TypeOK
    <3> QED BY <2>5, <3>1 DEF notification_mark_read, TypeOK, locals, observers
  <2> SUFFICES ASSUME NEW s \in Schedulers, Collect(s) \/ collect_abort(s) \/ UNCHANGED vars
               PROVE  TypeOK'
    BY <2>1, <2>2, <2>3, <2>4, <2>5, Zenon
       DEF Next, User, cmd_tasks_add, cmd_tasks_update, cmd_tasks_cancel, cmd_inbox_read, vars,
           TypeOK, tables, locals, observers
  <2>6. CASE recover_stale_running(s)
    <3>1. ASSUME NEW t \in Tasks
          PROVE  [row[t] EXCEPT !.status = "waiting", !.next_run_at = clock,
                                !.updated_at = clock] \in Row
      BY RowUpdateType, Zenon DEF TypeOK
    <3> QED BY <2>6, <3>1, Zenon DEF recover_stale_running, TypeOK
  <2>7. CASE list_due(s)
    <3>1. ASSUME NEW n PROVE Due(n) \subseteq Snapshot
      BY DEF Due, Snapshot, TypeOK
    <3>2. now' \in [Schedulers -> Nat]
      BY <2>7, Zenon DEF list_due, TypeOK
    <3>3. batch' \in [Schedulers -> SUBSET Snapshot]
      BY <2>7, <3>1 DEF list_due, TypeOK
    <3> QED BY <2>7, <3>2, <3>3, Zenon DEF list_due, TypeOK, tables, observers
  <2>8. CASE task_claim_due(s)
    <3>1. PICK x \in batch[s] :
            /\ row' = [row EXCEPT ![x.id] =
                 [@ EXCEPT !.status = "running", !.updated_at = clock]]
            /\ batch' = [batch EXCEPT ![s] = @ \ {x}]
            /\ cur' = [cur EXCEPT ![s] = x]
      BY <2>8, Zenon DEF task_claim_due
    <3>2. x \in Snapshot /\ x.id \in Tasks
      BY DEF TypeOK, Snapshot
    <3>3. row' \in [Tasks -> Row]
      <4>1. [row[x.id] EXCEPT !.status = "running", !.updated_at = clock] \in Row
        BY <3>2, RowUpdateType, Zenon DEF TypeOK
      <4> QED BY <3>1, <4>1, Zenon DEF TypeOK
    <3>4. batch' \in [Schedulers -> SUBSET Snapshot] /\ cur' \in [Schedulers -> Snapshot]
      BY <3>1, <3>2, Zenon DEF TypeOK
    <3> QED BY <2>8, <3>3, <3>4, Zenon DEF task_claim_due, TypeOK
  <2>9. CASE skip_unclaimed(s)
    BY <2>9, Zenon DEF skip_unclaimed, TypeOK, tables, observers
  <2>10. CASE collect_done(s)
    BY <2>10, Zenon DEF collect_done, TypeOK, tables, observers
  <2>11. CASE run_task(s)
    <3>1. PICK o \in Outcomes : result' = [result EXCEPT ![s] = run_due(s, o)]
      BY <2>11, Zenon DEF run_task
    <3>2. run_due(s, o) \in Result
      BY RunDueType, Zenon
    <3> QED BY <2>11, <3>1, <3>2, Zenon DEF run_task, TypeOK, tables, observers
  <2>12. CASE notification_create(s)
    <3>1. [task_id |-> cur[s].id, level |-> result[s].level, read |-> FALSE] \in Notification
      BY Zenon DEF TypeOK, Snapshot, Result, Notification
    <3>2. notifications' \in Seq(Notification)
      BY <2>12, <3>1 DEF notification_create, TypeOK
    <3> QED BY <2>12, <3>2, Zenon DEF notification_create, TypeOK, observers
  <2>13. CASE update_run(s)
    <3>1. cur[s] \in Snapshot /\ result[s] \in Result
      BY Zenon DEF TypeOK
    <3>2. row' \in [Tasks -> Row]
      <4>1. cur[s].id \in Tasks /\ cur[s].row \in Row
        BY <3>1, Zenon DEF Snapshot
      <4>2. cur[s].row.attempts \in Nat
        BY <4>1, Zenon DEF Row
      <4>3. result[s].status \in Statuses /\ result[s].next_run_at \in Nat
        BY <3>1, Zenon DEF Result
      <4>4. cur[s].row.attempts + 1 \in Nat
        BY <4>2
      <4>5. row[cur[s].id] \in Row /\ clock \in Nat
        BY <4>1, Zenon DEF TypeOK
      <4>6. [row[cur[s].id] EXCEPT !.status = result[s].status,
               !.next_run_at = result[s].next_run_at,
               !.attempts = cur[s].row.attempts + 1, !.updated_at = clock] \in Row
        BY <4>4, <4>3, <4>5, Zenon DEF Row
      <4> QED BY <2>13, <4>6, Zenon DEF update_run, TypeOK
    <3> QED BY <2>13, <3>2, EmptyType, Zenon DEF update_run, Landed, TypeOK
  <2>14. CASE collect_abort(s)
    BY <2>14, EmptyType DEF collect_abort, Landed, TypeOK, tables
  <2>15. CASE UNCHANGED vars
    BY <2>15, Zenon DEF vars, TypeOK, tables, locals, observers
  <2> QED BY <2>6, <2>7, <2>8, <2>9, <2>10, <2>11, <2>12, <2>13, <2>14, <2>15, Zenon
             DEF Collect
<1> QED BY <1>1, <1>2, PTL DEF Spec

-----------------------------------------------------------------------------
(* Exclusive claims.  ExclusiveUnlessForfeited is inductive given TypeOK.  *)

\* A step that leaves the claims alone leaves the runs in flight alone.
LEMMA SameFlights ==
  ASSUME UNCHANGED <<pc, cur>>
  PROVE  \A t \in Tasks : InFlight(t)' = InFlight(t)
BY Zenon DEF InFlight

\* So does a step of a scheduler that has no run in flight before or after.
LEMMA OffFlight ==
  ASSUME TypeOK, NEW s \in Schedulers, NEW st, pc[s] \notin Flying, st \notin Flying,
         pc' = [pc EXCEPT ![s] = st], cur' = cur
  PROVE  \A t \in Tasks : InFlight(t)' = InFlight(t)
BY Zenon DEF InFlight, TypeOK

\* And a step of a run from one stage to the next.
LEMMA OnFlight ==
  ASSUME TypeOK, NEW s \in Schedulers, NEW st, pc[s] \in Flying, st \in Flying,
         pc' = [pc EXCEPT ![s] = st], cur' = cur
  PROVE  \A t \in Tasks : InFlight(t)' = InFlight(t)
BY Zenon DEF InFlight, TypeOK

\* When the collect of s leaves a run behind, s is no longer in flight.
LEMMA LandedFlights ==
  ASSUME TypeOK, NEW s \in Schedulers, NEW st, st \notin Flying,
         pc' = [pc EXCEPT ![s] = st], Landed(s)
  PROVE  \A t \in Tasks : InFlight(t)' = InFlight(t) \ {s}
BY Zenon DEF InFlight, TypeOK, Landed

\* One step keeps claims exclusive.
LEMMA ExclusiveStep ==
  ASSUME TypeOK, ExclusiveUnlessForfeited, [Next]_vars
  PROVE  ExclusiveUnlessForfeited'
<1> USE DEF ExclusiveUnlessForfeited
<1>1. ASSUME UNCHANGED <<row, pc, cur, forfeited>> PROVE ExclusiveUnlessForfeited'
  BY <1>1, SameFlights, Zenon
<1>2. ASSUME NEW t \in Tasks, NEW in \in Inputs, task_create(t, in)
      PROVE  ExclusiveUnlessForfeited'
  <2>1. \A u \in Tasks : InFlight(u)' = InFlight(u)
    BY <1>2, SameFlights, Zenon DEF task_create, locals
  <2>2. ~forfeited[t] => InFlight(t) = {}
    BY <1>2, Zenon DEF task_create
  <2>3. forfeited' = forfeited /\ \A u \in Tasks \ {t} : row'[u] = row[u]
    BY <1>2, Zenon DEF task_create, observers, TypeOK
  <2> QED BY <2>1, <2>2, <2>3, Zenon
<1>3. ASSUME NEW t \in Tasks, NEW in \in EditInputs, task_update(t, in)
      PROVE  ExclusiveUnlessForfeited'
  <2>1. \A u \in Tasks : InFlight(u)' = InFlight(u)
    BY <1>3, SameFlights, Zenon DEF task_update, locals
  <2>2. /\ forfeited'[t] = (forfeited[t] \/ InFlight(t) # {})
        /\ \A u \in Tasks \ {t} : row'[u] = row[u] /\ forfeited'[u] = forfeited[u]
    BY <1>3, Zenon DEF task_update, TypeOK
  <2> QED BY <2>1, <2>2, Zenon
<1>4. ASSUME NEW t \in Tasks, task_cancel(t) PROVE ExclusiveUnlessForfeited'
  <2>1. \A u \in Tasks : InFlight(u)' = InFlight(u)
    BY <1>4, SameFlights, Zenon DEF task_cancel, locals
  <2>2. row'[t].status = "cancelled"
    BY <1>4 DEF task_cancel, TypeOK, Row
  <2>3. forfeited' = forfeited /\ \A u \in Tasks \ {t} : row'[u] = row[u]
    BY <1>4, Zenon DEF task_cancel, observers, TypeOK
  <2> QED BY <2>1, <2>2, <2>3, Zenon
<1> SUFFICES ASSUME NEW s \in Schedulers, Collect(s) \/ collect_abort(s)
             PROVE  ExclusiveUnlessForfeited'
  BY <1>1, <1>2, <1>3, <1>4, Zenon
     DEF Next, User, cmd_tasks_add, cmd_tasks_update, cmd_tasks_cancel, cmd_inbox_read, Tick,
         notification_mark_read, vars, tables, locals, observers
<1>5. CASE recover_stale_running(s)
  <2>1. \A u \in Tasks : InFlight(u)' = InFlight(u)
    BY <1>5, OffFlight, Zenon DEF recover_stale_running
  <2>2. \A u \in Tasks : InFlight(u) # {} /\ ~forfeited'[u] => row'[u] = row[u]
    BY <1>5, Zenon DEF recover_stale_running, TypeOK
  <2>3. \A u \in Tasks : ~forfeited'[u] => ~forfeited[u]
    BY <1>5, Zenon DEF recover_stale_running, TypeOK
  <2> QED BY <2>1, <2>2, <2>3, Zenon
<1>6. CASE list_due(s)
  <2>1. \A u \in Tasks : InFlight(u)' = InFlight(u)
    BY <1>6, OffFlight, Zenon DEF list_due
  <2> QED BY <1>6, <2>1, Zenon DEF list_due, tables, observers
<1>7. CASE task_claim_due(s)
  <2>1. PICK x \in batch[s] :
          /\ CanClaim(row[x.id])
          /\ row' = [row EXCEPT ![x.id] =
               [@ EXCEPT !.status = "running", !.updated_at = clock]]
          /\ cur' = [cur EXCEPT ![s] = x]
    BY <1>7, Zenon DEF task_claim_due
  <2>2. x.id \in Tasks
    BY DEF TypeOK, Snapshot
  <2>3. row'[x.id].status = "running" /\ \A u \in Tasks \ {x.id} : row'[u] = row[u]
    BY <2>1, <2>2 DEF TypeOK, Row
  <2>4. \A u \in Tasks : InFlight(u)' = IF u = x.id THEN InFlight(u) \cup {s} ELSE InFlight(u)
    BY <1>7, <2>1, <2>2 DEF task_claim_due, InFlight, TypeOK
  <2>5. ~forfeited[x.id] => InFlight(x.id) = {}
    BY <2>1, <2>2, Zenon DEF CanClaim
  <2> QED BY <1>7, <2>2, <2>3, <2>4, <2>5 DEF task_claim_due
<1>8. CASE skip_unclaimed(s)
  BY <1>8, <1>1, Zenon DEF skip_unclaimed, tables, observers
<1>9. CASE collect_done(s)
  <2>1. \A u \in Tasks : InFlight(u)' = InFlight(u)
    BY <1>9, OffFlight, Zenon DEF collect_done
  <2> QED BY <1>9, <2>1, Zenon DEF collect_done, tables, observers
<1>10. CASE run_task(s)
  <2>1. \A u \in Tasks : InFlight(u)' = InFlight(u)
    BY <1>10, OnFlight, Zenon DEF run_task
  <2> QED BY <1>10, <2>1, Zenon DEF run_task, tables, observers
<1>11. CASE notification_create(s)
  <2>1. \A u \in Tasks : InFlight(u)' = InFlight(u)
    BY <1>11, OnFlight, Zenon DEF notification_create
  <2> QED BY <1>11, <2>1, Zenon DEF notification_create, observers
<1>12. CASE update_run(s)
  <2>1. \A u \in Tasks : InFlight(u)' = InFlight(u) \ {s}
    BY <1>12, LandedFlights, Zenon DEF update_run
  <2>2. \A u \in Tasks : forfeited'[u] = (forfeited[u] /\ InFlight(u) # {s})
    BY <1>12, Zenon DEF update_run, Landed
  <2>3. \A u \in Tasks : u # cur[s].id => row'[u] = row[u]
    BY <1>12, Zenon DEF update_run, TypeOK
  <2>4. cur[s].id \in Tasks /\ s \in InFlight(cur[s].id)
    BY <1>12, Zenon DEF update_run, InFlight, TypeOK, Snapshot
  <2>5. \A u \in Tasks : ~forfeited'[u] => forfeited[u] = FALSE \/ InFlight(u)' = {}
    BY <2>1, <2>2, Zenon DEF TypeOK
  <2> QED BY <2>1, <2>3, <2>4, <2>5
<1>13. CASE collect_abort(s)
  <2>1. \A u \in Tasks : InFlight(u)' = InFlight(u) \ {s}
    BY <1>13, LandedFlights, Zenon DEF collect_abort
  <2>2. \A u \in Tasks : forfeited'[u] = (forfeited[u] /\ InFlight(u) # {s})
    BY <1>13, Zenon DEF collect_abort, Landed
  <2>3. \A u \in Tasks : ~forfeited'[u] => forfeited[u] = FALSE \/ InFlight(u)' = {}
    BY <2>1, <2>2, Zenon DEF TypeOK
  <2> QED BY <1>13, <2>1, <2>3, Zenon DEF collect_abort, tables
<1> QED BY <1>5, <1>6, <1>7, <1>8, <1>9, <1>10, <1>11, <1>12, <1>13, Zenon DEF Collect

\* No two schedulers run the same task, whatever their number and whatever the
\* users do, unless recovery or an update took the claim of a run in flight.
THEOREM Exclusive == Spec => []ExclusiveUnlessForfeited
<1>1. Init => ExclusiveUnlessForfeited
  BY Zenon DEF Init, ExclusiveUnlessForfeited, InFlight
<1>2. TypeOK /\ ExclusiveUnlessForfeited /\ [Next]_vars => ExclusiveUnlessForfeited'
  BY ExclusiveStep, Zenon
<1> QED BY <1>1, <1>2, TypeCorrect, PTL DEF Spec

-----------------------------------------------------------------------------
(* Recovery honours the lease: the row of an undisturbed run carries the   *)
(* time of its claim.                                                      *)

LeaseInv ==
  \A t \in Tasks : \A s \in InFlight(t) :
    ~forfeited[t] /\ row[t].status = "running" => row[t].updated_at = claimed_at[s]

LEMMA LeaseStep ==
  ASSUME TypeOK, ExclusiveUnlessForfeited, LeaseInv, [Next]_vars
  PROVE  LeaseInv'
<1> USE DEF LeaseInv
<1>1. ASSUME UNCHANGED <<row, pc, cur, forfeited, claimed_at>> PROVE LeaseInv'
  BY <1>1, SameFlights, Zenon
<1>2. ASSUME NEW t \in Tasks, NEW in \in Inputs, task_create(t, in) PROVE LeaseInv'
  <2>1. \A u \in Tasks : InFlight(u)' = InFlight(u)
    BY <1>2, SameFlights, Zenon DEF task_create, locals
  <2>2. row'[t].status = "pending"
    BY <1>2, Zenon DEF task_create, TypeOK, Written
  <2>3. UNCHANGED observers /\ \A u \in Tasks \ {t} : row'[u] = row[u]
    BY <1>2, Zenon DEF task_create, observers, TypeOK
  <2> QED BY <2>1, <2>2, <2>3 DEF observers
<1>3. ASSUME NEW t \in Tasks, NEW in \in EditInputs, task_update(t, in) PROVE LeaseInv'
  <2>1. \A u \in Tasks : InFlight(u)' = InFlight(u)
    BY <1>3, SameFlights, Zenon DEF task_update, locals
  <2>2. row'[t].status = "pending" /\ claimed_at' = claimed_at
    BY <1>3, Zenon DEF task_update, TypeOK, Written
  <2>3. \A u \in Tasks \ {t} : row'[u] = row[u] /\ forfeited'[u] = forfeited[u]
    BY <1>3, Zenon DEF task_update, TypeOK
  <2> QED BY <2>1, <2>2, <2>3
<1>4. ASSUME NEW t \in Tasks, task_cancel(t) PROVE LeaseInv'
  <2>1. \A u \in Tasks : InFlight(u)' = InFlight(u)
    BY <1>4, SameFlights, Zenon DEF task_cancel, locals
  <2>2. row'[t].status = "cancelled"
    BY <1>4 DEF task_cancel, TypeOK, Row
  <2>3. UNCHANGED observers /\ \A u \in Tasks \ {t} : row'[u] = row[u]
    BY <1>4, Zenon DEF task_cancel, observers, TypeOK
  <2> QED BY <2>1, <2>2, <2>3 DEF observers
<1> SUFFICES ASSUME NEW s \in Schedulers, Collect(s) \/ collect_abort(s)
             PROVE  LeaseInv'
  BY <1>1, <1>2, <1>3, <1>4, Zenon
     DEF Next, User, cmd_tasks_add, cmd_tasks_update, cmd_tasks_cancel, cmd_inbox_read, Tick,
         notification_mark_read, vars, tables, locals, observers
<1>5. CASE recover_stale_running(s)
  <2>1. \A u \in Tasks : InFlight(u)' = InFlight(u)
    BY <1>5, OffFlight, Zenon DEF recover_stale_running
  <2>2. \A u \in Tasks : InFlight(u) # {} /\ ~forfeited'[u] => row'[u] = row[u]
    BY <1>5, Zenon DEF recover_stale_running, TypeOK
  <2>3. claimed_at' = claimed_at /\ \A u \in Tasks : ~forfeited'[u] => ~forfeited[u]
    BY <1>5, Zenon DEF recover_stale_running, TypeOK
  <2> QED BY <2>1, <2>2, <2>3
<1>6. CASE list_due(s)
  <2>1. \A u \in Tasks : InFlight(u)' = InFlight(u)
    BY <1>6, OffFlight, Zenon DEF list_due
  <2> QED BY <1>6, <2>1, Zenon DEF list_due, tables, observers
<1>7. CASE task_claim_due(s)
  <2>1. PICK x \in batch[s] :
          /\ CanClaim(row[x.id])
          /\ row' = [row EXCEPT ![x.id] =
               [@ EXCEPT !.status = "running", !.updated_at = clock]]
          /\ cur' = [cur EXCEPT ![s] = x]
    BY <1>7, Zenon DEF task_claim_due
  <2>2. x.id \in Tasks
    BY DEF TypeOK, Snapshot
  <2>3. row'[x.id].updated_at = clock /\ \A u \in Tasks \ {x.id} : row'[u] = row[u]
    BY <2>1, <2>2 DEF TypeOK, Row
  <2>4. \A u \in Tasks : InFlight(u)' = IF u = x.id THEN InFlight(u) \cup {s} ELSE InFlight(u)
    BY <1>7, <2>1, <2>2 DEF task_claim_due, InFlight, TypeOK
  <2>5. ~forfeited[x.id] => InFlight(x.id) = {}
    BY <2>1, <2>2, Zenon DEF CanClaim, ExclusiveUnlessForfeited
  <2>6. \A u \in Tasks : s \notin InFlight(u)
    BY <1>7, Zenon DEF task_claim_due, InFlight
  <2>7. /\ claimed_at'[s] = clock /\ forfeited' = forfeited
        /\ \A z \in Schedulers \ {s} : claimed_at'[z] = claimed_at[z]
    BY <1>7, Zenon DEF task_claim_due, TypeOK
  <2>8. \A u \in Tasks : InFlight(u) \subseteq Schedulers
    BY Zenon DEF InFlight
  <2> QED BY <2>2, <2>3, <2>4, <2>5, <2>6, <2>7, <2>8
<1>8. CASE skip_unclaimed(s)
  BY <1>8, <1>1, Zenon DEF skip_unclaimed, tables, observers
<1>9. CASE collect_done(s)
  <2>1. \A u \in Tasks : InFlight(u)' = InFlight(u)
    BY <1>9, OffFlight, Zenon DEF collect_done
  <2> QED BY <1>9, <2>1, Zenon DEF collect_done, tables, observers
<1>10. CASE run_task(s)
  <2>1. \A u \in Tasks : InFlight(u)' = InFlight(u)
    BY <1>10, OnFlight, Zenon DEF run_task
  <2> QED BY <1>10, <2>1, Zenon DEF run_task, tables, observers
<1>11. CASE notification_create(s)
  <2>1. \A u \in Tasks : InFlight(u)' = InFlight(u)
    BY <1>11, OnFlight, Zenon DEF notification_create
  <2> QED BY <1>11, <2>1, Zenon DEF notification_create, observers
<1>12. ASSUME NEW st, st \notin Flying, pc' = [pc EXCEPT ![s] = st], Landed(s),
              \A u \in Tasks : s \notin InFlight(u) => row'[u] = row[u]
       PROVE  LeaseInv'
  <2>1. \A u \in Tasks : InFlight(u)' = InFlight(u) \ {s}
    BY <1>12, LandedFlights, Zenon
  <2>2. \A u \in Tasks : ~forfeited'[u] => forfeited[u] = FALSE \/ InFlight(u)' = {}
    BY <1>12, <2>1, Zenon DEF Landed, TypeOK
  <2>3. \A z \in Schedulers \ {s} : claimed_at'[z] = claimed_at[z]
    BY <1>12, Zenon DEF Landed, TypeOK
  <2>4. \A u \in Tasks : InFlight(u) \subseteq Schedulers
    BY Zenon DEF InFlight
  <2>5. \A u \in Tasks : forfeited[u] = FALSE /\ s \in InFlight(u) => InFlight(u)' = {}
    BY <2>1, ZenonT(60) DEF ExclusiveUnlessForfeited
  <2> QED BY <1>12, <2>1, <2>2, <2>3, <2>4, <2>5
<1>13. CASE update_run(s)
  <2>1. \A u \in Tasks : s \notin InFlight(u) => row'[u] = row[u]
    BY <1>13, Zenon DEF update_run, TypeOK, InFlight
  <2> QED BY <1>13, <2>1, <1>12, Zenon DEF update_run
<1>14. CASE collect_abort(s)
  BY <1>14, <1>12, Zenon DEF collect_abort, tables
<1> QED BY <1>5, <1>6, <1>7, <1>8, <1>9, <1>10, <1>11, <1>13, <1>14, Zenon DEF Collect

\* Recovery never takes a claim from a run in flight before StaleAfter seconds
\* have passed since that claim, for any number of schedulers and tasks.
THEOREM Lease == Spec => [][HonoursLease]_vars
<1>1. Init => LeaseInv
  BY Zenon DEF Init, LeaseInv, InFlight
<1>2. TypeOK /\ ExclusiveUnlessForfeited /\ LeaseInv /\ [Next]_vars => LeaseInv'
  BY LeaseStep, Zenon
<1>3. TypeOK /\ LeaseInv /\ [Next]_vars => [HonoursLease]_vars
  <2> SUFFICES ASSUME TypeOK, LeaseInv, Next,
                      NEW t \in Tasks, NEW s \in InFlight(t),
                      ~forfeited[t], forfeited'[t], edits' = edits
               PROVE  claimed_at[s] + StaleAfter <= clock
    BY Zenon DEF HonoursLease
  <2>1. edits' # edits + 1
    BY DEF TypeOK
  <2>2. forfeited' # forfeited
    BY Zenon
  <2>3. \A z \in Schedulers : Landed(z) => ~forfeited'[t]
    BY Zenon DEF Landed
  <2>4. PICK z \in Schedulers : recover_stale_running(z)
    BY <2>1, <2>2, <2>3, Zenon
       DEF Next, User, cmd_tasks_add, cmd_tasks_update, cmd_tasks_cancel, cmd_inbox_read, Tick,
           Collect, task_create, task_update, task_cancel,
           notification_mark_read, list_due, task_claim_due, skip_unclaimed,
           collect_done, run_task, notification_create, update_run,
           collect_abort, observers
  <2>5. Stale(t)
    BY <2>4, Zenon DEF recover_stale_running, TypeOK
  <2> QED BY <2>5, Zenon DEF Stale, LeaseInv
<1> QED BY <1>1, <1>2, <1>3, TypeCorrect, Exclusive, PTL DEF Spec

-----------------------------------------------------------------------------
(* Every end is announced: a status is stored only after its notification. *)

Announced(t, st) ==
  \E i \in DOMAIN notifications :
    /\ notifications[i].task_id = t
    /\ st = "failed" => notifications[i].level = "warning"

AnnouncedInv ==
  /\ \A t \in Tasks : row[t].status \in Ended => Announced(t, row[t].status)
  /\ \A s \in Schedulers : pc[s] = "notified" => Announced(cur[s].id, result[s].status)
  /\ \A s \in Schedulers : pc[s] = "ran" /\ result[s].status = "failed"
                             => result[s].level = "warning"

\* A run decides for failure only with a warning.
LEMMA FailureWarns ==
  ASSUME TypeOK, NEW s \in Schedulers, NEW o \in Outcomes,
         run_due(s, o).status = "failed"
  PROVE  run_due(s, o).level = "warning"
<1> DEFINE r == cur[s].row
<1>1. r \in Row
  BY Zenon DEF TypeOK, Snapshot
<1>2. r.kind \in Kinds
  BY <1>1, Zenon DEF Row
<1>3. ASSUME NEW st, NEW n, NEW l
      PROVE  Verdict(st, n, l).status = st /\ Verdict(st, n, l).level = l
  BY Zenon DEF Verdict
<1>4. CASE r.kind = "reminder"
  <2>1. run_due(s, o) = run_due_reminder(r, now[s])
    BY <1>4, Zenon DEF run_due
  <2>2. task_finish_or_reschedule(r, now[s]).status # "failed"
    BY <1>3 DEF task_finish_or_reschedule
  <2>3. run_due_reminder(r, now[s]).status = task_finish_or_reschedule(r, now[s]).status
    BY Zenon DEF run_due_reminder, task_finish_or_reschedule, Verdict
  <2> QED BY <2>1, <2>2, <2>3, Zenon
<1>5. CASE r.kind # "reminder" /\ s \in Runnerless
  BY <1>3, <1>5 DEF run_due, run_due_unsupported
<1>6. CASE r.kind = "agent" /\ s \notin Runnerless
  BY <1>3, <1>6 DEF run_due, run_due_agent
<1>7. CASE r.kind = "action" /\ s \notin Runnerless
  BY <1>3, <1>7 DEF run_due, run_due_action
<1>8. CASE r.kind = "watch" /\ s \notin Runnerless
  BY <1>3, <1>8 DEF run_due, run_due_watch
<1> QED BY <1>2, <1>4, <1>5, <1>6, <1>7, <1>8, Zenon

LEMMA AnnouncedStep ==
  ASSUME TypeOK, AnnouncedInv, [Next]_vars
  PROVE  AnnouncedInv'
<1> USE DEF AnnouncedInv
<1>1. ASSUME notifications' = notifications
      PROVE  \A t, st : Announced(t, st)' <=> Announced(t, st)
  BY <1>1, Zenon DEF Announced
<1>2. ASSUME NEW t \in Tasks, \A u \in Tasks \ {t} : row'[u] = row[u],
             row'[t].status \notin Ended, UNCHANGED <<notifications, locals>>
      PROVE  AnnouncedInv'
  BY <1>1, <1>2, Zenon DEF locals
<1>3. ASSUME NEW t \in Tasks, NEW in \in Inputs, task_create(t, in) PROVE AnnouncedInv'
  BY <1>2, <1>3, Zenon DEF task_create, TypeOK, Written
<1>4. ASSUME NEW t \in Tasks, NEW in \in EditInputs, task_update(t, in) PROVE AnnouncedInv'
  BY <1>2, <1>4, Zenon DEF task_update, TypeOK, Written
<1>5. ASSUME NEW t \in Tasks, task_cancel(t) PROVE AnnouncedInv'
  <2>1. row'[t].status = "cancelled"
    BY <1>5 DEF task_cancel, TypeOK, Row
  <2> QED BY <1>2, <1>5, <2>1, Zenon DEF task_cancel, TypeOK
<1>6. ASSUME NEW i \in DOMAIN notifications, notification_mark_read(i) PROVE AnnouncedInv'
  <2>1. /\ DOMAIN notifications' = DOMAIN notifications
        /\ \A j \in DOMAIN notifications :
             /\ notifications'[j].task_id = notifications[j].task_id
             /\ notifications'[j].level = notifications[j].level
    BY <1>6 DEF notification_mark_read, TypeOK, Notification
  <2>2. \A t, st : Announced(t, st)' <=> Announced(t, st)
    BY <2>1, Zenon DEF Announced
  <2> QED BY <1>6, <2>2, Zenon DEF notification_mark_read, locals
<1>7. ASSUME UNCHANGED <<row, notifications, pc, cur, result>> PROVE AnnouncedInv'
  BY <1>1, <1>7, Zenon
<1> SUFFICES ASSUME NEW s \in Schedulers, Collect(s) \/ collect_abort(s)
             PROVE  AnnouncedInv'
  BY <1>3, <1>4, <1>5, <1>6, <1>7, Zenon DEF Next, User, cmd_tasks_add, cmd_tasks_update,
                                             cmd_tasks_cancel, cmd_inbox_read, Tick, vars,
                                             tables, locals
<1>8. CASE recover_stale_running(s)
  <2>1. \A u \in Tasks : row'[u].status \in Ended => row'[u] = row[u]
    <3> SUFFICES ASSUME NEW u \in Tasks, Stale(u) PROVE row'[u].status = "waiting"
      BY <1>8, Zenon DEF recover_stale_running
    <3>1. row'[u] = [row[u] EXCEPT !.status = "waiting", !.next_run_at = clock,
                                   !.updated_at = clock]
      BY <1>8, Zenon DEF recover_stale_running
    <3>2. row[u] \in Row
      BY Zenon DEF TypeOK
    <3> QED BY <3>1, <3>2, Zenon DEF Row
  <2> QED BY <1>1, <1>8, <2>1, Zenon DEF recover_stale_running, TypeOK
<1>9. CASE list_due(s)
  BY <1>1, <1>9, Zenon DEF list_due, tables, TypeOK
<1>10. CASE task_claim_due(s)
  <2>1. \A u \in Tasks : row'[u].status \in Ended => row'[u] = row[u]
    <3>1. PICK x \in batch[s] : row' = [row EXCEPT ![x.id] =
                 [@ EXCEPT !.status = "running", !.updated_at = clock]]
      BY <1>10, Zenon DEF task_claim_due
    <3>2. x.id \in Tasks
      BY DEF TypeOK, Snapshot
    <3>3. row'[x.id].status = "running" /\ \A u \in Tasks \ {x.id} : row'[u] = row[u]
      BY <3>1, <3>2, SMTT(30) DEF TypeOK, Row
    <3> QED BY <3>3, Zenon
  <2> QED BY <1>1, <1>10, <2>1, Zenon DEF task_claim_due, TypeOK
<1>11. CASE skip_unclaimed(s)
  BY <1>7, <1>11, Zenon DEF skip_unclaimed, tables
<1>12. CASE collect_done(s)
  BY <1>1, <1>12, Zenon DEF collect_done, tables, TypeOK
<1>13. CASE run_task(s)
  <2>1. PICK o \in Outcomes : result' = [result EXCEPT ![s] = run_due(s, o)]
    BY <1>13, Zenon DEF run_task
  <2>2. result'[s].status = "failed" => result'[s].level = "warning"
    BY <2>1, FailureWarns, Zenon DEF TypeOK
  <2>3. /\ pc'[s] = "ran" /\ cur' = cur
        /\ \A z \in Schedulers \ {s} : pc'[z] = pc[z] /\ result'[z] = result[z]
    BY <1>13, <2>1, Zenon DEF run_task, TypeOK
  <2> QED BY <1>1, <1>13, <2>2, <2>3, Zenon DEF run_task, tables
<1>14. CASE notification_create(s)
  <2> DEFINE n == [task_id |-> cur[s].id, level |-> result[s].level, read |-> FALSE]
             k == Len(notifications) + 1
  <2>1. /\ k \in DOMAIN notifications' /\ notifications'[k] = n
        /\ \A j \in DOMAIN notifications :
             j \in DOMAIN notifications' /\ notifications'[j] = notifications[j]
    BY <1>14 DEF notification_create, TypeOK
  <2>2. \A t, st : Announced(t, st) => Announced(t, st)'
    BY <2>1, Zenon DEF Announced
  <2>3. Announced(cur[s].id, result[s].status)'
    <3>1. cur' = cur /\ result' = result
      BY <1>14, Zenon DEF notification_create
    <3>2. result[s].status = "failed" => result[s].level = "warning"
      BY <1>14, Zenon DEF notification_create
    <3>3. n.task_id = cur[s].id /\ n.level = result[s].level
      BY Zenon
    <3> QED BY <2>1, <3>1, <3>2, <3>3, ZenonT(60) DEF Announced
  <2> QED BY <1>14, <2>2, <2>3, Zenon DEF notification_create, TypeOK
<1>15. CASE update_run(s)
  <2>1. row'[cur[s].id].status = result[s].status
    BY <1>15 DEF update_run, TypeOK, Snapshot, Row
  <2>2. \A u \in Tasks : u # cur[s].id => row'[u] = row[u]
    BY <1>15, Zenon DEF update_run, TypeOK
  <2>3. Announced(cur[s].id, result[s].status)
    BY <1>15, Zenon DEF update_run
  <2>4. \A u \in Tasks : row'[u].status \in Ended => Announced(u, row'[u].status)
    BY <2>1, <2>2, <2>3, Zenon
  <2> QED BY <1>1, <1>15, <2>4, Zenon DEF update_run, Landed, TypeOK
<1>16. CASE collect_abort(s)
  BY <1>1, <1>16, Zenon DEF collect_abort, Landed, tables, TypeOK
<1> QED BY <1>8, <1>9, <1>10, <1>11, <1>12, <1>13, <1>14, <1>15, <1>16, Zenon DEF Collect

\* No abort, crash or concurrent scheduler makes a task end unannounced.
THEOREM Announces == Spec => []NeverEndsSilently
<1>1. Init => AnnouncedInv
  BY DEF Init, AnnouncedInv, NoRow
<1>2. TypeOK /\ AnnouncedInv /\ [Next]_vars => AnnouncedInv'
  BY AnnouncedStep, Zenon
<1>3. AnnouncedInv => NeverEndsSilently
  BY Zenon DEF AnnouncedInv, Announced, NeverEndsSilently
<1> QED BY <1>1, <1>2, <1>3, TypeCorrect, PTL DEF Spec

-----------------------------------------------------------------------------

\* A task that ended or was cancelled, with no run of it in flight, is out of
\* the schedulers' hands for good: stale listings cannot bring it back.
THEOREM EndsAreFinal == Spec => [][LeavesEnded]_vars
<1>1. TypeOK /\ [Next]_vars => [LeavesEnded]_vars
  <2> SUFFICES ASSUME TypeOK, Next, NEW t \in Tasks,
                      row[t].status \in Ended \cup {"cancelled"}, InFlight(t) = {},
                      edits' = edits
               PROVE  row'[t] = row[t]
    BY Zenon DEF LeavesEnded
  <2>1. edits' # edits + 1
    BY DEF TypeOK
  <2>2. ASSUME NEW u \in Tasks, NEW in \in Inputs, task_create(u, in)
        PROVE  row'[t] = row[t]
    BY <2>2, Zenon DEF task_create, TypeOK
  <2>3. ASSUME NEW s \in Schedulers, recover_stale_running(s) PROVE row'[t] = row[t]
    BY <2>3, Zenon DEF recover_stale_running, Stale, TypeOK
  <2>4. ASSUME NEW s \in Schedulers, task_claim_due(s) PROVE row'[t] = row[t]
    BY <2>4, Zenon DEF task_claim_due, CanClaim, TypeOK
  <2>5. ASSUME NEW s \in Schedulers, update_run(s) PROVE row'[t] = row[t]
    <3>1. cur[s].id # t
      BY <2>5, Zenon DEF update_run, InFlight
    <3> QED BY <2>5, <3>1, Zenon DEF update_run, TypeOK
  <2> QED BY <2>1, <2>2, <2>3, <2>4, <2>5, Zenon
       DEF Next, User, cmd_tasks_add, cmd_tasks_update, cmd_tasks_cancel, cmd_inbox_read, Tick,
           Collect, task_update, task_cancel,
           notification_mark_read, list_due, skip_unclaimed, collect_done,
           run_task, notification_create, collect_abort, tables
<1> QED BY <1>1, TypeCorrect, PTL DEF Spec

-----------------------------------------------------------------------------
(* Attempts.  Counts are stored from listed rows, which may be stale, so   *)
(* the invariant also speaks of what the schedulers hold: a listed row is  *)
(* of the same task as the stored one and has an attempt to spare, and a   *)
(* decision that offers the task again leaves it another.                  *)

Limited(r) == r.max_attempts > 0 /\ ~(r.kind = "agent" /\ r.trigger_type = "interval")

\* Statuses from which a task runs again.
Offered == Claimable \cup {"running"}

Within(r) == Limited(r) =>
  r.attempts <= r.max_attempts /\ (r.status \in Offered => r.attempts < r.max_attempts)

\* Nobody but the creator sets these columns while there are no edits.
SameTask(r, q) ==
  /\ r.status # "absent" /\ r.kind = q.kind /\ r.trigger_type = q.trigger_type
  /\ r.max_attempts = q.max_attempts

Listed(x) == SameTask(row[x.id], x.row) /\ (Limited(x.row) => x.row.attempts < x.row.max_attempts)

Decided(r, v) ==
  /\ v.status # "absent"
  /\ Limited(r) /\ v.status \in Offered => r.attempts + 1 < r.max_attempts

AttemptsInv ==
  edits = 0 =>
    /\ \A t \in Tasks : Within(row[t])
    /\ \A s \in Schedulers : \A x \in batch[s] : Listed(x)
    /\ \A s \in Schedulers : pc[s] \in Flying => Listed(cur[s])
    /\ \A s \in Schedulers : pc[s] \in {"ran", "notified"} => Decided(cur[s].row, result[s])

\* A run offers a limited task again only with an attempt to spare.
LEMMA DecisionSpares ==
  ASSUME TypeOK, NEW s \in Schedulers, NEW o \in Outcomes
  PROVE  Decided(cur[s].row, run_due(s, o))
<1> DEFINE r == cur[s].row
<1>1. r \in Row
  BY Zenon DEF TypeOK, Snapshot
<1>2. /\ r.kind \in Kinds /\ r.attempts \in Nat /\ r.max_attempts \in Nat
  BY <1>1, Zenon DEF Row
<1>3. ASSUME NEW st, NEW n, NEW l PROVE Verdict(st, n, l).status = st
  BY Zenon DEF Verdict
<1>4. Limited(r) /\ ~Exhausted(r) => r.attempts + 1 < r.max_attempts
  BY <1>2 DEF Limited, Exhausted
<1> HIDE DEF r
<1>5. CASE r.kind = "reminder"
  <2>1. run_due(s, o) = task_finish_or_reschedule(r, now[s])
    BY <1>5, Zenon DEF run_due, r, run_due_reminder
  <2>2. Decided(r, task_finish_or_reschedule(r, now[s]))
    BY <1>3, <1>4 DEF task_finish_or_reschedule, Decided, Offered
  <2> QED BY <2>1, <2>2, Zenon DEF r
<1>6. CASE r.kind # "reminder" /\ s \in Runnerless
  <2>1. run_due(s, o) = run_due_unsupported
    BY <1>6, Zenon DEF run_due, r
  <2>2. Decided(r, run_due_unsupported)
    BY <1>3 DEF run_due_unsupported, Decided, Offered
  <2> QED BY <2>1, <2>2, Zenon DEF r
<1>7. CASE r.kind = "agent" /\ s \notin Runnerless
  <2>1. run_due(s, o) = run_due_agent(r, now[s], o)
    BY <1>7, Zenon DEF run_due, r
  <2>2. Decided(r, run_due_agent(r, now[s], o))
    BY <1>3, <1>4, <1>7 DEF run_due_agent, Decided, Offered, Limited
  <2> QED BY <2>1, <2>2, Zenon DEF r
<1>8. CASE r.kind = "action" /\ s \notin Runnerless
  <2>1. run_due(s, o) = run_due_action(r, now[s], o)
    BY <1>8, Zenon DEF run_due, r
  <2>2. Decided(r, run_due_action(r, now[s], o))
    BY <1>3, <1>4 DEF run_due_action, action_should_retry, Decided, Offered
  <2> QED BY <2>1, <2>2, Zenon DEF r
<1>9. CASE r.kind = "watch" /\ s \notin Runnerless
  <2>1. run_due(s, o) = run_due_watch(r, now[s], o)
    BY <1>9, Zenon DEF run_due, r
  <2>2. Decided(r, run_due_watch(r, now[s], o))
    BY <1>3, <1>4 DEF run_due_watch, Decided, Offered
  <2> QED BY <2>1, <2>2, Zenon DEF r
<1> QED BY <1>2, <1>5, <1>6, <1>7, <1>8, <1>9, Zenon

\* The rows keep what identifies their tasks.
RowsSame == \A t \in Tasks : row[t].status # "absent" => SameTask(row'[t], row[t])

\* Then a listed row is still of its task.
LEMMA ListedStays ==
  ASSUME RowsSame, NEW x \in Snapshot, Listed(x)
  PROVE  Listed(x)'
<1>1. x.id \in Tasks
  BY Zenon DEF Snapshot
<1>2. SameTask(row'[x.id], row[x.id]) /\ SameTask(row[x.id], x.row)
  <2>1. SameTask(row[x.id], x.row)
    BY Zenon DEF Listed
  <2>2. row[x.id].status # "absent"
    BY <2>1, Zenon DEF SameTask
  <2> QED BY <1>1, <2>1, <2>2, Zenon DEF RowsSame
<1>3. SameTask(row'[x.id], x.row)
  BY <1>2, Zenon DEF SameTask
<1> QED BY <1>3, Zenon DEF Listed

\* What a claim, a recovery and update_run leave of a row.
LEMMA RowUpdates ==
  ASSUME NEW r \in Row, NEW st, NEW n, NEW u, NEW a
  PROVE  /\ LET q == [r EXCEPT !.status = st, !.updated_at = u]
            IN  /\ q.status = st /\ q.kind = r.kind /\ q.trigger_type = r.trigger_type
                /\ q.attempts = r.attempts /\ q.max_attempts = r.max_attempts
         /\ LET q == [r EXCEPT !.status = st, !.next_run_at = n, !.updated_at = u]
            IN  /\ q.status = st /\ q.kind = r.kind /\ q.trigger_type = r.trigger_type
                /\ q.attempts = r.attempts /\ q.max_attempts = r.max_attempts
         /\ LET q == [r EXCEPT !.status = st, !.next_run_at = n, !.attempts = a, !.updated_at = u]
            IN  /\ q.status = st /\ q.kind = r.kind /\ q.trigger_type = r.trigger_type
                /\ q.attempts = a /\ q.max_attempts = r.max_attempts
BY Zenon DEF Row

\* A row whose status becomes one it may run from again.
LEMMA StillWithin ==
  ASSUME NEW r, NEW q, Within(r), r.status \in Offered, SameTask(q, r), q.attempts = r.attempts
  PROVE  Within(q)
BY Zenon DEF Within, SameTask, Limited

LEMMA AttemptsStep ==
  ASSUME TypeOK, AttemptsInv, [Next]_vars
  PROVE  AttemptsInv'
<1>1. CASE edits' # 0
  BY <1>1, Zenon DEF AttemptsInv
<1> SUFFICES ASSUME edits' = 0 PROVE AttemptsInv'
  BY <1>1, Zenon
<1>2. edits' # edits + 1
  BY DEF TypeOK
<1>3. edits = 0
  BY <1>2, Zenon DEF Next, User, cmd_tasks_add, cmd_tasks_update, cmd_tasks_cancel,
                     cmd_inbox_read, Tick, vars, Collect, task_create, task_update, task_cancel,
    notification_mark_read, recover_stale_running, list_due, task_claim_due, skip_unclaimed,
    collect_done, run_task, notification_create, update_run, collect_abort
<1>4. /\ \A t \in Tasks : Within(row[t])
      /\ \A s \in Schedulers : \A x \in batch[s] : Listed(x)
      /\ \A s \in Schedulers : pc[s] \in Flying => Listed(cur[s])
      /\ \A s \in Schedulers : pc[s] \in {"ran", "notified"} => Decided(cur[s].row, result[s])
  BY <1>3, Zenon DEF AttemptsInv
<1>5. /\ \A s \in Schedulers : cur[s] \in Snapshot /\ \A x \in batch[s] : x \in Snapshot
      /\ \A t \in Tasks : row[t] \in Row
  BY Zenon DEF TypeOK
<1>6. \A t \in Tasks : row[t].status # "absent" => SameTask(row[t], row[t])
  BY Zenon DEF SameTask
\* The schedulers hold no more than they held.
<1>7. ASSUME RowsSame, \A t \in Tasks : Within(row'[t]),
             \A s \in Schedulers : batch'[s] \subseteq batch[s],
             \A s \in Schedulers : \/ pc'[s] \notin Flying
                                   \/ /\ pc[s] \in Flying /\ cur'[s] = cur[s]
                                      /\ \/ pc'[s] = "claimed"
                                         \/ pc[s] \in {"ran", "notified"} /\ result'[s] = result[s]
      PROVE  AttemptsInv'
  <2>1. ASSUME NEW s \in Schedulers, NEW x \in batch'[s] PROVE Listed(x)'
    BY <1>4, <1>5, <1>7, <2>1, ListedStays, Zenon
  <2>2. ASSUME NEW s \in Schedulers, pc'[s] \in Flying PROVE Listed(cur[s])'
    <3>1. Listed(cur[s]) /\ cur'[s] = cur[s] /\ cur[s] \in Snapshot
      BY <1>4, <1>5, <1>7, <2>2, Zenon
    <3>2. SameTask(row'[cur[s].id], cur[s].row)
      <4>1. cur[s].id \in Tasks /\ SameTask(row[cur[s].id], cur[s].row)
        BY <3>1, Zenon DEF Snapshot, Listed
      <4>2. SameTask(row'[cur[s].id], row[cur[s].id])
        BY <1>7, <4>1, Zenon DEF RowsSame, SameTask
      <4> QED BY <4>1, <4>2, Zenon DEF SameTask
    <3> QED BY <3>1, <3>2, Zenon DEF Listed
  <2>3. ASSUME NEW s \in Schedulers, pc'[s] \in {"ran", "notified"}
        PROVE  Decided(cur'[s].row, result'[s])
    BY <1>4, <1>7, <2>3, Zenon
  <2> QED BY <1>7, <2>1, <2>2, <2>3, Zenon DEF AttemptsInv, Decided
<1>8. CASE UNCHANGED <<row, pc, batch, cur, result>>
  BY <1>4, <1>6, <1>7, <1>8, Zenon DEF RowsSame
<1>9. ASSUME NEW t \in Tasks, NEW in \in Inputs, task_create(t, in) PROVE AttemptsInv'
  <2>1. /\ row'[t] = Written(in) /\ row[t].status = "absent"
        /\ \A u \in Tasks \ {t} : row'[u] = row[u]
        /\ UNCHANGED <<pc, batch, cur, result>>
    BY <1>9, Zenon DEF task_create, TypeOK, locals
  <2>2. RowsSame
    BY <1>6, <2>1, Zenon DEF RowsSame
  <2>3. Written(in).attempts = 0 /\ Written(in).max_attempts = in.max_attempts
    BY Zenon DEF Written
  <2>4. in.max_attempts \in Nat
    BY ConstantsAssumption, Zenon DEF Input
  <2>5. Within(Written(in))
    BY <2>3, <2>4 DEF Within, Limited
  <2>6. \A u \in Tasks : Within(row'[u])
    BY <1>4, <2>1, <2>5, Zenon
  <2> QED BY <1>7, <2>1, <2>2, <2>6, Zenon
<1> SUFFICES ASSUME NEW s \in Schedulers, Collect(s) \/ collect_abort(s)
             PROVE  AttemptsInv'
  BY <1>2, <1>8, <1>9, Zenon DEF Next, User, cmd_tasks_add, cmd_tasks_update, cmd_tasks_cancel,
                                 cmd_inbox_read, Tick, vars, tables, locals, task_update,
                                 task_cancel,
    notification_mark_read
<1>10. CASE recover_stale_running(s)
  <2>1. ASSUME NEW t \in Tasks PROVE Within(row'[t]) /\ (row[t].status # "absent" => SameTask(row'[t], row[t]))
    <3>1. CASE ~Stale(t)
      <4>1. row'[t] = row[t]
        BY <1>10, <3>1, Zenon DEF recover_stale_running
      <4> QED BY <1>4, <1>6, <4>1, Zenon
    <3>2. CASE Stale(t)
      <4>1. row'[t] = [row[t] EXCEPT !.status = "waiting", !.next_run_at = clock, !.updated_at = clock]
        BY <1>10, <3>2, Zenon DEF recover_stale_running
      <4>2. SameTask(row'[t], row[t]) /\ row'[t].attempts = row[t].attempts
        BY <1>5, <4>1, RowUpdates DEF SameTask
      <4>3. row[t].status \in Offered
        BY <3>2, Zenon DEF Stale, Offered
      <4> QED BY <1>4, <4>2, <4>3, StillWithin, Zenon
    <3> QED BY <3>1, <3>2, Zenon
  <2>2. /\ UNCHANGED <<batch, cur, result>> /\ pc'[s] = "recovered"
        /\ \A z \in Schedulers \ {s} : pc'[z] = pc[z]
    BY <1>10, Zenon DEF recover_stale_running, TypeOK
  <2> QED BY <1>7, <2>1, <2>2, Zenon DEF RowsSame
<1>11. CASE list_due(s)
  <2>1. /\ UNCHANGED <<row, cur, result>> /\ pc'[s] = "batch"
        /\ \A z \in Schedulers \ {s} : pc'[z] = pc[z] /\ batch'[z] = batch[z]
    BY <1>11, Zenon DEF list_due, TypeOK, tables
  <2>2. PICK n : batch'[s] \subseteq Due(n)
    BY <1>11, ZenonT(60) DEF list_due, TypeOK
  <2>3. ASSUME NEW x \in batch'[s] PROVE Listed(x)
    <3>1. PICK t \in Tasks : x = [id |-> t, row |-> row[t]] /\ row[t].status \in Claimable
      BY <2>2, <2>3, Zenon DEF Due
    <3>2. x.id = t /\ x.row = row[t] /\ Within(row[t])
      BY <1>4, <3>1, Zenon
    <3> QED BY <3>1, <3>2, Zenon DEF Listed, SameTask, Within, Offered
  <2>4. \A z \in Schedulers : \A x \in batch'[z] : Listed(x)
    BY <1>4, <2>1, <2>3, Zenon
  <2> QED BY <1>4, <2>1, <2>4, Zenon DEF AttemptsInv, Listed, Decided
<1>12. CASE task_claim_due(s)
  <2>1. PICK x \in batch[s] : /\ CanClaim(row[x.id]) /\ cur' = [cur EXCEPT ![s] = x]
                              /\ batch' = [batch EXCEPT ![s] = @ \ {x}]
                              /\ row' = [row EXCEPT ![x.id] =
                                   [@ EXCEPT !.status = "running", !.updated_at = clock]]
    BY <1>12, Zenon DEF task_claim_due
  <2>2. x \in Snapshot /\ x.id \in Tasks /\ Listed(x)
    BY <1>4, <1>5, Zenon DEF Snapshot
  <2>3. /\ row'[x.id] = [row[x.id] EXCEPT !.status = "running", !.updated_at = clock]
        /\ \A u \in Tasks \ {x.id} : row'[u] = row[u]
    BY <2>1, <2>2, Zenon DEF TypeOK
  <2>4. SameTask(row'[x.id], row[x.id]) /\ row'[x.id].attempts = row[x.id].attempts
    BY <1>5, <2>2, <2>3, RowUpdates DEF SameTask
  <2>5. row[x.id].status \in Offered
    BY <2>1, Zenon DEF CanClaim, Offered
  <2>6. Within(row'[x.id])
    BY <1>4, <2>2, <2>4, <2>5, StillWithin, Zenon
  <2>7. RowsSame /\ \A t \in Tasks : Within(row'[t])
    BY <1>4, <1>6, <2>3, <2>4, <2>6, Zenon DEF RowsSame
  <2>8. /\ pc'[s] = "claimed" /\ cur'[s] = x /\ batch'[s] = batch[s] \ {x} /\ result' = result
        /\ \A z \in Schedulers \ {s} : pc'[z] = pc[z] /\ cur'[z] = cur[z] /\ batch'[z] = batch[z]
    BY <1>12, <2>1, Zenon DEF task_claim_due, TypeOK
  <2>9. \A y \in Snapshot : Listed(y) => SameTask(row'[y.id], y.row)
    BY <2>7, ListedStays, Zenon DEF Listed
  <2>10. ASSUME NEW z \in Schedulers, NEW y \in batch'[z] PROVE Listed(y)'
    BY <1>4, <1>5, <2>7, <2>8, <2>10, ListedStays, Zenon
  <2>11. ASSUME NEW z \in Schedulers, pc'[z] \in Flying PROVE Listed(cur[z])'
    <3>1. Listed(cur'[z]) /\ cur'[z] \in Snapshot
      BY <1>4, <1>5, <2>2, <2>8, <2>11, Zenon
    <3> QED BY <2>9, <3>1, Zenon DEF Listed
  <2>12. ASSUME NEW z \in Schedulers, pc'[z] \in {"ran", "notified"}
         PROVE  Decided(cur'[z].row, result'[z])
    BY <1>4, <2>8, <2>12, Zenon
  <2> QED BY <2>7, <2>10, <2>11, <2>12, Zenon DEF AttemptsInv, Decided
<1>13. CASE skip_unclaimed(s) \/ collect_done(s) \/ collect_abort(s)
  <2>1. /\ row' = row /\ batch'[s] \subseteq batch[s] /\ pc'[s] \notin Flying
        /\ \A z \in Schedulers \ {s} : /\ pc'[z] = pc[z] /\ cur'[z] = cur[z] /\ batch'[z] = batch[z]
                                       /\ result'[z] = result[z]
    BY <1>13, ZenonT(60) DEF skip_unclaimed, collect_done, collect_abort, Landed, TypeOK, tables
  <2>2. RowsSame
    BY <1>6, <2>1, Zenon DEF RowsSame
  <2>3. \A z \in Schedulers : pc[z] \in Flying =>
          pc[z] \in {"ran", "notified"} \/ pc[z] = "claimed"
    BY Zenon
  <2> QED BY <1>4, <1>7, <2>1, <2>2, <2>3, Zenon
<1>14. CASE run_task(s)
  <2>1. PICK o \in Outcomes : result' = [result EXCEPT ![s] = run_due(s, o)]
    BY <1>14, Zenon DEF run_task
  <2>2. /\ UNCHANGED <<row, batch, cur>> /\ result'[s] = run_due(s, o)
        /\ pc[s] = "claimed" /\ pc'[s] = "ran"
        /\ \A z \in Schedulers \ {s} : pc'[z] = pc[z] /\ result'[z] = result[z]
    BY <1>14, <2>1, Zenon DEF run_task, TypeOK, tables
  <2>3. Decided(cur[s].row, run_due(s, o))
    BY DecisionSpares, Zenon
  <2> QED BY <1>4, <2>2, <2>3, Zenon DEF AttemptsInv, Listed, Decided
<1>15. CASE notification_create(s)
  <2>1. /\ UNCHANGED <<row, batch, cur, result>> /\ pc[s] = "ran" /\ pc'[s] = "notified"
        /\ \A z \in Schedulers \ {s} : pc'[z] = pc[z]
    BY <1>15, Zenon DEF notification_create, TypeOK
  <2> QED BY <1>4, <2>1, Zenon DEF AttemptsInv, Listed, Decided
<1>16. CASE update_run(s)
  <2> DEFINE t == cur[s].id
             r == cur[s].row
  <2>1. /\ t \in Tasks /\ Listed(cur[s]) /\ Decided(r, result[s]) /\ r \in Row
    BY <1>4, <1>5, <1>16, Zenon DEF update_run, Snapshot
  <2>2. /\ row'[t] = [row[t] EXCEPT !.status = result[s].status,
                        !.next_run_at = result[s].next_run_at,
                        !.attempts = r.attempts + 1, !.updated_at = clock]
        /\ \A u \in Tasks \ {t} : row'[u] = row[u]
    BY <1>16, <2>1, Zenon DEF update_run, TypeOK
  <2>3. /\ batch' = batch /\ pc'[s] = "batch"
        /\ \A z \in Schedulers \ {s} : pc'[z] = pc[z] /\ cur'[z] = cur[z] /\ result'[z] = result[z]
    BY <1>16, Zenon DEF update_run, Landed, TypeOK
  <2> HIDE DEF t, r
  <2>4. /\ row'[t].status = result[s].status /\ row'[t].attempts = r.attempts + 1
        /\ row'[t].kind = row[t].kind /\ row'[t].trigger_type = row[t].trigger_type
        /\ row'[t].max_attempts = row[t].max_attempts
    BY <1>5, <2>1, <2>2, RowUpdates
  <2>5. SameTask(row'[t], row[t]) /\ SameTask(row[t], r)
    BY <2>1, <2>4, Zenon DEF SameTask, Decided, Listed, t, r
  <2>6. Within(row'[t])
    <3>1. Limited(r) => r.attempts < r.max_attempts
      BY <2>1, Zenon DEF Listed, r
    <3>2. r.attempts \in Nat /\ r.max_attempts \in Nat
      BY <2>1, Zenon DEF Row
    <3>3. Limited(row'[t]) <=> Limited(r)
      BY <2>5, Zenon DEF SameTask, Limited
    <3>4. row'[t].max_attempts = r.max_attempts
      BY <2>5, Zenon DEF SameTask
    <3> QED BY <2>1, <2>4, <3>1, <3>2, <3>3, <3>4 DEF Within, Decided
  <2>7. RowsSame /\ \A u \in Tasks : Within(row'[u])
    BY <1>4, <1>6, <2>2, <2>5, <2>6, Zenon DEF RowsSame
  <2>8. \A z \in Schedulers : pc[z] \in Flying =>
          pc[z] \in {"ran", "notified"} \/ pc[z] = "claimed"
    BY Zenon
  <2> QED BY <1>7, <2>3, <2>7, <2>8, Zenon
<1> QED BY <1>10, <1>11, <1>12, <1>13, <1>14, <1>15, <1>16, Zenon DEF Collect

\* Until a user changes a task, no interleaving of schedulers, stale recovery and
\* aborts runs it more often than max_attempts allows (run_due_*, update_run).
THEOREM Attempts == Spec => []AttemptsWithinMax
<1>1. Init => AttemptsInv
  BY DEF Init, AttemptsInv, NoRow, Within, Limited
<1>2. TypeOK /\ AttemptsInv /\ [Next]_vars => AttemptsInv'
  BY AttemptsStep, Zenon
<1>3. AttemptsInv => AttemptsWithinMax
  BY Zenon DEF AttemptsInv, AttemptsWithinMax, Within, Limited, Offered
<1> QED BY <1>1, <1>2, <1>3, TypeCorrect, PTL DEF Spec

-----------------------------------------------------------------------------

\* The invariant of the claims, for any number of tasks and schedulers.
THEOREM Claims == Spec => []ClaimsSafe
<1>1. TypeOK /\ ExclusiveUnlessForfeited /\ NeverEndsSilently => ClaimsSafe
  BY Zenon DEF ClaimsSafe
<1> QED BY <1>1, TypeCorrect, Exclusive, Announces, PTL

\* What no step of a scheduler does to a row.
THEOREM Respected == Spec => RowsRespected
<1>1. [HonoursLease]_vars /\ [LeavesEnded]_vars => [HonoursLease /\ LeavesEnded]_vars
  BY Zenon
<1> QED BY <1>1, Lease, EndsAreFinal, PTL DEF RowsRespected
=============================================================================
