---------------------------- MODULE RuntimeTurn ----------------------------
(***************************************************************************)
(* The runtime facade: one engine with one react context, one execution    *)
(* lock, the current session, the active plan registry with its cache of   *)
(* registries per session, and the tool bindings that a turn borrows and   *)
(* gives back (src/runtime: lock.c, cancel.c, execute.c, turn_scope.c,     *)
(* context.c, session_service.c, services.c, lifecycle.c).                 *)
(*                                                                         *)
(* Threads of the host call the facade: the thread of the commands and the *)
(* worker of scheduled tasks.  A function that runs under the lock from    *)
(* end to end is one action.  A turn holds the lock over several actions,  *)
(* between which the calls that take no lock interleave.                   *)
(***************************************************************************)
EXTENDS Naturals, FiniteSets

CONSTANTS
  Threads,
  NoThread,
  Slots,        \* RUNTIME_PLAN_SESSION_CACHE_MAX
  MaxSessions,  \* bound: session ids given out
  Hosts         \* the programs around the runtime: one that only makes the
                \* calls that take the lock, and the CLI, which makes the others
                \* while a scheduled turn may be running

\* What the proofs need of the constants: the cache has a slot.
TurnAssumption ==
  Slots \in Nat \ {0} /\ MaxSessions \in Nat /\ NoThread \notin Threads

Slot == 1..Slots
Ids == 1..MaxSessions
Entry(id, plans) == [id |-> id, plans |-> plans]

VARIABLES
  host,         \* the program
  owner,        \* the thread that holds execution_lock, or NoThread
  last,         \* the last session id given out (AUTOINCREMENT)
  exists,       \* rows of the sessions table
  current,      \* context.current_session.id, 0 for none
  active_plan,  \* context.active_plan_session_id
  plans,        \* context.plans: the sessions whose turns wrote into it
  cache,        \* context.plan_sessions
  tool_session, \* react->tool_runtime.memory_session_id
  source,       \* source session of the tasks tool
  bound,        \* turn_scope.bound
  pc,           \* where each thread is in runtime_execute
  request,      \* request->session_id of each thread, 0 outside runtime_execute
  cancelled,    \* react->cancelled
  outcome,      \* react->outcome
  result        \* runtime_result.outcome of the call that returned last

lock == <<owner, pc, request, result>>
sessions == <<last, exists, current>>
registry == <<active_plan, plans, cache>>
tools == <<tool_session, source, bound>>
react == <<cancelled, outcome>>
vars == <<host, lock, sessions, registry, tools, react>>

TypeOK ==
  /\ host \in Hosts
  /\ owner \in Threads \cup {NoThread}
  /\ last \in 0..MaxSessions /\ exists \subseteq 1..last
  /\ current \in exists \cup {0}
  /\ active_plan \in 0..last /\ plans \subseteq Ids
  /\ cache \in [Slot -> [id : 0..MaxSessions, plans : SUBSET Ids]]
  /\ tool_session \in 0..last /\ source \in 0..last /\ bound \in BOOLEAN
  /\ pc \in [Threads -> {"idle", "locked", "prepared", "running", "ended"}]
  /\ request \in [Threads -> 0..last]
  /\ cancelled \in BOOLEAN
  /\ outcome \in {"none", "success", "error", "cancelled"}
  /\ result \in {"none", "busy", "failed", "completed", "cancelled"}

\* runtime_open with create_new_session: no current session yet.
Init ==
  /\ host \in Hosts
  /\ owner = NoThread
  /\ last = 0 /\ exists = {} /\ current = 0
  /\ active_plan = 0 /\ plans = {}
  /\ cache = [i \in Slot |-> Entry(0, {})]
  /\ tool_session = 0 /\ source = 0 /\ bound = FALSE
  /\ pc = [t \in Threads |-> "idle"] /\ request = [t \in Threads |-> 0]
  /\ cancelled = FALSE /\ outcome = "none"
  /\ result = "none"

-----------------------------------------------------------------------------
(* The cache of plan registries. *)

First(S) == CHOOSE i \in S : \A j \in S : i <= j

runtime_plan_session_slot(c, id) == {i \in Slot : c[i].id = id}

\* The first empty slot; else the first that is not of the active session;
\* else the first.
runtime_plan_session_alloc_slot(c, act) ==
  LET empty == {i \in Slot : c[i].id = 0}
      other == {i \in Slot : c[i].id # act}
  IN First(IF empty # {} THEN empty ELSE IF other # {} THEN other ELSE Slot)

Store(c, k, e) == [i \in Slot |-> IF i = k THEN e ELSE c[i]]

\* The mutant: the registry left behind is not saved.
save_active_none(c, act, p) == c

runtime_plan_session_save_active(c, act, p) ==
  LET found == runtime_plan_session_slot(c, act)
      k == IF found # {} THEN First(found)
                         ELSE runtime_plan_session_alloc_slot(c, act)
  IN IF act = 0 THEN c ELSE Store(c, k, Entry(act, p))

\* What runtime_plan_session_select leaves in the cache and in the active
\* registry.
SelectedCache(c, act, p, id) ==
  LET saved == runtime_plan_session_save_active(c, act, p)
  IN IF id = 0 \/ id = act THEN c
     ELSE IF runtime_plan_session_slot(saved, id) # {} THEN saved
     ELSE Store(saved, runtime_plan_session_alloc_slot(saved, act), Entry(id, {}))

SelectedPlans(c, act, p, id) ==
  LET saved == runtime_plan_session_save_active(c, act, p)
      found == runtime_plan_session_slot(saved, id)
  IN IF id = act /\ id # 0 THEN p
     ELSE IF id # 0 /\ found # {} THEN saved[First(found)].plans
     ELSE {}

runtime_plan_session_select(id) ==
  /\ cache' = SelectedCache(cache, active_plan, plans, id)
  /\ plans' = SelectedPlans(cache, active_plan, plans, id)
  /\ active_plan' = id

\* Every slot of the session is cleared: the code clears the one it finds,
\* and no session has two.
runtime_plan_session_forget(id) ==
  /\ cache' = [i \in Slot |-> IF cache[i].id = id THEN Entry(0, {}) ELSE cache[i]]
  /\ plans' = IF active_plan = id THEN {} ELSE plans
  /\ active_plan' = IF active_plan = id THEN 0 ELSE active_plan

-----------------------------------------------------------------------------
(* Operations that hold the lock from end to end. *)

Free == owner = NoThread

\* Make the session current and bind the plans and the tools to it.
SelectSession(id) ==
  /\ current' = id
  /\ runtime_plan_session_select(id)
  /\ tool_session' = id

runtime_session_select_existing(id) ==
  /\ Free /\ id \in exists
  /\ SelectSession(id)
  /\ UNCHANGED <<lock, last, exists, source, bound, react>>

NewSession ==
  /\ last < MaxSessions
  /\ last' = last + 1
  /\ exists' = exists \cup {last + 1}

runtime_session_create_and_select ==
  /\ Free /\ NewSession
  /\ SelectSession(last + 1)
  /\ UNCHANGED <<lock, source, bound, react>>

\* runtime_execute_turn without a session when none is current.
runtime_ensure_current_session ==
  /\ Free /\ current = 0 /\ NewSession
  /\ SelectSession(last + 1)
  /\ UNCHANGED <<lock, source, bound, react>>

runtime_session_create_detached ==
  /\ Free /\ NewSession
  /\ UNCHANGED <<lock, current, registry, tools, react>>

runtime_session_delete_and_update(id) ==
  /\ Free /\ id \in exists
  /\ exists' = exists \ {id}
  /\ runtime_plan_session_forget(id)
  /\ current' = IF current = id THEN 0 ELSE current
  /\ UNCHANGED <<lock, last, tools, react>>

-----------------------------------------------------------------------------
(* Calls that take no lock. *)

\* cli_handle_command makes this call before every command.
runtime_turn_prepare_tools ==
  /\ host = "cli"
  /\ runtime_plan_session_select(current)
  /\ source' = current
  /\ UNCHANGED <<lock, sessions, tool_session, bound, react>>

\* The binding part of runtime_tasks_execute, the /tasks commands.
runtime_tasks_execute ==
  /\ host = "cli"
  /\ source' = current
  /\ UNCHANGED <<lock, sessions, registry, tool_session, bound, react>>

runtime_cancel_turn ==
  /\ host = "cli"
  /\ cancelled' = TRUE
  /\ UNCHANGED <<lock, sessions, registry, tools, outcome>>

-----------------------------------------------------------------------------
(* runtime_execute. *)

runtime_lock_turn(t, id) ==
  /\ pc[t] = "idle" /\ Free
  /\ owner' = t
  /\ pc' = [pc EXCEPT ![t] = "locked"]
  /\ request' = [request EXCEPT ![t] = id]
  /\ UNCHANGED <<result, sessions, registry, tools, react>>

TurnBusy(t) ==
  /\ pc[t] = "idle" /\ ~Free
  /\ result' = "busy"
  /\ UNCHANGED <<owner, pc, request, sessions, registry, tools, react>>

\* preference_bind needs the session's row; then the bindings are the turn's.
runtime_turn_scope_begin(t) ==
  /\ pc[t] = "locked" /\ request[t] \in exists
  /\ runtime_plan_session_select(request[t])
  /\ tool_session' = request[t] /\ source' = request[t] /\ bound' = TRUE
  /\ pc' = [pc EXCEPT ![t] = "prepared"]
  /\ UNCHANGED <<owner, request, result, sessions, react>>

\* The mutant: the plans are not switched back.
scope_finish_noplan ==
  IF bound
  THEN /\ tool_session' = IF current # 0 THEN current ELSE tool_session
       /\ bound' = FALSE
       /\ UNCHANGED <<registry, source>>
  ELSE UNCHANGED <<registry, tools>>

runtime_turn_scope_finish ==
  IF bound
  THEN /\ runtime_plan_session_select(current)
       /\ tool_session' = IF current # 0 THEN current ELSE tool_session
       /\ bound' = FALSE
       /\ UNCHANGED source
  ELSE UNCHANGED <<registry, tools>>

runtime_unlock_turn(t) ==
  /\ owner' = NoThread
  /\ pc' = [pc EXCEPT ![t] = "idle"] /\ request' = [request EXCEPT ![t] = 0]

\* The session is gone, or the scope cannot be written.
PrepareFails(t) ==
  /\ pc[t] = "locked"
  /\ runtime_turn_scope_finish
  /\ runtime_unlock_turn(t)
  /\ result' = "failed"
  /\ UNCHANGED <<sessions, react>>

\* agent_turn_begin succeeds, and react_run starts with react_reset.
TurnStarts(t) ==
  /\ pc[t] = "prepared"
  /\ cancelled' = FALSE /\ outcome' = "none"
  /\ pc' = [pc EXCEPT ![t] = "running"]
  /\ UNCHANGED <<owner, request, result, sessions, registry, tools>>

\* The plan tool of the turn writes the active registry.
PlanTool(t) ==
  /\ pc[t] = "running"
  /\ plans' = plans \cup {request[t]}
  /\ UNCHANGED <<lock, sessions, active_plan, cache, tools, react>>

\* react_run returns; this is its last look at the cancel flag.
ReactEnds(t) ==
  /\ pc[t] = "running"
  /\ outcome' \in IF cancelled THEN {"cancelled"} ELSE {"success", "error"}
  /\ pc' = [pc EXCEPT ![t] = "ended"]
  /\ UNCHANGED <<owner, request, result, sessions, registry, tools, cancelled>>

\* The end of runtime_execute: the result is read off the react context,
\* whether or not the turn began.
ExecuteEnds(t) ==
  /\ \/ pc[t] = "prepared"    \* agent_turn_begin failed: rc # 0
     \/ pc[t] = "ended"
  /\ result' = IF outcome = "cancelled" THEN "cancelled"
               ELSE IF pc[t] = "ended" /\ outcome = "success" THEN "completed"
               ELSE "failed"
  /\ runtime_turn_scope_finish
  /\ runtime_unlock_turn(t)
  /\ UNCHANGED <<sessions, react>>

Turn(t) ==
  \/ \E id \in 1..last : runtime_lock_turn(t, id)
  \/ TurnBusy(t) \/ runtime_turn_scope_begin(t) \/ PrepareFails(t)
  \/ TurnStarts(t) \/ PlanTool(t) \/ ReactEnds(t) \/ ExecuteEnds(t)

Next ==
  /\ \/ \E t \in Threads : Turn(t)
     \/ \E id \in exists : \/ runtime_session_select_existing(id)
                           \/ runtime_session_delete_and_update(id)
     \/ runtime_session_create_and_select \/ runtime_session_create_detached
     \/ runtime_ensure_current_session
     \/ runtime_turn_prepare_tools \/ runtime_tasks_execute \/ runtime_cancel_turn
  /\ UNCHANGED host

Spec == Init /\ [][Next]_vars

-----------------------------------------------------------------------------
(* Properties. *)

\* With the calls that take the lock, a turn works from the moment its scope
\* has begun until it ends with the plans, the tool context and the task source
\* of the session it was asked for, whatever session is current and whatever
\* other threads ask for.
TurnBindings ==
  host = "locked" => \A t \in Threads : pc[t] \in {"prepared", "running", "ended"} =>
    /\ owner = t /\ bound
    /\ active_plan = request[t]
    /\ tool_session = request[t] /\ source = request[t]

\* When no turn holds the lock the transient bindings are back: the plans and
\* the tools are those of the current session.  Every variable keeps its type.
BindingsRestored ==
  /\ TypeOK
  /\ Free => /\ ~bound
             /\ active_plan = current
             /\ current # 0 => tool_session = current

\* With the calls that take the lock, no registry, active or cached, holds a
\* plan of another session's turn.
PlansIsolated ==
  host = "locked" =>
    /\ plans \subseteq {active_plan}
    /\ \A i \in Slot : cache[i].plans \subseteq {cache[i].id}

PlanOf(id) ==
  IF active_plan = id THEN plans
  ELSE UNION {cache[i].plans : i \in runtime_plan_session_slot(cache, id)}

\* A session that still exists loses its plan only to a full cache, or when
\* plans are selected while there is no current session.
KeepsPlans ==
  \A id \in exists \cap exists' :
    PlanOf(id) # {} /\ PlanOf(id)' = {} =>
      \/ \A i \in Slot : cache[i].id # 0
      \/ current' = 0
PlansKept == [][KeepsPlans]_vars

\* Even with the calls that take no lock there is one turn at a time, and its
\* tool context stays that of its session until it ends.
TurnToolContext ==
  \A t \in Threads : pc[t] \in {"prepared", "running", "ended"} =>
    /\ \A u \in Threads \ {t} : pc[u] = "idle"
    /\ tool_session = request[t]

\* A turn works with the plans and the tools of its session, and gives them back
\* (runtime_turn_scope_begin, runtime_turn_scope_finish).
BindingsRight == TurnBindings /\ BindingsRestored /\ PlansIsolated /\ TurnToolContext
=============================================================================
