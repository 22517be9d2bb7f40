------------------------------- MODULE Plans -------------------------------
(***************************************************************************)
(* The plans of a session (agent/plan.c) and the plan tool that creates,   *)
(* updates and shows them (agent/tools/plan.c).  Which session's registry  *)
(* the tool works on is RuntimeTurn's matter; here one registry is used,   *)
(* one call at a time.                                                     *)
(***************************************************************************)
EXTENDS Integers, Sequences, FiniteSets, FiniteSetsExt, SequencesExt

CONSTANTS
  Ids,                   \* what morph_random_id may draw
  Names,                 \* names of plans
  Statuses,              \* statuses asked for, also ones the tool does not document
  Replies,               \* what the model answers when asked for steps: kinds of lines
  MAX_PLANS, MAX_STEPS,  \* the sizes of a registry and of a plan
  MaxUpdates             \* bound: updates of steps

VARIABLES
  registry,   \* the plans, in the order they were created
  ui_state,   \* what the last result shows of them
  updates     \* updates of steps so far

planVars == <<registry, ui_state, updates>>

Done == {"completed", "failed", "skipped"}

\* The first plan of the name.
plan_find_by_name(reg, name) == {i \in DOMAIN reg : reg[i].name = name /\ \A j \in 1..(i-1) : reg[j].name # name}
plan_find_by_id(reg, id) == {i \in DOMAIN reg : reg[i].id = id}

\* Random ids are drawn until one is not taken; after sixteen that are, none is given.
plan_generate_id(reg) == {id \in Ids : plan_find_by_id(reg, id) = {}}

\* Steps are numbered from 1; active_step is the number of the active one, 0 if none.
plan_create(reg, id, name, n) ==
  Append(reg, [id |-> id, name |-> name, active_step |-> 1,
               steps |-> [i \in 1..Min({n, MAX_STEPS}) |-> IF i = 1 THEN "in_progress" ELSE "pending"]])

\* Mutant: the step that follows is made active whatever its status.
update_step_next(p, step, status) ==
  LET steps == [p.steps EXCEPT ![step] = status] IN
  CASE status \in Done /\ p.active_step = step ->
         [p EXCEPT !.active_step = IF step < Len(steps) THEN step + 1 ELSE 0, !.steps = steps]
    [] status = "in_progress" -> [p EXCEPT !.active_step = step, !.steps = steps]
    [] OTHER -> [p EXCEPT !.steps = steps]

\* A done active step passes on to the next pending one after it.
plan_update_step_ptr(p, step, status) ==
  LET steps == [p.steps EXCEPT ![step] = status]
      later == {i \in (step + 1)..Len(steps) : steps[i] = "pending"}
  IN CASE status \in Done /\ p.active_step = step /\ later # {} ->
            [p EXCEPT !.active_step = Min(later), !.steps = [steps EXCEPT ![Min(later)] = "in_progress"]]
       [] status \in Done /\ p.active_step = step /\ later = {} ->
            [p EXCEPT !.active_step = 0, !.steps = steps]
       [] status = "in_progress" -> [p EXCEPT !.active_step = step, !.steps = steps]
       [] OTHER -> [p EXCEPT !.steps = steps]

plan_all_done(p) == \A i \in DOMAIN p.steps : p.steps[i] \in Done
plan_to_json(p) ==
  [id |-> p.id, all_done |-> plan_all_done(p), active_step |-> p.active_step,
   active |-> {i \in DOMAIN p.steps : i = p.active_step}, steps |-> p.steps]
plan_registry_to_json(reg) == [i \in DOMAIN reg |-> plan_to_json(reg[i])]

\* The numbered and bulleted lines with text, as many as fit.
parse_steps_from_text(lines) ==
  Min({MAX_STEPS, Cardinality({i \in DOMAIN lines : lines[i] \in {"numbered", "bullet"}})})
\* The number of steps; -1: the call failed or answered nothing.
auto_decompose(reply) == IF reply = <<"failed">> THEN -1 ELSE parse_steps_from_text(reply)

-----------------------------------------------------------------------------
PlanInit == registry = <<>> /\ ui_state = <<>> /\ updates = 0

\* Every successful result carries the whole registry.
attach_plan_state == ui_state' = plan_registry_to_json(registry')

\* The steps are given (n of them) or asked of the model; no steps, or no room: an error.
PlanCreate(name, n) ==
  /\ n > 0 /\ Len(registry) < MAX_PLANS
  /\ \E id \in plan_generate_id(registry) : registry' = plan_create(registry, id, name, n)
  /\ attach_plan_state /\ UNCHANGED updates

PlanUpdate(found, step, status) ==
  /\ updates < MaxUpdates /\ updates' = updates + 1
  /\ \E i \in found :
       /\ step \in DOMAIN registry[i].steps
       /\ registry' = [registry EXCEPT ![i] = plan_update_step_ptr(@, step, status)]
  /\ attach_plan_state

plan_tool_exec ==
  \E name \in Names :
    \/ PlanCreate(name, MAX_STEPS + 1)
    \/ \E r \in Replies : PlanCreate(name, auto_decompose(r))
    \/ \E step \in 1..MAX_STEPS, status \in Statuses :
         \/ PlanUpdate(plan_find_by_name(registry, name), step, status)
         \/ \E i \in DOMAIN registry : PlanUpdate(plan_find_by_id(registry, registry[i].id), step, status)

PlanNext == plan_tool_exec

-----------------------------------------------------------------------------
\* What the user is shown of the plans can be followed: the ids tell the plans
\* apart, no plan has an active step that is already done, and a plan whose
\* steps are all done has none, in whatever order, and with whatever statuses,
\* the model reported on its steps (plan_update_step_ptr, attach_plan_state).
PlanShown ==
  /\ \A i, j \in DOMAIN ui_state : ui_state[i].id = ui_state[j].id => i = j
  /\ \A i \in DOMAIN ui_state :
       LET shown == ui_state[i] IN
       /\ shown.all_done => shown.active = {}
       /\ \A step \in shown.active : shown.steps[step] \notin Done
=============================================================================
