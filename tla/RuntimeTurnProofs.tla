------------------------- MODULE RuntimeTurnProofs -------------------------
(***************************************************************************)
(* Turns borrow the bindings of the runtime and give them back, and plans  *)
(* stay with their sessions, for any number of threads and sessions and    *)
(* any size of the cache (BindingsRight and KeepsPlans of RuntimeTurn).    *)
(*                                                                         *)
(* Two facts make these inductive.  The bindings belong to the thread that *)
(* holds the lock exactly while its turn is prepared, running or ended     *)
(* (Borrowed).  And the active session always has its slot in the cache,   *)
(* the only one with its id (Cached, Unique), so that saving the active    *)
(* registry takes no slot from another session.                            *)
(***************************************************************************)
EXTENDS RuntimeTurn, WellFoundedInduction, TLAPS

Entries == [id : 0..MaxSessions, plans : SUBSET Ids]

\* The active session has a slot.
Cached(c, act) == act # 0 => \E i \in Slot : c[i].id = act

\* A session has at most one slot.
Unique(c) == \A i, j \in Slot : c[i].id = c[j].id /\ c[i].id # 0 => i = j

\* Every registry holds plans of its own session only.
Isolated(c, act, p) == p \subseteq {act} /\ \A i \in Slot : c[i].plans \subseteq {c[i].id}

\* Session x has a plan.
Has(c, act, p, x) ==
  \/ act = x /\ p # {}
  \/ act # x /\ \E i \in Slot : c[i].id = x /\ c[i].plans # {}

Full(c) == \A i \in Slot : c[i].id # 0

\* The lock has one owner, which has asked for a session.
Locked ==
  \A t \in Threads : /\ (pc[t] # "idle") <=> (owner = t)
                     /\ owner = t => request[t] \in 1..last

\* The bindings are the turn's while its scope is open, else the current session's.
Borrowed ==
  /\ bound = FALSE => active_plan = current /\ (current # 0 => tool_session = current)
  /\ bound = TRUE => owner # NoThread
  /\ \A t \in Threads : owner = t => ((bound = TRUE) <=> (pc[t] \in {"prepared", "running", "ended"}))
  /\ \A t \in Threads : owner = t /\ bound = TRUE =>
       /\ tool_session = request[t]
       /\ host = "locked" => active_plan = request[t] /\ source = request[t]

IInv ==
  /\ TypeOK /\ Locked /\ Borrowed
  /\ Cached(cache, active_plan) /\ Unique(cache)
  /\ host = "locked" => Isolated(cache, active_plan, plans)

---------------------------------------------------------------------------
(* The cache. *)

\* A set of natural numbers that is not empty has a least element.
LEMMA LeastElement ==
  ASSUME NEW T, T \subseteq Nat, T # {}
  PROVE  First(T) \in T
<1>1. IsWellFoundedOn(OpToRel(<, Nat), Nat)
  BY NatLessThanWellFounded, Zenon
<1>2. PICK x \in T : \A y \in T : ~(<<y, x>> \in OpToRel(<, Nat))
  BY <1>1, WFMin, Zenon
<1>3. ASSUME NEW y \in T PROVE ~(y < x)
  BY <1>2, Zenon DEF OpToRel
<1>4. \E z \in T : \A y \in T : z <= y
  BY <1>3
<1> QED BY <1>4, Zenon DEF First

\* runtime_plan_session_alloc_slot: an empty slot if there is one, and never that
\* of the active session if there is another.
LEMMA AllocEffect ==
  ASSUME TurnAssumption, NEW c, NEW act
  PROVE  LET k == runtime_plan_session_alloc_slot(c, act) IN
           /\ k \in Slot
           /\ (\E i \in Slot : c[i].id = 0) => c[k].id = 0
           /\ (\E i \in Slot : c[i].id # act) /\ act # 0 => c[k].id # act
<1> DEFINE empty == {i \in Slot : c[i].id = 0}
<1> DEFINE other == {i \in Slot : c[i].id # act}
<1> DEFINE T == IF empty # {} THEN empty ELSE IF other # {} THEN other ELSE Slot
<1>1. 1 \in Slot /\ Slot \subseteq Nat
  BY DEF TurnAssumption, Slot
<1>2. T \subseteq Slot /\ T # {}
  BY <1>1, Zenon
<1>3. First(T) \in T
  BY <1>1, <1>2, LeastElement, Zenon
<1>4. runtime_plan_session_alloc_slot(c, act) = First(T)
  BY Zenon DEF runtime_plan_session_alloc_slot
<1> QED BY <1>2, <1>3, <1>4, Zenon

\* runtime_plan_session_save_active: the slot of the active session, which is
\* there, takes its registry; no other slot changes.
LEMMA SaveEffect ==
  ASSUME TurnAssumption, NEW c \in [Slot -> Entries], NEW act \in 0..MaxSessions,
         NEW p \in SUBSET Ids, Cached(c, act), Unique(c)
  PROVE  LET saved == runtime_plan_session_save_active(c, act, p) IN
           /\ saved \in [Slot -> Entries]
           /\ \A i \in Slot : saved[i].id = c[i].id
           /\ \A i \in Slot : saved[i].plans = IF c[i].id = act /\ act # 0 THEN p ELSE c[i].plans
<1> DEFINE saved == runtime_plan_session_save_active(c, act, p)
<1>1. CASE act = 0
  <2>1. saved = c
    BY <1>1, Zenon DEF runtime_plan_session_save_active
  <2> QED BY <1>1, <2>1, Zenon
<1>2. CASE act # 0
  <2> DEFINE found == runtime_plan_session_slot(c, act)
  <2> DEFINE k == First(found)
  <2>1. found \subseteq Nat /\ found # {}
    BY <1>2 DEF TurnAssumption, Slot, Cached, runtime_plan_session_slot
  <2>2. k \in found
    BY <2>1, LeastElement, Zenon
  <2>3. k \in Slot /\ c[k].id = act
    BY <2>2, Zenon DEF runtime_plan_session_slot
  <2>4. saved = Store(c, k, Entry(act, p))
    BY <1>2, <2>1, Zenon DEF runtime_plan_session_save_active
  <2>5. Entry(act, p) \in Entries /\ Entry(act, p).id = act /\ Entry(act, p).plans = p
    BY Zenon DEF Entry, Entries
  <2>6. \A i \in Slot : saved[i] = IF i = k THEN Entry(act, p) ELSE c[i]
    BY <2>4, Zenon DEF Store
  <2>7. saved \in [Slot -> Entries]
    BY <2>4, <2>5, Zenon DEF Store
  <2>8. \A i \in Slot : c[i].id = act <=> i = k
    BY <1>2, <2>3, Zenon DEF Unique
  <2> HIDE DEF saved, k
  <2>9. \A i \in Slot : saved[i].id = c[i].id
    BY <2>3, <2>5, <2>6, Zenon
  <2>10. \A i \in Slot : saved[i].plans = IF c[i].id = act THEN p ELSE c[i].plans
    BY <2>5, <2>6, <2>8, Zenon
  <2> QED BY <1>2, <2>7, <2>9, <2>10, Zenon DEF saved
<1> QED BY <1>1, <1>2, Zenon

\* runtime_plan_session_select(id) from a registry whose active session has its
\* slot: the new one gets its slot and its own plans, and no other session loses
\* its plan unless the cache was full or no session is selected.
LEMMA SelectEffect ==
  ASSUME TurnAssumption, NEW c \in [Slot -> Entries], NEW act \in 0..MaxSessions,
         NEW p \in SUBSET Ids, Cached(c, act), Unique(c), NEW id \in 0..MaxSessions
  PROVE  LET d == SelectedCache(c, act, p, id)
             q == SelectedPlans(c, act, p, id)
         IN  /\ d \in [Slot -> Entries] /\ q \in SUBSET Ids
             /\ Cached(d, id) /\ Unique(d)
             /\ Isolated(c, act, p) => Isolated(d, id, q)
             /\ \A x \in Ids : Has(c, act, p, x) => Has(d, id, q, x) \/ Full(c) \/ id = 0
<1> DEFINE d == SelectedCache(c, act, p, id)
<1> DEFINE q == SelectedPlans(c, act, p, id)
<1> DEFINE saved == runtime_plan_session_save_active(c, act, p)
<1> DEFINE found == runtime_plan_session_slot(saved, id)
<1>1. /\ saved \in [Slot -> Entries]
      /\ \A i \in Slot : saved[i].id = c[i].id
      /\ \A i \in Slot : saved[i].plans = IF c[i].id = act /\ act # 0 THEN p ELSE c[i].plans
  BY SaveEffect, Zenon
<1>2. found = {i \in Slot : saved[i].id = id}
  BY Zenon DEF runtime_plan_session_slot
<1>3. CASE id = 0
  <2>1. d = c /\ q = {}
    BY <1>3, Zenon DEF SelectedCache, SelectedPlans
  <2> QED BY <1>3, <2>1, Zenon DEF Cached, Isolated
<1>4. CASE id # 0 /\ id = act
  <2>1. d = c /\ q = p
    BY <1>4, Zenon DEF SelectedCache, SelectedPlans
  <2> QED BY <1>4, <2>1, Zenon
<1>5. CASE id # 0 /\ id # act /\ found # {}
  <2> DEFINE j == First(found)
  <2>1. j \in Slot /\ saved[j].id = id
    <3>1. found \subseteq Nat
      BY <1>2 DEF TurnAssumption, Slot
    <3>2. j \in found
      BY <1>5, <3>1, LeastElement, Zenon
    <3> QED BY <1>2, <3>2, Zenon
  <2>2. d = saved /\ q = saved[j].plans
    BY <1>5, Zenon DEF SelectedCache, SelectedPlans
  <2> HIDE DEF d, q, saved, found, j
  <2>3. q = c[j].plans /\ c[j].id = id
    BY <1>1, <1>5, <2>1, <2>2, Zenon
  <2>4. d \in [Slot -> Entries] /\ q \in SUBSET Ids
    BY <1>1, <2>1, <2>2, Zenon DEF Entries
  <2>5. Cached(d, id) /\ Unique(d)
    BY <1>1, <2>1, <2>2 DEF Cached, Unique
  <2>6. Isolated(c, act, p) => Isolated(d, id, q)
    BY <1>1, <2>1, <2>2, <2>3, Zenon DEF Isolated
  <2>7. ASSUME NEW x \in Ids, Has(c, act, p, x)
        PROVE  Has(d, id, q, x)
    <3>1. CASE x = act
      <4>1. x # 0 /\ x # id /\ p # {}
        BY <1>5, <2>7, <3>1 DEF Has, Ids
      <4>2. PICK i \in Slot : c[i].id = act
        BY <3>1, <4>1, Zenon DEF Cached
      <4> QED BY <1>1, <2>2, <3>1, <4>1, <4>2, Zenon DEF Has
    <3>2. CASE x # act
      <4>1. PICK i \in Slot : c[i].id = x /\ c[i].plans # {}
        BY <2>7, <3>2, Zenon DEF Has
      <4>2. saved[i].id = x /\ saved[i].plans # {}
        BY <1>1, <3>2, <4>1, Zenon
      <4>3. x = id => i = j
        BY <1>5, <2>1, <2>3, <4>1, Zenon DEF Unique
      <4> QED BY <2>2, <4>2, <4>3, Zenon DEF Has
    <3> QED BY <3>1, <3>2, Zenon
  <2>8. \A x \in Ids : Has(c, act, p, x) => Has(d, id, q, x)
    BY <2>7, Zenon
  <2> QED BY <2>4, <2>5, <2>6, <2>8, Zenon DEF d, q
<1>6. CASE id # 0 /\ id # act /\ found = {}
  <2> DEFINE k == runtime_plan_session_alloc_slot(saved, act)
  <2>1. /\ k \in Slot
        /\ (\E i \in Slot : saved[i].id = 0) => saved[k].id = 0
        /\ (\E i \in Slot : saved[i].id # act) /\ act # 0 => saved[k].id # act
    BY AllocEffect, Zenon
  <2>2. d = Store(saved, k, Entry(id, {})) /\ q = {}
    BY <1>6, Zenon DEF SelectedCache, SelectedPlans
  <2>3. Entry(id, {}) \in Entries /\ Entry(id, {}).id = id /\ Entry(id, {}).plans = {}
    BY Zenon DEF Entry, Entries
  <2>4. \A i \in Slot : d[i] = IF i = k THEN Entry(id, {}) ELSE saved[i]
    BY <2>2, Zenon DEF Store
  <2>5. d \in [Slot -> Entries]
    BY <1>1, <2>2, <2>3, Zenon DEF Store
  <2>6. \A i \in Slot : saved[i].id # id
    BY <1>2, <1>6, Zenon
  <2> HIDE DEF d, q, saved, found, k
  <2>7. Cached(d, id)
    BY <2>1, <2>3, <2>4, Zenon DEF Cached
  <2>8. Unique(d)
    <3>1. \A i, j \in Slot : saved[i].id = saved[j].id /\ saved[i].id # 0 => i = j
      BY <1>1, ZenonT(60) DEF Unique
    <3> QED BY <2>3, <2>4, <2>6, <3>1 DEF Unique
  <2>9. Isolated(c, act, p) => Isolated(d, id, q)
    <3> SUFFICES ASSUME Isolated(c, act, p), NEW i \in Slot PROVE d[i].plans \subseteq {d[i].id}
      BY <2>2, Zenon DEF Isolated
    <3>1. saved[i].plans \subseteq {saved[i].id}
      BY <1>1, Zenon DEF Isolated
    <3> QED BY <2>3, <2>4, <3>1, Zenon
  <2>10. ASSUME NEW x \in Ids, Has(c, act, p, x), ~Full(c)
         PROVE  Has(d, id, q, x)
    <3>1. saved[k].id = 0 /\ x # 0
      BY <1>1, <2>1, <2>10 DEF Full, Ids
    <3>2. PICK i \in Slot : saved[i].id = x /\ saved[i].plans # {}
      <4>1. CASE x = act
        <5>1. p # {}
          BY <2>10, <4>1, Zenon DEF Has
        <5> QED BY <1>1, <3>1, <4>1, <5>1, Zenon DEF Cached
      <4>2. CASE x # act
        BY <1>1, <2>10, <4>2, Zenon DEF Has
      <4> QED BY <4>1, <4>2, Zenon
    <3>3. i # k /\ x # id
      BY <2>6, <3>1, <3>2, Zenon
    <3> QED BY <2>4, <3>2, <3>3, Zenon DEF Has
  <2>11. \A x \in Ids : Has(c, act, p, x) => Has(d, id, q, x) \/ Full(c)
    BY <2>10, Zenon
  <2>12. q \in SUBSET Ids
    BY <2>2, Zenon
  <2> QED BY <2>5, <2>7, <2>8, <2>9, <2>11, <2>12, Zenon DEF d, q
<1> QED BY <1>3, <1>4, <1>5, <1>6, Zenon

---------------------------------------------------------------------------
(* The steps. *)

\* The registry of the plans is in order.
Registry ==
  /\ active_plan \in 0..MaxSessions /\ plans \subseteq Ids /\ cache \in [Slot -> Entries]
  /\ Cached(cache, active_plan) /\ Unique(cache)
  /\ host = "locked" => Isolated(cache, active_plan, plans)

\* Session x, if it has a plan, keeps one, but for the two cases of KeepsPlans.
PlanStays(x) ==
  Has(cache, active_plan, plans, x) =>
    Has(cache, active_plan, plans, x)' \/ Full(cache) \/ current' = 0

\* Selecting the plans of a session keeps the registry in order.
LEMMA SelectKeeps ==
  ASSUME TurnAssumption, IInv, NEW id \in 0..MaxSessions, runtime_plan_session_select(id),
         host' = host
  PROVE  /\ Registry' /\ active_plan' = id
         /\ \A x \in Ids : Has(cache, active_plan, plans, x) =>
              Has(cache, active_plan, plans, x)' \/ Full(cache) \/ id = 0
<1>1. /\ cache \in [Slot -> Entries] /\ active_plan \in 0..MaxSessions /\ plans \in SUBSET Ids
      /\ Cached(cache, active_plan) /\ Unique(cache)
      /\ host = "locked" => Isolated(cache, active_plan, plans)
  BY DEF IInv, TypeOK, TurnAssumption, Entries
<1>2. /\ cache' = SelectedCache(cache, active_plan, plans, id)
      /\ plans' = SelectedPlans(cache, active_plan, plans, id) /\ active_plan' = id
  BY Zenon DEF runtime_plan_session_select
<1>3. /\ cache' \in [Slot -> Entries] /\ plans' \in SUBSET Ids
      /\ Cached(cache', id) /\ Unique(cache')
      /\ Isolated(cache, active_plan, plans) => Isolated(cache', id, plans')
      /\ \A x \in Ids : Has(cache, active_plan, plans, x) =>
           Has(cache', id, plans', x) \/ Full(cache) \/ id = 0
  BY <1>1, <1>2, SelectEffect, Zenon
<1>4. Registry'
  BY <1>1, <1>2, <1>3, Zenon DEF Registry
<1>5. \A x \in Ids : Has(cache, active_plan, plans, x)' <=> Has(cache', id, plans', x)
  BY <1>2, Zenon DEF Has
<1> QED BY <1>2, <1>3, <1>4, <1>5, Zenon

\* The registry is as it was.
LEMMA RegistryFrame ==
  ASSUME TurnAssumption, IInv, UNCHANGED registry, host' = host
  PROVE  Registry' /\ \A x \in Ids : PlanStays(x)
<1>1. Registry
  BY DEF IInv, TypeOK, TurnAssumption, Entries, Registry
<1>2. UNCHANGED <<active_plan, plans, cache, host>>
  BY Zenon DEF registry
<1> QED BY <1>1, <1>2, Zenon DEF Registry, Cached, Unique, Isolated, PlanStays, Has

\* The invariant from its parts.
LEMMA Assemble ==
  ASSUME TurnAssumption, host' \in Hosts, owner' \in Threads \cup {NoThread},
         last' \in 0..MaxSessions, exists' \subseteq 1..last', current' \in exists' \cup {0},
         active_plan' \in 0..last', tool_session' \in 0..last', source' \in 0..last',
         bound' \in BOOLEAN,
         pc' \in [Threads -> {"idle", "locked", "prepared", "running", "ended"}],
         request' \in [Threads -> 0..last'], cancelled' \in BOOLEAN,
         outcome' \in {"none", "success", "error", "cancelled"},
         result' \in {"none", "busy", "failed", "completed", "cancelled"},
         Registry', Locked', Borrowed'
  PROVE  IInv'
BY Zenon DEF IInv, TypeOK, Registry, Entries

\* The steps under the lock that select a session.
SelectsSession(id) ==
  /\ Free /\ id \in exists' /\ last' \in 0..MaxSessions /\ last <= last' /\ exists' \subseteq 1..last'
  /\ SelectSession(id)
  /\ UNCHANGED <<host, lock, source, bound, react>>

LEMMA SelectsKeeps ==
  ASSUME TurnAssumption, IInv, NEW id \in Nat, SelectsSession(id)
  PROVE  IInv' /\ \A x \in Ids : PlanStays(x)
<1>1. /\ owner = NoThread /\ id \in 1..last' /\ last \in Nat /\ last' \in Nat /\ id # 0
      /\ id \in 0..MaxSessions
      /\ current' = id /\ tool_session' = id /\ runtime_plan_session_select(id)
      /\ UNCHANGED <<host, owner, pc, request, result, source, bound, cancelled, outcome>>
  BY DEF IInv, TypeOK, TurnAssumption, SelectsSession, SelectSession, Free, lock, react
<1>2. /\ Registry' /\ active_plan' = id
      /\ \A x \in Ids : Has(cache, active_plan, plans, x) =>
           Has(cache, active_plan, plans, x)' \/ Full(cache) \/ id = 0
  BY <1>1, SelectKeeps, Zenon
<1>3. \A x \in Ids : PlanStays(x)
  BY <1>1, <1>2, Zenon DEF PlanStays
<1>4. 0..last \subseteq 0..last'
  BY <1>1 DEF SelectsSession
<1>5. request' \in [Threads -> 0..last'] /\ source' \in 0..last'
  BY <1>1, <1>4, Zenon DEF IInv, TypeOK
<1>6. Locked'
  BY <1>1, Zenon DEF IInv, TypeOK, TurnAssumption, Locked
<1>7. Borrowed'
  BY <1>1, <1>2, Zenon DEF IInv, TypeOK, TurnAssumption, Borrowed
<1>8. IInv'
  BY <1>1, <1>2, <1>5, <1>6, <1>7, Assemble DEF IInv, TypeOK, SelectsSession
<1> QED BY <1>3, <1>8, Zenon

\* A session that is created but not selected.
LEMMA DetachedKeeps ==
  ASSUME TurnAssumption, IInv, runtime_session_create_detached, host' = host
  PROVE  IInv' /\ \A x \in Ids : PlanStays(x)
<1>1. /\ last' = last + 1 /\ last' \in 0..MaxSessions /\ exists' = exists \cup {last + 1} /\ last \in Nat
      /\ UNCHANGED <<host, owner, pc, request, result, current, tool_session, source, bound,
                     cancelled, outcome>>
      /\ UNCHANGED registry /\ active_plan' = active_plan
  BY DEF IInv, TypeOK, TurnAssumption, runtime_session_create_detached, NewSession, lock, tools,
         react, registry
<1>2. Registry' /\ \A x \in Ids : PlanStays(x)
  BY <1>1, RegistryFrame, Zenon
<1>3. 0..last \subseteq 0..last' /\ 1..last \subseteq 1..last' /\ last + 1 \in 1..last'
  BY <1>1
<1>4. /\ request' \in [Threads -> 0..last'] /\ source' \in 0..last' /\ tool_session' \in 0..last'
      /\ active_plan' \in 0..last' /\ exists' \subseteq 1..last' /\ current' \in exists' \cup {0}
  BY <1>1, <1>3, Zenon DEF IInv, TypeOK
<1>5. Locked'
  BY <1>1, <1>3, Zenon DEF IInv, Locked
<1>6. Borrowed'
  BY <1>1, Zenon DEF IInv, Borrowed
<1>7. IInv'
  BY <1>1, <1>2, <1>4, <1>5, <1>6, Assemble DEF IInv, TypeOK
<1> QED BY <1>2, <1>7, Zenon

\* A deleted session is forgotten, in the cache and as the active one.
LEMMA DeleteKeeps ==
  ASSUME TurnAssumption, IInv, NEW id \in exists, runtime_session_delete_and_update(id), host' = host
  PROVE  IInv' /\ \A x \in Ids : x \in exists' => PlanStays(x)
<1>1. /\ owner = NoThread /\ exists' = exists \ {id} /\ id # 0 /\ active_plan = current
      /\ current' = (IF current = id THEN 0 ELSE current)
      /\ active_plan' = (IF active_plan = id THEN 0 ELSE active_plan)
      /\ plans' = (IF active_plan = id THEN {} ELSE plans)
      /\ cache' = [i \in Slot |-> IF cache[i].id = id THEN Entry(0, {}) ELSE cache[i]]
      /\ UNCHANGED <<host, owner, pc, request, result, last, tool_session, source, bound,
                     cancelled, outcome>>
  BY DEF IInv, TypeOK, Borrowed, Locked, runtime_session_delete_and_update, runtime_plan_session_forget,
         Free, lock, tools, react
<1>2. Entry(0, {}) \in Entries /\ Entry(0, {}).id = 0 /\ Entry(0, {}).plans = {}
  BY DEF Entry, Entries, TurnAssumption
<1>3. /\ cache \in [Slot -> Entries] /\ active_plan \in 0..last /\ last \in 0..MaxSessions
      /\ plans \subseteq Ids /\ MaxSessions \in Nat
  BY Zenon DEF IInv, TypeOK, Entries, TurnAssumption
<1>4. /\ cache' \in [Slot -> Entries]
      /\ \A i \in Slot : cache'[i] = IF cache[i].id = id THEN Entry(0, {}) ELSE cache[i]
  BY <1>1, <1>2, <1>3, Zenon
<1>5. Cached(cache, active_plan)'
  BY <1>1, <1>4, Zenon DEF IInv, Cached
<1>6. Unique(cache)'
  BY <1>2, <1>4, ZenonT(60) DEF IInv, Unique
<1>7. host = "locked" => Isolated(cache, active_plan, plans)'
  BY <1>1, <1>2, <1>4, Zenon DEF IInv, Isolated
<1>8. Registry'
  BY <1>1, <1>3, <1>4, <1>5, <1>6, <1>7 DEF Registry
<1>9. ASSUME NEW x \in Ids, x \in exists'
      PROVE  PlanStays(x)
  <2>1. x # id
    BY <1>1, <1>9, Zenon
  <2> QED BY <1>1, <1>4, <2>1, Zenon DEF PlanStays, Has
<1>10. Locked' /\ Borrowed'
  BY <1>1, Zenon DEF IInv, TypeOK, Locked, Borrowed
<1>11. current' \in exists' \cup {0} /\ exists' \subseteq 1..last' /\ active_plan' \in 0..last'
  BY <1>1, <1>3 DEF IInv, TypeOK
<1>12. IInv'
  BY <1>1, <1>3, <1>8, <1>10, <1>11, Assemble, ZenonT(60) DEF IInv, TypeOK
<1> QED BY <1>9, <1>12, Zenon

\* The calls that take no lock leave a turn its tool context.
LEMMA UnlockedKeeps ==
  ASSUME TurnAssumption, IInv, host' = host,
         runtime_turn_prepare_tools \/ runtime_tasks_execute \/ runtime_cancel_turn
  PROVE  IInv' /\ \A x \in Ids : PlanStays(x)
<1>1. /\ host = "cli" /\ source' \in {source, current} /\ cancelled' \in BOOLEAN
      /\ UNCHANGED <<host, owner, pc, request, result, last, exists, current, tool_session, bound,
                     outcome>>
  BY Zenon DEF IInv, TypeOK, runtime_turn_prepare_tools, runtime_tasks_execute, runtime_cancel_turn, lock,
         sessions, tools, react
<1>2. /\ Registry' /\ (active_plan' = active_plan \/ active_plan' = current)
      /\ \A x \in Ids : PlanStays(x)
  <2>1. CASE runtime_turn_prepare_tools
    <3>1. current \in 0..MaxSessions /\ runtime_plan_session_select(current)
      BY <2>1 DEF IInv, TypeOK, TurnAssumption, runtime_turn_prepare_tools
    <3> QED BY <1>1, <3>1, SelectKeeps, Zenon DEF PlanStays
  <2>2. CASE runtime_tasks_execute \/ runtime_cancel_turn
    <3>1. UNCHANGED registry
      BY <2>2, Zenon DEF runtime_tasks_execute, runtime_cancel_turn
    <3> QED BY <3>1, RegistryFrame, Zenon DEF registry
  <2> QED BY <2>1, <2>2, Zenon
<1>3. current \in 0..last /\ last \in 0..MaxSessions
  BY DEF IInv, TypeOK
<1>4. Locked' /\ Borrowed'
  BY <1>1, <1>2, Zenon DEF IInv, Locked, Borrowed
<1>5. active_plan' \in 0..last' /\ source' \in 0..last'
  BY <1>1, <1>2, <1>3, Zenon DEF IInv, TypeOK
<1>6. IInv'
  BY <1>1, <1>2, <1>4, <1>5, Assemble DEF IInv, TypeOK
<1> QED BY <1>2, <1>6, Zenon

\* The steps of a turn that touch neither the registry's slots nor the scope.
LEMMA TurnGoesOnKeeps ==
  ASSUME TurnAssumption, IInv, host' = host, NEW t \in Threads,
         \/ \E id \in 1..last : runtime_lock_turn(t, id)
         \/ TurnBusy(t) \/ TurnStarts(t) \/ ReactEnds(t)
  PROVE  IInv' /\ \A x \in Ids : PlanStays(x)
<1>1. /\ UNCHANGED <<last, exists, current, tool_session, source, bound>>
      /\ UNCHANGED registry /\ active_plan' = active_plan
      /\ cancelled' \in BOOLEAN /\ outcome' \in {"none", "success", "error", "cancelled"}
      /\ result' \in {"none", "busy", "failed", "completed", "cancelled"}
  BY Zenon DEF IInv, TypeOK, runtime_lock_turn, TurnBusy, TurnStarts, ReactEnds, sessions, tools, react,
         registry
<1>2. Registry' /\ \A x \in Ids : PlanStays(x)
  BY <1>1, RegistryFrame, Zenon
<1>3. /\ pc' \in [Threads -> {"idle", "locked", "prepared", "running", "ended"}]
      /\ request' \in [Threads -> 0..last'] /\ owner' \in Threads \cup {NoThread}
      /\ \A u \in Threads \ {t} : pc'[u] = pc[u] /\ request'[u] = request[u]
  BY <1>1 DEF IInv, TypeOK, runtime_lock_turn, TurnBusy, TurnStarts, ReactEnds
<1>4. CASE \E id \in 1..last : runtime_lock_turn(t, id)
  <2>1. /\ owner = NoThread /\ owner' = t /\ pc'[t] = "locked" /\ request'[t] \in 1..last
    BY <1>4, Zenon DEF IInv, TypeOK, runtime_lock_turn, Free
  <2>2. \A u \in Threads : pc[u] = "idle"
    BY <2>1, Zenon DEF IInv, Locked, TurnAssumption
  <2>3. Locked'
    BY <1>1, <1>3, <2>1, <2>2, Zenon DEF Locked
  <2>4. Borrowed'
    BY <1>1, <2>1, Zenon DEF IInv, TypeOK, Borrowed, TurnAssumption
  <2> QED BY <1>1, <1>2, <1>3, <2>3, <2>4, Assemble, Zenon DEF IInv, TypeOK
<1>5. CASE TurnBusy(t)
  <2>1. UNCHANGED <<owner, pc, request>>
    BY <1>5, Zenon DEF TurnBusy
  <2>2. Locked' /\ Borrowed'
    BY <1>1, <2>1, Zenon DEF IInv, Locked, Borrowed
  <2> QED BY <1>1, <1>2, <1>3, <2>2, Assemble, Zenon DEF IInv, TypeOK
<1>6. CASE TurnStarts(t) \/ ReactEnds(t)
  <2>1. /\ UNCHANGED <<owner, request>> /\ owner = t /\ t # NoThread
        /\ pc[t] \in {"prepared", "running"} /\ pc'[t] \in {"running", "ended"}
    BY <1>6, Zenon DEF IInv, TypeOK, Locked, TurnStarts, ReactEnds, TurnAssumption
  <2>2. Locked'
    BY <1>1, <1>3, <2>1, Zenon DEF IInv, Locked
  <2>3. Borrowed'
    BY <1>1, <2>1, Zenon DEF IInv, TypeOK, Borrowed
  <2> QED BY <1>1, <1>2, <1>3, <2>2, <2>3, Assemble, Zenon DEF IInv, TypeOK
<1> QED BY <1>4, <1>5, <1>6, Zenon

\* The plan tool writes the registry of its own turn.
LEMMA PlanToolKeeps ==
  ASSUME TurnAssumption, IInv, host' = host, NEW t \in Threads, PlanTool(t)
  PROVE  IInv' /\ \A x \in Ids : PlanStays(x)
<1>1. /\ plans' = plans \cup {request[t]} /\ pc[t] = "running"
      /\ UNCHANGED <<host, owner, pc, request, result, last, exists, current, active_plan, cache,
                     tool_session, source, bound, cancelled, outcome>>
  BY Zenon DEF PlanTool, lock, sessions, tools, react
<1>2. owner = t /\ request[t] \in Ids /\ bound = TRUE
  BY <1>1 DEF IInv, TypeOK, Locked, Borrowed, Ids, TurnAssumption
<1>3. host = "locked" => request[t] = active_plan
  BY <1>2, Zenon DEF IInv, Borrowed
<1>4. Registry'
  BY <1>1, <1>2, <1>3 DEF IInv, TypeOK, Registry, Entries, Cached, Unique, Isolated, TurnAssumption
<1>5. \A x \in Ids : PlanStays(x)
  BY <1>1, Zenon DEF PlanStays, Has
<1>6. Locked' /\ Borrowed'
  BY <1>1, Zenon DEF IInv, Locked, Borrowed
<1>7. IInv'
  BY <1>1, <1>4, <1>6, Assemble DEF IInv, TypeOK
<1> QED BY <1>5, <1>7, Zenon

\* The scope begins: the bindings become the turn's.
LEMMA BeginKeeps ==
  ASSUME TurnAssumption, IInv, host' = host, NEW t \in Threads, runtime_turn_scope_begin(t)
  PROVE  IInv' /\ \A x \in Ids : PlanStays(x)
<1>1. /\ pc[t] = "locked" /\ owner = t /\ t # NoThread /\ request[t] \in 1..last
      /\ request[t] \in 0..MaxSessions /\ request[t] # 0
      /\ runtime_plan_session_select(request[t])
      /\ tool_session' = request[t] /\ source' = request[t] /\ bound' = TRUE
      /\ pc' \in [Threads -> {"idle", "locked", "prepared", "running", "ended"}]
      /\ pc'[t] = "prepared" /\ \A u \in Threads \ {t} : pc'[u] = pc[u]
      /\ UNCHANGED <<owner, request, result, last, exists, current, cancelled, outcome>>
  BY DEF IInv, TypeOK, Locked, TurnAssumption, runtime_turn_scope_begin, sessions, react
<1>2. /\ Registry' /\ active_plan' = request[t]
      /\ \A x \in Ids : Has(cache, active_plan, plans, x) =>
           Has(cache, active_plan, plans, x)' \/ Full(cache)
  BY <1>1, SelectKeeps, Zenon
<1>3. \A x \in Ids : PlanStays(x)
  BY <1>2, Zenon DEF PlanStays
<1>4. Locked'
  BY <1>1, Zenon DEF IInv, Locked
<1>5. Borrowed'
  BY <1>1, <1>2, Zenon DEF Borrowed
<1>6. IInv'
  BY <1>1, <1>2, <1>4, <1>5, Assemble, Zenon DEF IInv, TypeOK
<1> QED BY <1>3, <1>6, Zenon

\* The turn ends, before or after its scope has begun: the bindings are the
\* current session's again.
LEMMA FinishKeeps ==
  ASSUME TurnAssumption, IInv, host' = host, NEW t \in Threads, PrepareFails(t) \/ ExecuteEnds(t)
  PROVE  IInv' /\ \A x \in Ids : PlanStays(x)
<1>1. /\ pc[t] # "idle" /\ owner = t /\ owner' = NoThread /\ runtime_turn_scope_finish
      /\ pc' \in [Threads -> {"idle", "locked", "prepared", "running", "ended"}]
      /\ pc'[t] = "idle" /\ \A u \in Threads \ {t} : pc'[u] = pc[u]
      /\ request' \in [Threads -> 0..last]
      /\ result' \in {"none", "busy", "failed", "completed", "cancelled"}
      /\ UNCHANGED <<last, exists, current, cancelled, outcome>>
  BY DEF IInv, TypeOK, Locked, PrepareFails, ExecuteEnds, runtime_unlock_turn, sessions, react
<1>2. /\ Registry' /\ active_plan' = current /\ bound' = FALSE /\ source' = source
      /\ tool_session' \in 0..last /\ (current # 0 => tool_session' = current)
      /\ \A x \in Ids : PlanStays(x)
  <2>1. CASE bound
    <3>1. /\ runtime_plan_session_select(current) /\ current \in 0..MaxSessions
          /\ tool_session' = (IF current # 0 THEN current ELSE tool_session)
          /\ bound' = FALSE /\ source' = source
      BY <1>1, <2>1 DEF IInv, TypeOK, TurnAssumption, runtime_turn_scope_finish
    <3>2. /\ Registry' /\ active_plan' = current
          /\ \A x \in Ids : Has(cache, active_plan, plans, x) =>
               Has(cache, active_plan, plans, x)' \/ Full(cache) \/ current = 0
      BY <3>1, SelectKeeps, Zenon
    <3>3. tool_session' \in 0..last
      BY <3>1 DEF IInv, TypeOK
    <3> QED BY <1>1, <3>1, <3>2, <3>3, Zenon DEF PlanStays
  <2>2. CASE ~bound
    <3>1. UNCHANGED registry /\ UNCHANGED <<tool_session, source, bound>> /\ bound = FALSE
      BY <1>1, <2>2, Zenon DEF IInv, TypeOK, runtime_turn_scope_finish, tools
    <3>2. active_plan = current /\ (current # 0 => tool_session = current)
      BY <3>1, Zenon DEF IInv, Borrowed
    <3> QED BY <3>1, <3>2, RegistryFrame, Zenon DEF IInv, TypeOK, registry
  <2> QED BY <2>1, <2>2, Zenon
<1>3. \A u \in Threads : pc'[u] = "idle"
  BY <1>1, Zenon DEF IInv, Locked
<1>4. Locked' /\ Borrowed'
  BY <1>1, <1>2, <1>3, Zenon DEF TurnAssumption, Locked, Borrowed
<1>5. active_plan' \in 0..last'
  BY <1>1, <1>2 DEF IInv, TypeOK
<1>6. IInv'
  BY <1>1, <1>2, <1>4, <1>5, Assemble, Zenon DEF IInv, TypeOK
<1> QED BY <1>2, <1>6, Zenon

---------------------------------------------------------------------------
(* The theorems. *)

\* runtime_open establishes the invariant.
LEMMA InitInvariant ==
  ASSUME TurnAssumption, Init
  PROVE  IInv
<1>1. Entry(0, {}) \in Entries /\ Entry(0, {}).id = 0 /\ Entry(0, {}).plans = {}
  BY DEF Entry, Entries, TurnAssumption
<1>2. cache \in [Slot -> Entries] /\ \A i \in Slot : cache[i].id = 0 /\ cache[i].plans = {}
  BY <1>1, Zenon DEF Init
<1>3. TypeOK
  <2>1. /\ last \in 0..MaxSessions /\ exists \subseteq 1..last /\ current \in exists \cup {0}
        /\ active_plan \in 0..last /\ plans \subseteq Ids
        /\ tool_session \in 0..last /\ source \in 0..last
    BY DEF Init, TurnAssumption
  <2>2. pc \in [Threads -> {"idle", "locked", "prepared", "running", "ended"}]
    BY Zenon DEF Init
  <2>3. request \in [Threads -> 0..last]
    BY DEF Init
  <2>4. host \in Hosts /\ owner \in Threads \cup {NoThread}
    BY Zenon DEF Init
  <2> QED BY <1>2, <2>1, <2>2, <2>3, <2>4, Zenon DEF Init, TypeOK, Entries
<1>4. Locked /\ Borrowed
  BY Zenon DEF Init, TurnAssumption, Locked, Borrowed
<1>5. Cached(cache, active_plan) /\ Unique(cache) /\ Isolated(cache, active_plan, plans)
  BY <1>2, Zenon DEF Init, Cached, Unique, Isolated
<1> QED BY <1>3, <1>4, <1>5, Zenon DEF IInv

\* Every step keeps the invariant, and the plans of the sessions that exist.
LEMMA StepKeeps ==
  ASSUME TurnAssumption, IInv, [Next]_vars
  PROVE  IInv' /\ \A x \in Ids : x \in exists \cap exists' => PlanStays(x)
<1>1. CASE UNCHANGED vars
  <2>1. /\ UNCHANGED <<host, owner, pc, request, result, last, exists, current, active_plan, tool_session,
                       source, bound, cancelled, outcome>>
        /\ UNCHANGED registry /\ host' = host
    BY <1>1, Zenon DEF vars, lock, sessions, registry, tools, react
  <2>2. Registry' /\ \A x \in Ids : PlanStays(x)
    BY <2>1, RegistryFrame, Zenon
  <2>3. Locked' /\ Borrowed'
    BY <2>1, Zenon DEF IInv, Locked, Borrowed
  <2> QED BY <2>1, <2>2, <2>3, Assemble DEF IInv, TypeOK
<1>2. CASE Next
  <2>1. host' = host
    BY <1>2, Zenon DEF Next
  <2>2. ASSUME NEW t \in Threads, Turn(t)
        PROVE  IInv' /\ \A x \in Ids : PlanStays(x)
    <3>1. CASE \/ \E id \in 1..last : runtime_lock_turn(t, id)
               \/ TurnBusy(t) \/ TurnStarts(t) \/ ReactEnds(t)
      BY <2>1, <3>1, TurnGoesOnKeeps, Zenon
    <3>2. CASE PlanTool(t)
      BY <2>1, <3>2, PlanToolKeeps, Zenon
    <3>3. CASE runtime_turn_scope_begin(t)
      BY <2>1, <3>3, BeginKeeps, Zenon
    <3>4. CASE PrepareFails(t) \/ ExecuteEnds(t)
      BY <2>1, <3>4, FinishKeeps, Zenon
    <3> QED BY <2>2, <3>1, <3>2, <3>3, <3>4, Zenon DEF Turn
  <2>3. ASSUME NEW id \in exists, runtime_session_select_existing(id)
        PROVE  IInv' /\ \A x \in Ids : PlanStays(x)
    <3>1. SelectsSession(id) /\ id \in Nat
      BY <2>1, <2>3 DEF IInv, TypeOK, SelectsSession, runtime_session_select_existing
    <3> QED BY <3>1, SelectsKeeps, Zenon
  <2>4. ASSUME NEW id \in exists, runtime_session_delete_and_update(id)
        PROVE  IInv' /\ \A x \in Ids : x \in exists' => PlanStays(x)
    BY <2>1, <2>4, DeleteKeeps, Zenon
  <2>5. CASE runtime_session_create_and_select \/ runtime_ensure_current_session
    <3>1. last \in Nat /\ last + 1 \in Nat /\ exists \subseteq 1..last /\ last' = last + 1
          /\ last < MaxSessions /\ exists' = exists \cup {last + 1} /\ MaxSessions \in Nat
      BY <2>5 DEF IInv, TypeOK, NewSession, TurnAssumption, runtime_session_create_and_select,
                  runtime_ensure_current_session
    <3>2. /\ last' \in 0..MaxSessions /\ last <= last' /\ exists' \subseteq 1..last'
          /\ last + 1 \in exists'
      BY <3>1
    <3>3. SelectsSession(last + 1)
      BY <2>1, <2>5, <3>2, Zenon DEF SelectsSession, runtime_session_create_and_select,
                              runtime_ensure_current_session
    <3> QED BY <3>1, <3>3, SelectsKeeps, Zenon
  <2>6. CASE runtime_session_create_detached
    BY <2>1, <2>6, DetachedKeeps, Zenon
  <2>7. CASE runtime_turn_prepare_tools \/ runtime_tasks_execute \/ runtime_cancel_turn
    BY <2>1, <2>7, UnlockedKeeps, Zenon
  <2> QED BY <1>2, <2>2, <2>3, <2>4, <2>5, <2>6, <2>7, Zenon DEF Next
<1> QED BY <1>1, <1>2, ZenonT(60)

\* The invariant gives the bindings their meaning.
LEMMA InvariantImplies ==
  ASSUME TurnAssumption, IInv
  PROVE  BindingsRight
<1>1. \A t \in Threads : pc[t] \in {"prepared", "running", "ended"} => owner = t /\ bound = TRUE
  BY Zenon DEF IInv, Locked, Borrowed
<1>2. TurnBindings
  BY <1>1, Zenon DEF IInv, Borrowed, TurnBindings
<1>3. BindingsRestored
  <2>1. Free => bound = FALSE
    BY Zenon DEF IInv, TypeOK, Borrowed, Free
  <2> QED BY <2>1, Zenon DEF IInv, Borrowed, BindingsRestored
<1>4. PlansIsolated
  BY Zenon DEF IInv, Isolated, PlansIsolated
<1>5. TurnToolContext
  BY <1>1, Zenon DEF IInv, Locked, Borrowed, TurnToolContext
<1> QED BY <1>2, <1>3, <1>4, <1>5, Zenon DEF BindingsRight

\* Has says in the terms of the cache what PlanOf says.
LEMMA HasPlan ==
  ASSUME NEW x
  PROVE  PlanOf(x) # {} <=> Has(cache, active_plan, plans, x)
BY Zenon DEF PlanOf, Has, runtime_plan_session_slot

\* The same in the next state.
LEMMA HasPlanNext ==
  ASSUME NEW x
  PROVE  PlanOf(x)' # {} <=> Has(cache, active_plan, plans, x)'
BY Zenon DEF PlanOf, Has, runtime_plan_session_slot

\* With any number of threads and sessions and any cache: a turn works with the
\* plans and the tools of its session, one turn at a time, and gives them back
\* (runtime_turn_scope_begin, runtime_turn_scope_finish).
THEOREM Bindings ==
  ASSUME TurnAssumption
  PROVE  Spec => []BindingsRight
<1>1. Init => IInv
  BY InitInvariant, Zenon
<1>2. IInv /\ [Next]_vars => IInv'
  BY StepKeeps, Zenon
<1>3. IInv => BindingsRight
  BY InvariantImplies, Zenon
<1> QED BY <1>1, <1>2, <1>3, PTL DEF Spec

\* A session that exists loses its plan only to a full cache or when plans are
\* selected while no session is current (runtime_plan_session_select).
THEOREM PlansStay ==
  ASSUME TurnAssumption
  PROVE  Spec => PlansKept
<1>1. Init => IInv
  BY InitInvariant, Zenon
<1>2. IInv /\ [Next]_vars => IInv'
  BY StepKeeps, Zenon
<1>3. IInv /\ [Next]_vars => [KeepsPlans]_vars
  <2> SUFFICES ASSUME IInv, [Next]_vars, NEW x \in exists \cap exists',
                      PlanOf(x) # {}, PlanOf(x)' = {}
               PROVE  (\A i \in Slot : cache[i].id # 0) \/ current' = 0
    BY Zenon DEF KeepsPlans
  <2>1. x \in Ids
    BY DEF IInv, TypeOK, TurnAssumption, Ids
  <2>2. PlanStays(x)
    BY <2>1, StepKeeps, Zenon
  <2> QED BY <2>2, HasPlan, HasPlanNext, Zenon DEF PlanStays, Full
<1> QED BY <1>1, <1>2, <1>3, PTL DEF Spec, PlansKept
=============================================================================
