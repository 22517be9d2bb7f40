-------------------------- MODULE ServerPoolProofs --------------------------
(***************************************************************************)
(* The pool of runtimes is sound for every number of turns, sessions and   *)
(* workers and every length of the queue (PoolSound of ServerPool).  The   *)
(* steps that look for a slot are here and the others in ServerPoolSteps,  *)
(* all under the facts about cardinalities and least elements (Counting)   *)
(* that are proved here from the library's theorems.                       *)
(***************************************************************************)
EXTENDS ServerPoolSteps, FiniteSetTheorems, WellFoundedInduction

\* Where a turn can be.
Places == {"new", "acquire", "wait", "open", "close", "run", "end", "done"}

\* One look at the pool, from a pool that satisfies the invariant: a slot is
\* taken, the pool grows, or the turn sleeps or gives up.
LEMMA PassKeeps ==
  ASSUME Counting, TypeOK, NEW t \in Turns, NEW S \in [Index -> Slot], NEW n \in 0..MaxWorkers,
         NEW starting \in Nat, NEW q \in [Turns -> Places], NEW p \in [Turns -> Places],
         NEW o \in SUBSET Runtimes, p[t] = "acquire", \A u \in Turns \ {t} : q[u] = p[u],
         Sound(S, n, starting, p, o), stopping = FALSE,
         Pass(t, S, n, starting, q), opened' = o, UNCHANGED <<reaper, victim, main, doomed>>
  PROVE  IInv'
<1>counts. Counts(n, starting, p)
  BY Zenon DEF Sound
<1>phases. Phases(n, p)
  BY Zenon DEF Sound
<1>filled. Filled(S, n, o)
  BY Zenon DEF Sound
<1>held. Held(S, n, p, o)
  BY Zenon DEF Sound
<1>running. Running(S, n, p)
  BY Zenon DEF Sound
<1>kept. Kept(S, n, p, o)
  BY Zenon DEF Sound
<1>asleep. Asleep(S, n, starting, p)
  BY Zenon DEF Sound
<1>1. /\ slot_count' = n
      /\ UNCHANGED <<outstanding_turns, stopping, reaper, victim, main, doomed>>
  BY Zenon DEF Pass
<1>2. runtime[t] = NoRuntime /\ main = "serve"
  BY <1>phases, <1>held, Zenon DEF Held, Phases
<1>3. ASSUME NEW x \in Places \ {"new", "done"}, pc' = [q EXCEPT ![t] = x]
      PROVE  /\ pc' \in [Turns -> Places] /\ pc'[t] = x /\ \A u \in Turns \ {t} : pc'[u] = p[u]
             /\ Going(pc') = Going(p)
             /\ x = "open" => Cardinality(Opening(pc')) = Cardinality(Opening(p)) + 1
             /\ x # "open" => Opening(pc') = Opening(p)
  <2>1. pc' \in [Turns -> Places] /\ pc'[t] = x /\ \A u \in Turns \ {t} : pc'[u] = p[u]
    BY <1>3, Zenon
  <2>2. /\ \A u \in Turns \ {t} : (p[u] \in {"new", "done"}) <=> (pc'[u] \in {"new", "done"})
        /\ \A u \in Turns \ {t} : (p[u] = "open") <=> (pc'[u] = "open")
    BY <2>1, Zenon
  <2>3. (t \in Going(p)) = (t \in Going(pc'))
    BY <1>3, <2>1, Zenon DEF Going
  <2>4. t \notin Opening(p) /\ (t \in Opening(pc') <=> x = "open")
    BY <2>1, Zenon DEF Opening
  <2>5. Going(pc') = Going(p)
    BY <2>2, <2>3, GoingMoves, Zenon
  <2>6. /\ x = "open" => Cardinality(Opening(pc')) = Cardinality(Opening(p)) + 1
        /\ x # "open" => Opening(pc') = Opening(p)
    BY <2>2, <2>4, OpeningMoves
  <2> QED BY <2>1, <2>5, <2>6, Zenon
<1>4. ASSUME slots' = S, UNCHANGED runtime, NEW x \in {"open", "wait", "end"},
             pc' = [q EXCEPT ![t] = x]
      PROVE  /\ Phases(slot_count, pc)' /\ Filled(slots, slot_count, opened)'
             /\ Held(slots, slot_count, pc, opened)' /\ Running(slots, slot_count, pc)'
             /\ Kept(slots, slot_count, pc, opened)'
  <2>1. x \in Places \ {"new", "done"}
    BY <1>4, Zenon DEF Places
  <2>2. pc'[t] = x /\ (\A u \in Turns \ {t} : pc'[u] = p[u]) /\ Going(pc') = Going(p)
    BY <1>3, <1>4, <2>1, Zenon
  <2>3. \A u \in Turns : (pc'[u] = "run" <=> p[u] = "run") /\ (pc'[u] = "close" <=> p[u] = "close")
    BY <1>4, <2>2, Zenon
  <2>4. Phases(slot_count, pc)'
    BY <1>1, <2>2, <1>phases, Zenon DEF Phases
  <2>5. Filled(slots, slot_count, opened)'
    BY <1>1, <1>4, <1>filled, Zenon DEF Filled
  <2>6. Held(slots, slot_count, pc, opened)'
    BY <1>1, <1>4, <2>3, <1>held DEF Held
  <2>7. Running(slots, slot_count, pc)'
    BY <1>1, <1>4, <2>3, <1>running, Zenon DEF Running
  <2>8. Kept(slots, slot_count, pc, opened)'
    BY <1>1, <1>4, <2>3, <1>kept DEF Kept
  <2> QED BY <2>4, <2>5, <2>6, <2>7, <2>8, Zenon
<1>5. CASE /\ ~session_busy(t, S, n) /\ free_slots(S, n) # {}
           /\ LET i == lowest(free_slots(S, n)) IN
                /\ slots' = [S EXCEPT ![i].busy = TRUE, ![i].session = SessionOf[t]]
                /\ runtime' = [runtime EXCEPT ![t] = S[i].runtime]
           /\ starting_workers' = starting
           /\ pc' = [q EXCEPT ![t] = "run"]
           /\ Dequeue(t)
  <2> DEFINE i == lowest(free_slots(S, n))
  <2>1. i \in 1..n /\ i \in Index /\ S[i].busy = FALSE
    <3>1. i \in free_slots(S, n)
      <4>1. free_slots(S, n) \subseteq Nat
        BY DEF free_slots
      <4> QED BY <1>5, <4>1, LeastIsElement, Zenon
    <3>2. i \in 1..n /\ ~S[i].busy
      BY <3>1, Zenon DEF free_slots
    <3>3. i \in Index
      BY PoolAssumption, <3>2 DEF Index
    <3>4. S[i].busy \in BOOLEAN
      BY <3>3, Zenon DEF Slot
    <3> QED BY <3>2, <3>3, <3>4, Zenon
  <2>2. /\ slots' = [S EXCEPT ![i].busy = TRUE, ![i].session = SessionOf[t]]
        /\ runtime' = [runtime EXCEPT ![t] = S[i].runtime]
    BY <1>5, Zenon
  <2> HIDE DEF i
  <2>3. \A j \in 1..n : S[j].busy = TRUE => S[j].session # SessionOf[t]
    BY <1>5, Zenon DEF session_busy
  <2>4. /\ slots' \in [Index -> Slot]
        /\ slots'[i].runtime = S[i].runtime /\ slots'[i].elastic = S[i].elastic
        /\ slots'[i].busy = TRUE /\ slots'[i].session = SessionOf[t]
        /\ \A j \in Index \ {i} : slots'[j] = S[j]
    <3>1. S[i] \in Slot /\ SessionOf[t] \in Sessions
      BY PoolAssumption, <2>1, Zenon
    <3>2. [[S[i] EXCEPT !.busy = TRUE] EXCEPT !.session = SessionOf[t]] \in Slot
      BY <3>1, Zenon DEF Slot
    <3> QED BY <2>1, <2>2, <3>1, <3>2, Zenon DEF Slot
  <2>5. /\ runtime' \in [Turns -> Runtimes \cup {NoRuntime}] /\ runtime'[t] = S[i].runtime
        /\ \A u \in Turns \ {t} : runtime'[u] = runtime[u]
    BY <2>1, <2>2, Zenon DEF TypeOK, Slot
  <2>6. /\ pc' \in [Turns -> Places] /\ pc'[t] = "run" /\ \A u \in Turns \ {t} : pc'[u] = p[u]
        /\ Going(pc') = Going(p) /\ Opening(pc') = Opening(p)
    <3>1. "run" \in Places \ {"new", "done"}
      BY Zenon DEF Places
    <3> QED BY <1>3, <1>5, <3>1, Zenon
  <2>7. /\ waiting_turns' = Cardinality(queued') /\ waiting_turns' <= QueueMax
        /\ waiting_turns' \in Nat /\ queued' \subseteq Turns
    BY <1>5, DequeueCounts, <1>counts, Zenon DEF Counts
  <2>8. S[i].runtime \in o /\ S[i].runtime # NoRuntime
    BY PoolAssumption, <2>1, <1>filled, Zenon DEF Filled
  <2>9. \A j \in 1..n : j \in Index /\ slots'[j].runtime = S[j].runtime /\ slots'[j].elastic = S[j].elastic
    <3> SUFFICES ASSUME NEW j \in 1..n
                 PROVE  /\ j \in Index
                        /\ slots'[j].runtime = S[j].runtime /\ slots'[j].elastic = S[j].elastic
      BY Zenon
    <3>1. j \in Index
      BY PoolAssumption DEF Index
    <3>2. CASE j = i
      BY <2>4, <3>1, <3>2, Zenon
    <3>3. CASE j # i
      BY <2>4, <3>1, <3>3, Zenon
    <3> QED BY <3>1, <3>2, <3>3, Zenon
  <2>10. TypeOK'
    BY <1>1, <1>5, <2>4, <2>5, <2>6, <2>7, Zenon DEF TypeOK, Places
  <2>11. Counts(slot_count, starting_workers, pc)'
    BY <1>1, <1>5, <2>6, <2>7, <1>counts, Zenon DEF Counts
  <2>12. Phases(slot_count, pc)'
    BY <1>1, <2>6, <1>phases, Zenon DEF Phases
  <2>13. Filled(slots, slot_count, opened)'
    <3>1. \A j \in Index : j > n => slots'[j] = Empty
      BY <2>1, <2>4, <1>filled DEF Filled
    <3>2. /\ \A j \in 1..n : slots'[j].runtime \in o
          /\ \A j, k \in 1..n : slots'[j].runtime = slots'[k].runtime => j = k
          /\ \A j \in 1..n : j <= MinWorkers => slots'[j].elastic = FALSE
      BY <2>9, <1>filled, Zenon DEF Filled
    <3>3. \A j, k \in 1..n :
            slots'[j].busy = TRUE /\ slots'[k].busy = TRUE /\ slots'[j].session = slots'[k].session => j = k
      BY <2>3, <2>4, <2>9, <1>filled DEF Filled
    <3> QED BY <1>1, <3>1, <3>2, <3>3, <1>filled, Zenon DEF Filled
  <2>14. Held(slots, slot_count, pc, opened)'
    <3>1. \A u \in Turns : pc'[u] \notin {"run", "close"} => runtime'[u] = NoRuntime
      BY <2>5, <2>6, <1>held, Zenon DEF Held
    <3>2. \A u \in Turns : pc'[u] = "close" =>
            runtime'[u] \in o /\ runtime'[u] # victim /\ \A j \in 1..n : slots'[j].runtime # runtime'[u]
      BY <2>5, <2>6, <2>9, <1>held DEF Held
    <3>3. \A u \in Turns \ {t} : p[u] \in {"run", "close"} =>
            runtime[u] # S[i].runtime /\ runtime[u] # NoRuntime
      <4> SUFFICES ASSUME NEW u \in Turns \ {t}, p[u] \in {"run", "close"}
                   PROVE  runtime[u] # S[i].runtime /\ runtime[u] # NoRuntime
        BY Zenon
      <4>1. CASE p[u] = "run"
        <5>1. PICK j \in 1..n : S[j].runtime = runtime[u] /\ S[j].busy = TRUE
          BY <4>1, <1>running, Zenon DEF Running
        <5>2. j # i
          BY <2>1, <5>1, Zenon
        <5> QED BY PoolAssumption, <2>1, <5>1, <5>2, <1>filled DEF Filled
      <4>2. CASE p[u] = "close"
        BY <2>1, <4>2, <1>held DEF Held
      <4> QED BY <4>1, <4>2, Zenon
    <3>4. \A u \in Turns \ {t} : runtime[u] # S[i].runtime
      BY <2>8, <3>3, <1>held, Zenon DEF Held
    <3>5. \A u, v \in Turns : pc'[u] \in {"run", "close"} /\ runtime'[u] = runtime'[v] => u = v
      <4> SUFFICES ASSUME NEW u \in Turns, NEW v \in Turns, pc'[u] \in {"run", "close"},
                          runtime'[u] = runtime'[v]
                   PROVE  u = v
        BY Zenon
      <4>1. CASE u = t
        BY <2>5, <3>4, <4>1, Zenon
      <4>2. CASE u # t /\ v = t
        BY <2>5, <3>4, <4>2, Zenon
      <4>3. CASE u # t /\ v # t
        BY <2>5, <2>6, <4>3, <1>held DEF Held
      <4> QED BY <4>1, <4>2, <4>3, Zenon
    <3>6. victim # NoRuntime => victim \in o /\ \A j \in 1..n : slots'[j].runtime # victim
      BY <2>9, <1>held, Zenon DEF Held
    <3> QED BY <1>1, <3>1, <3>2, <3>5, <3>6, <1>held DEF Held
  <2>15. Running(slots, slot_count, pc)'
    <3> SUFFICES ASSUME NEW u \in Turns, pc'[u] = "run"
                 PROVE  \E j \in 1..n : /\ slots'[j].runtime = runtime'[u]
                                        /\ slots'[j].busy = TRUE /\ slots'[j].session = SessionOf[u]
      BY <1>1, Zenon DEF Running
    <3>1. CASE u = t
      BY <2>1, <2>4, <2>5, <3>1, Zenon
    <3>2. CASE u # t
      <4>1. PICK j \in 1..n : S[j].runtime = runtime[u] /\ S[j].busy = TRUE /\ S[j].session = SessionOf[u]
        BY <2>6, <3>2, <1>running, Zenon DEF Running
      <4>2. slots'[j] = S[j]
        BY <2>1, <2>4, <2>9, <4>1, ZenonT(60)
      <4> QED BY <2>5, <3>2, <4>1, <4>2, Zenon
    <3> QED BY <3>1, <3>2, Zenon
  <2>16. Kept(slots, slot_count, pc, opened)'
    <3>1. \A u \in Turns : p[u] = "close" => pc'[u] = "close" /\ runtime'[u] = runtime[u]
      BY <2>5, <2>6, Zenon
    <3> QED BY <1>1, <2>9, <3>1, <1>kept DEF Kept
  <2>17. Asleep(slots, slot_count, starting_workers, pc)'
    <3> SUFFICES ASSUME NEW u \in Turns, pc'[u] = "wait"
                 PROVE  \E j \in 1..n : slots'[j].busy = TRUE /\ slots'[j].session = SessionOf[u]
      BY <1>1, Zenon DEF Asleep
    <3>1. p[u] = "wait"
      BY <2>6, Zenon
    <3>2. PICK j \in 1..n : S[j].busy = TRUE /\ S[j].session = SessionOf[u]
      BY <2>1, <3>1, <1>asleep, Zenon DEF Asleep
    <3>3. slots'[j] = S[j]
      BY <2>1, <2>4, <2>9, <3>2, Zenon
    <3> QED BY <3>2, <3>3, Zenon
  <2> QED BY <2>10, <2>11, <2>12, <2>13, <2>14, <2>15, <2>16, <2>17, Zenon DEF IInv, Sound
<1>6. CASE /\ ~session_busy(t, S, n) /\ free_slots(S, n) = {} /\ may_grow(n, starting)
           /\ starting_workers' = starting + 1
           /\ pc' = [q EXCEPT ![t] = "open"]
           /\ slots' = S /\ UNCHANGED <<runtime, queued, waiting_turns>>
  <2>1. "open" \in Places \ {"new", "done"}
    BY Zenon DEF Places
  <2>2. /\ pc' \in [Turns -> Places] /\ pc'[t] = "open" /\ \A u \in Turns \ {t} : pc'[u] = p[u]
        /\ Going(pc') = Going(p)
        /\ Cardinality(Opening(pc')) = Cardinality(Opening(p)) + 1
    BY <1>3, <1>6, <2>1, Zenon
  <2>3. TypeOK'
    BY <1>1, <1>6, <2>2 DEF TypeOK, Places
  <2>4. Counts(slot_count, starting_workers, pc)'
    <3>1. n + (starting + 1) <= MaxWorkers
      BY PoolAssumption, <1>6 DEF may_grow
    <3> QED BY <1>1, <1>6, <2>2, <3>1, <1>counts, Zenon DEF Counts
  <2>5. Asleep(slots, slot_count, starting_workers, pc)'
    <3>1. ~(n + starting >= MaxWorkers)
      BY PoolAssumption, <1>6 DEF may_grow
    <3>2. \A u \in Turns : pc'[u] = "wait" => p[u] = "wait"
      BY <2>2, Zenon
    <3> QED BY <1>1, <1>6, <3>1, <3>2, <1>asleep, Zenon DEF Asleep
  <2>6. /\ Phases(slot_count, pc)' /\ Filled(slots, slot_count, opened)'
        /\ Held(slots, slot_count, pc, opened)' /\ Running(slots, slot_count, pc)'
        /\ Kept(slots, slot_count, pc, opened)'
    BY <1>4, <1>6, Zenon
  <2> QED BY <2>3, <2>4, <2>5, <2>6, Zenon DEF IInv, Sound
<1>7. CASE /\ session_busy(t, S, n) \/ (free_slots(S, n) = {} /\ ~may_grow(n, starting))
           /\ slots' = S /\ starting_workers' = starting /\ UNCHANGED runtime
           /\ IF t \in queued \/ waiting_turns < QueueMax
              THEN /\ queued' = queued \cup {t}
                   /\ waiting_turns' = IF t \in queued THEN waiting_turns ELSE waiting_turns + 1
                   /\ pc' = [q EXCEPT ![t] = "wait"]
              ELSE /\ UNCHANGED <<queued, waiting_turns>>
                   /\ pc' = [q EXCEPT ![t] = "end"]
  <2>1. PICK x \in {"wait", "end"} : pc' = [q EXCEPT ![t] = x]
    BY <1>7, Zenon
  <2>2. x \in Places \ {"new", "done"} /\ x # "open"
    BY <2>1, Zenon DEF Places
  <2>3. /\ pc' \in [Turns -> Places] /\ pc'[t] = x /\ \A u \in Turns \ {t} : pc'[u] = p[u]
        /\ Going(pc') = Going(p) /\ Opening(pc') = Opening(p)
    BY <1>3, <2>1, <2>2, Zenon
  <2>4. /\ waiting_turns' = Cardinality(queued') /\ waiting_turns' <= QueueMax
        /\ waiting_turns' \in Nat /\ queued' \subseteq Turns
    <3>1. queued \subseteq Turns /\ waiting_turns = Cardinality(queued) /\ waiting_turns <= QueueMax
      BY <1>counts, Zenon DEF TypeOK, Counts
    <3>2. CASE t \in queued
      <4>1. queued' = queued /\ waiting_turns' = waiting_turns
        BY <1>7, <3>2
      <4> QED BY <3>1, <4>1, Zenon DEF TypeOK
    <3>3. CASE t \notin queued /\ waiting_turns < QueueMax
      <4>1. queued' = queued \cup {t} /\ waiting_turns' = waiting_turns + 1
        BY <1>7, <3>3, Zenon
      <4>2. Cardinality(queued \cup {t}) = Cardinality(queued) + 1
        BY <3>1, <3>3, CardinalityOfTurns, Zenon
      <4> QED BY PoolAssumption, <3>1, <3>3, <4>1, <4>2 DEF TypeOK
    <3>4. CASE t \notin queued /\ ~(waiting_turns < QueueMax)
      <4>1. queued' = queued /\ waiting_turns' = waiting_turns
        BY <1>7, <3>4, Zenon
      <4> QED BY <3>1, <4>1, Zenon DEF TypeOK
    <3> QED BY <3>2, <3>3, <3>4, Zenon
  <2>5. TypeOK'
    BY <1>1, <1>7, <2>3, <2>4, Zenon DEF TypeOK, Places
  <2>6. Counts(slot_count, starting_workers, pc)'
    BY <1>1, <1>7, <2>3, <2>4, <1>counts, Zenon DEF Counts
  <2>7. Asleep(slots, slot_count, starting_workers, pc)'
    <3> SUFFICES ASSUME NEW u \in Turns, pc'[u] = "wait"
                 PROVE  \/ \E j \in 1..n : S[j].busy = TRUE /\ S[j].session = SessionOf[u]
                        \/ (\A j \in 1..n : S[j].busy = TRUE) /\ n + starting >= MaxWorkers
      BY <1>1, <1>7, Zenon DEF Asleep
    <3>1. CASE u = t
      <4>1. \A j \in 1..n : S[j].busy \in BOOLEAN
        BY PoolAssumption DEF Slot, Index
      <4>2. CASE session_busy(t, S, n)
        BY <3>1, <4>1, <4>2, Zenon DEF session_busy
      <4>3. CASE free_slots(S, n) = {} /\ ~may_grow(n, starting)
        BY PoolAssumption, <4>1, <4>3 DEF free_slots, may_grow
      <4> QED BY <1>7, <4>2, <4>3, Zenon
    <3>2. CASE u # t
      BY <2>3, <3>2, <1>asleep, Zenon DEF Asleep
    <3> QED BY <3>1, <3>2, Zenon
  <2>8. /\ Phases(slot_count, pc)' /\ Filled(slots, slot_count, opened)'
        /\ Held(slots, slot_count, pc, opened)' /\ Running(slots, slot_count, pc)'
        /\ Kept(slots, slot_count, pc, opened)'
    BY <1>4, <1>7, <2>1, Zenon
  <2> QED BY <2>5, <2>6, <2>7, <2>8, Zenon DEF IInv, Sound
<1> QED BY <1>5, <1>6, <1>7, Zenon DEF Pass

\* A look at the pool as it is.
LEMMA AcquireKeeps ==
  ASSUME Counting, IInv, NEW t \in Turns, Acquire(t)
  PROVE  IInv'
<1>1. /\ pc[t] = "acquire" /\ stopping = FALSE
      /\ Pass(t, slots, slot_count, starting_workers, pc)
      /\ opened' = opened /\ UNCHANGED <<reaper, victim, main, doomed>>
  BY Zenon DEF IInv, TypeOK, Acquire
<1>2. /\ slots \in [Index -> Slot] /\ slot_count \in 0..MaxWorkers /\ starting_workers \in Nat
      /\ pc \in [Turns -> Places] /\ opened \in SUBSET Runtimes
  BY Zenon DEF IInv, TypeOK, Places
<1> QED BY <1>1, <1>2, PassKeeps, Zenon DEF IInv

\* bridge_runtime_open has returned a runtime: it becomes the last slot and the
\* pool is looked at again, or it has to be closed.
LEMMA OpenedKeeps ==
  ASSUME Counting, IInv, NEW t \in Turns, NEW r, RuntimeOpened(t, r)
  PROVE  IInv'
<1> USE PoolAssumption
<1>type. TypeOK
  BY Zenon DEF IInv
<1>counts. Counts(slot_count, starting_workers, pc)
  BY Zenon DEF IInv, Sound
<1>phases. Phases(slot_count, pc)
  BY Zenon DEF IInv, Sound
<1>filled. Filled(slots, slot_count, opened)
  BY Zenon DEF IInv, Sound
<1>held. Held(slots, slot_count, pc, opened)
  BY Zenon DEF IInv, Sound
<1>running. Running(slots, slot_count, pc)
  BY Zenon DEF IInv, Sound
<1>kept. Kept(slots, slot_count, pc, opened)
  BY Zenon DEF IInv, Sound
<1>asleep. Asleep(slots, slot_count, starting_workers, pc)
  BY Zenon DEF IInv, Sound
<1> DEFINE p == [Woken EXCEPT ![t] = "acquire"]
<1>1. /\ pc[t] = "open" /\ r \in Runtimes \ opened /\ opened' = opened \cup {r}
      /\ UNCHANGED <<reaper, victim, main, doomed>>
  BY Zenon DEF RuntimeOpened
<1>2. Woken \in [Turns -> Places] /\ p \in [Turns -> Places] /\ p[t] = "acquire"
  BY <1>type, Zenon DEF TypeOK, Places, Woken
<1>3. \A u \in Turns \ {t} : /\ p[u] = Woken[u] /\ p[u] # "wait"
                             /\ p[u] = pc[u] \/ (pc[u] = "wait" /\ p[u] = "acquire")
  BY <1>type, Zenon DEF TypeOK, Woken
<1> HIDE DEF p
<1>4. /\ Going(p) = Going(pc)
      /\ Cardinality(Opening(p)) = Cardinality(Opening(pc)) - 1
      /\ Cardinality(Opening(pc)) > 0 /\ Cardinality(Opening(pc)) \in Nat
  <2>1. /\ \A u \in Turns \ {t} : (pc[u] \in {"new", "done"}) <=> (p[u] \in {"new", "done"})
        /\ \A u \in Turns \ {t} : (pc[u] = "open") <=> (p[u] = "open")
    BY <1>3, Zenon
  <2>2. (t \in Going(pc)) = (t \in Going(p))
    BY <1>1, <1>2 DEF Going
  <2>3. t \in Opening(pc) /\ t \notin Opening(p)
    BY <1>1, <1>2, Zenon DEF Opening
  <2> QED BY <2>1, <2>2, <2>3, GoingMoves, OpeningMoves, Zenon
<1>5. starting_workers - 1 \in Nat /\ slot_count + 1 + (starting_workers - 1) <= MaxWorkers
  BY <1>type, <1>counts, <1>4 DEF TypeOK, Counts
<1>6. runtime[t] = NoRuntime /\ main \notin {"close", "done"} /\ doomed = [k \in Index |-> NoRuntime]
  BY <1>type, <1>phases, <1>held, <1>1, Zenon DEF Held, Phases, TypeOK, Going
<1>7. \A u \in Turns : /\ p[u] = "run" <=> pc[u] = "run"
                       /\ p[u] = "close" <=> pc[u] = "close"
  BY <1>1, <1>2, <1>3, Zenon
<1>8. /\ runtime \in [Turns -> Runtimes \cup {NoRuntime}]
      /\ \A u \in Turns : pc[u] \in {"run", "close"} => runtime[u] # r
      /\ \A u \in Turns : runtime[u] # r
      /\ r # NoRuntime /\ r # victim /\ \A k \in 1..slot_count : slots[k].runtime # r
  <2>1. \A u \in Turns : pc[u] \in {"run", "close"} => runtime[u] # r
    BY <1>1, HoldersOpen, Zenon
  <2>2. r # NoRuntime
    BY <1>1, Zenon
  <2>3. \A u \in Turns : runtime[u] # r
    BY <1>held, <2>1, <2>2, Zenon DEF Held
  <2>4. r # victim
    BY <1>held, <1>1, <2>2 DEF Held
  <2>5. \A k \in 1..slot_count : slots[k].runtime # r
    BY <1>filled, <1>1 DEF Filled
  <2> QED BY <1>type, <2>1, <2>2, <2>3, <2>4, <2>5, Zenon DEF TypeOK
<1>9. CASE stopping \/ slot_count >= MaxWorkers
  <2>1. /\ runtime' = [runtime EXCEPT ![t] = r] /\ pc' = [Woken EXCEPT ![t] = "close"]
        /\ starting_workers' = starting_workers - 1
        /\ UNCHANGED <<slots, slot_count, waiting_turns, outstanding_turns, stopping, queued>>
    BY <1>9, Zenon DEF RuntimeOpened, Unwanted
  <2>2. /\ pc' \in [Turns -> Places] /\ pc'[t] = "close"
        /\ \A u \in Turns \ {t} : pc'[u] = p[u]
    BY <1>2, <1>3, <2>1, Zenon DEF Places
  <2>3. /\ runtime' \in [Turns -> Runtimes \cup {NoRuntime}] /\ runtime'[t] = r
        /\ \A u \in Turns \ {t} : runtime'[u] = runtime[u]
    BY <1>1, <1>8, <2>1, Zenon
  <2>4. Going(pc') = Going(p) /\ Opening(pc') = Opening(p)
    BY <1>2, <2>2, Zenon DEF Going, Opening
  <2>5. \A u \in Turns \ {t} : /\ pc'[u] = "run" <=> pc[u] = "run"
                               /\ pc'[u] = "close" <=> pc[u] = "close"
    BY <1>7, <2>2, Zenon
  <2> HIDE DEF p
  <2>6. TypeOK'
    BY <1>type, <1>1, <1>5, <2>1, <2>2, <2>3, Zenon DEF TypeOK, Places
  <2>7. Counts(slot_count, starting_workers, pc)'
    <3>1. slot_count \in Nat /\ starting_workers \in Nat /\ MaxWorkers \in Nat
      BY <1>type DEF TypeOK
    <3> QED BY <1>counts, <1>4, <1>5, <2>1, <2>4, <3>1, SMTT(20) DEF Counts
  <2>8. Phases(slot_count, pc)'
    BY <1>phases, <1>1, <1>4, <2>1, <2>4, Zenon DEF Phases
  <2>9. Filled(slots, slot_count, opened)'
    BY <1>filled, <1>1, <2>1, Zenon DEF Filled
  <2>10. Held(slots, slot_count, pc, opened)'
    <3>1. \A u \in Turns : pc'[u] \notin {"run", "close"} => runtime'[u] = NoRuntime
      BY <1>held, <2>2, <2>3, <2>5, ZenonT(60) DEF Held
    <3>2. \A u \in Turns : pc'[u] = "close" =>
            runtime'[u] \in opened' /\ runtime'[u] # victim /\ \A i \in 1..slot_count : slots[i].runtime # runtime'[u]
      BY <1>held, <1>1, <1>8, <2>3, <2>5, SMTT(20) DEF Held
    <3>3. \A u, v \in Turns : pc'[u] \in {"run", "close"} /\ runtime'[u] = runtime'[v] => u = v
      BY <1>held, <1>8, <2>3, <2>5 DEF Held
    <3>4. victim # NoRuntime => victim \in opened' /\ \A i \in 1..slot_count : slots[i].runtime # victim
      BY <1>held, <1>1, Zenon DEF Held
    <3> QED BY <1>held, <1>1, <1>6, <2>1, <3>1, <3>2, <3>3, <3>4 DEF Held
  <2>11. Running(slots, slot_count, pc)'
    <3>1. \A u \in Turns : pc'[u] = "run" => pc[u] = "run" /\ runtime'[u] = runtime[u]
      BY <2>2, <2>3, <2>5, Zenon
    <3> QED BY <1>running, <2>1, <3>1 DEF Running
  <2>12. Kept(slots, slot_count, pc, opened)'
    <3>1. \A u \in Turns : pc[u] = "close" => pc'[u] = "close" /\ runtime'[u] = runtime[u]
      BY <1>1, <2>3, <2>5, Zenon
    <3> QED BY <1>kept, <1>1, <2>1, <2>2, <2>3, <3>1 DEF Kept
  <2>13. Asleep(slots, slot_count, starting_workers, pc)'
    <3>1. \A u \in Turns : pc'[u] # "wait"
      BY <1>3, <2>2, Zenon
    <3> QED BY <1>asleep, <3>1, Zenon DEF Asleep
  <2> QED BY <2>6, <2>7, <2>8, <2>9, <2>10, <2>11, <2>12, <2>13, ZenonT(60) DEF IInv, Sound
<1>10. CASE ~(stopping \/ slot_count >= MaxWorkers)
  <2> DEFINE new == [Empty EXCEPT !.runtime = r, !.elastic = TRUE]
  <2> DEFINE S == [slots EXCEPT ![slot_count + 1] = new]
  <2> DEFINE n == slot_count + 1
  <2>1. stopping = FALSE /\ n \in Index /\ n \in 0..MaxWorkers
    BY <1>type, <1>10 DEF TypeOK, Index
  <2>2. new \in Slot /\ new.runtime = r /\ new.busy = FALSE
    BY <1>1, Zenon DEF Slot, Empty
  <2>3. /\ S \in [Index -> Slot] /\ S[n] = new /\ \A k \in Index \ {n} : S[k] = slots[k]
    BY <1>type, <2>1, <2>2, Zenon DEF TypeOK
  <2>4. \A k \in 1..n : k = n \/ (k \in 1..slot_count /\ S[k] = slots[k])
    BY <1>type, <2>1, <2>3 DEF TypeOK, Index
  <2>5. \A k \in 1..slot_count : k \in 1..n /\ S[k] = slots[k]
    BY <1>type, <2>1, <2>3 DEF TypeOK, Index
  <2>6. Pass(t, S, n, starting_workers - 1, Woken)
    BY <1>10, Zenon DEF RuntimeOpened
  <2> HIDE DEF new, S
  <2>7. Counts(n, starting_workers - 1, p)
    BY <1>type, <1>counts, <1>4, <1>5, Zenon DEF TypeOK, Counts
  <2>8. Phases(n, p)
    BY <1>type, <1>phases, <1>4, <1>6 DEF TypeOK, Phases
  <2>9. Filled(S, n, opened \cup {r})
    <3>1. \A k \in Index : k > n => S[k] = Empty
      <4> SUFFICES ASSUME NEW k \in Index, k > n PROVE S[k] = Empty
        BY Zenon
      <4>1. k # n /\ k > slot_count
        BY <1>type DEF TypeOK, Index
      <4> QED BY <1>filled, <2>3, <4>1, Zenon DEF Filled
    <3>2. \A k \in 1..n : S[k].runtime \in opened \cup {r}
      BY <1>filled, <2>2, <2>3, <2>4, Zenon DEF Filled
    <3>3. \A j, k \in 1..n : S[j].runtime = S[k].runtime => j = k
      BY <1>filled, <1>8, <2>2, <2>3, <2>4 DEF Filled
    <3>4. \A k \in 1..n : k <= MinWorkers => S[k].elastic = FALSE
      <4>1. slot_count >= MinWorkers
        BY <1>phases, <1>6, Zenon DEF Phases
      <4> QED BY <1>type, <1>filled, <2>4, <4>1 DEF TypeOK, Filled
    <3>5. \A j, k \in 1..n : S[j].busy = TRUE /\ S[k].busy = TRUE /\ S[j].session = S[k].session => j = k
      BY <1>filled, <2>2, <2>3, <2>4, Zenon DEF Filled
    <3> QED BY <3>1, <3>2, <3>3, <3>4, <3>5, Zenon DEF Filled
  <2>10. Held(S, n, p, opened \cup {r})
    <3>1. \A u \in Turns : p[u] \notin {"run", "close"} => runtime[u] = NoRuntime
      BY <1>held, <1>7, Zenon DEF Held
    <3>2. \A u \in Turns : p[u] = "close" =>
            runtime[u] \in opened \cup {r} /\ runtime[u] # victim /\ \A i \in 1..n : S[i].runtime # runtime[u]
      BY <1>held, <1>7, <1>8, <2>2, <2>3, <2>4 DEF Held
    <3>3. \A u, v \in Turns : p[u] \in {"run", "close"} /\ runtime[u] = runtime[v] => u = v
      BY <1>held, <1>7 DEF Held
    <3>4. victim # NoRuntime => victim \in opened \cup {r} /\ \A i \in 1..n : S[i].runtime # victim
      BY <1>held, <1>8, <2>2, <2>3, <2>4, Zenon DEF Held
    <3> QED BY <1>held, <1>6, <3>1, <3>2, <3>3, <3>4, Zenon DEF Held
  <2>11. Running(S, n, p)
    <3> SUFFICES ASSUME NEW u \in Turns, p[u] = "run"
                 PROVE  \E k \in 1..n : /\ S[k].runtime = runtime[u] /\ S[k].busy = TRUE
                                        /\ S[k].session = SessionOf[u]
      BY Zenon DEF Running
    <3>1. PICK k \in 1..slot_count : /\ slots[k].runtime = runtime[u] /\ slots[k].busy = TRUE
                                     /\ slots[k].session = SessionOf[u]
      BY <1>running, <1>7, Zenon DEF Running
    <3> QED BY <2>5, <3>1, Zenon
  <2>12. Kept(S, n, p, opened \cup {r})
    <3>1. \E k \in 1..n : S[k].runtime = r
      BY <2>1, <2>2, <2>3 DEF Index
    <3> QED BY <1>kept, <1>7, <2>5, <3>1 DEF Kept
  <2>13. Asleep(S, n, starting_workers - 1, p)
    BY <1>asleep, <1>2, <1>3, Zenon DEF Asleep
  <2>14. Sound(S, n, starting_workers - 1, p, opened \cup {r})
    BY <2>7, <2>8, <2>9, <2>10, <2>11, <2>12, <2>13, Zenon DEF Sound
  <2>15. opened \cup {r} \in SUBSET Runtimes
    BY <1>type, <1>1, Zenon DEF TypeOK
  <2>16. \A u \in Turns \ {t} : Woken[u] = p[u]
    BY <1>3, Zenon
  <2> HIDE DEF n
  <2>17. IInv'
    BY <1>type, <1>1, <1>2, <1>5, <2>1, <2>3, <2>6, <2>14, <2>15, <2>16, PassKeeps, ZenonT(30)
  <2> QED BY <2>17, Zenon
<1> QED BY <1>9, <1>10, Zenon DEF IInv, Sound

\* The turns are finitely many, so sets of them can be counted.
LEMMA TurnsCounted ==
  ASSUME NEW A \in SUBSET Turns
  PROVE  /\ Cardinality(A) \in Nat /\ (Cardinality(A) = 0 => A = {})
         /\ \A t \in Turns \ A : Cardinality(A \cup {t}) = Cardinality(A) + 1
         /\ \A t \in A : Cardinality(A \ {t}) = Cardinality(A) - 1
<1>1. IsFiniteSet(A)
  BY PoolAssumption, FS_Subset, Zenon
<1>2. Cardinality(A) \in Nat
  BY <1>1, FS_CardinalityType, Zenon
<1>3. Cardinality(A) = 0 => A = {}
  BY <1>1, FS_EmptySet, Zenon
<1>4. ASSUME NEW t \in Turns \ A PROVE Cardinality(A \cup {t}) = Cardinality(A) + 1
  BY <1>1, <1>4, FS_AddElement, Zenon
<1>5. ASSUME NEW t \in A PROVE Cardinality(A \ {t}) = Cardinality(A) - 1
  BY <1>1, <1>5, FS_RemoveElement, Zenon
<1> QED BY <1>2, <1>3, <1>4, <1>5, Zenon

\* A set of natural numbers that is not empty has a least element.
LEMMA LeastElement ==
  ASSUME NEW T, T \subseteq Nat, T # {}
  PROVE  \E x \in T : \A y \in T : x <= y
<1>1. IsWellFoundedOn(OpToRel(<, Nat), Nat)
  BY NatLessThanWellFounded, Zenon
<1>2. PICK x \in T : \A y \in T : ~(<<y, x>> \in OpToRel(<, Nat))
  BY <1>1, WFMin, Zenon
<1>3. ASSUME NEW y \in T PROVE ~(y < x)
  BY <1>2, Zenon DEF OpToRel
<1> QED BY <1>3

LEMMA CountingHolds ==
  Counting
<1>1. Cardinality({}) = 0
  BY FS_EmptySet, Zenon
<1>2. ASSUME NEW T \in SUBSET Nat, T # {} PROVE \E x \in T : \A y \in T : x <= y
  BY <1>2, LeastElement, Zenon
<1> QED BY <1>1, <1>2, TurnsCounted, Zenon DEF Counting

\* fcgi_bridge_init establishes the invariant.
LEMMA InitInvariant ==
  ASSUME Counting, Init
  PROVE  IInv
<1> USE PoolAssumption
<1>1. First \in [1..MinWorkers -> Runtimes] /\ \A i, j \in 1..MinWorkers : First[i] = First[j] => i = j
  BY Zenon DEF First
<1>2. /\ slots \in [Index -> Slot]
      /\ \A i \in Index : i > MinWorkers => slots[i] = Empty
      /\ \A i \in 1..MinWorkers : /\ i \in Index /\ slots[i].runtime = First[i]
                                  /\ slots[i].busy = FALSE /\ slots[i].elastic = FALSE
  <2>1. \A i \in Index : slots[i] = IF i <= MinWorkers THEN [Empty EXCEPT !.runtime = First[i]] ELSE Empty
    BY Zenon DEF Init
  <2>2. \A i \in Index : i <= MinWorkers <=> i \in 1..MinWorkers
    BY DEF Index
  <2>3. \A i \in 1..MinWorkers : i \in Index /\ First[i] \in Runtimes
    BY <1>1 DEF Index
  <2>4. Empty \in Slot
    BY Zenon DEF Empty, Slot
  <2>5. \A i \in 1..MinWorkers : /\ [Empty EXCEPT !.runtime = First[i]] \in Slot
                                 /\ [Empty EXCEPT !.runtime = First[i]].runtime = First[i]
                                 /\ [Empty EXCEPT !.runtime = First[i]].busy = FALSE
                                 /\ [Empty EXCEPT !.runtime = First[i]].elastic = FALSE
    BY <2>3, Zenon DEF Empty, Slot
  <2>6. slots = [i \in Index |-> slots[i]]
    BY Zenon DEF Init
  <2>7. \A i \in Index : slots[i] \in Slot
    BY <2>1, <2>2, <2>4, <2>5, ZenonT(60)
  <2>8. slots \in [Index -> Slot]
    BY <2>6, <2>7, Zenon
  <2>9. \A i \in Index : i > MinWorkers => ~(i <= MinWorkers)
    BY DEF Index
  <2> QED BY <2>1, <2>2, <2>3, <2>5, <2>8, <2>9, Zenon
<1>3. \A t \in Turns : pc[t] = "new" /\ runtime[t] = NoRuntime
  BY Zenon DEF Init
<1>4. Going(pc) = {} /\ Opening(pc) = {}
  BY <1>3, Zenon DEF Going, Opening
<1>5. TypeOK
  <2>1. opened \subseteq Runtimes
    BY <1>1 DEF Init
  <2>2. slot_count \in 0..MaxWorkers
    BY DEF Init
  <2> QED BY <1>2, <2>1, <2>2, Zenon DEF Init, TypeOK
<1>6. Counts(slot_count, starting_workers, pc)
  <2>1. Cardinality({}) = 0
    BY Zenon DEF Counting
  <2>2. Cardinality(Going(pc)) = 0 /\ Cardinality(Opening(pc)) = 0
    BY <1>4, <2>1, Zenon
  <2>3. queued = {} /\ waiting_turns = 0 /\ starting_workers = 0 /\ outstanding_turns = 0
        /\ slot_count = MinWorkers
    BY Zenon DEF Init
  <2> QED BY <2>1, <2>2, <2>3 DEF Counts
<1>7. Phases(slot_count, pc)
  BY DEF Init, Phases
<1>8. Filled(slots, slot_count, opened)
  <2>1. slot_count = MinWorkers /\ \A i \in 1..MinWorkers : First[i] \in opened
    BY Zenon DEF Init
  <2>2. \A i, j \in 1..slot_count : slots[i].runtime = slots[j].runtime => i = j
    BY <1>1, <1>2, <2>1
  <2> QED BY <1>2, <2>1, <2>2, Zenon DEF Filled
<1>9. Held(slots, slot_count, pc, opened)
  BY <1>3, Zenon DEF Init, Held
<1>10. Running(slots, slot_count, pc) /\ Asleep(slots, slot_count, starting_workers, pc)
  BY <1>3, Zenon DEF Running, Asleep
<1>11. Kept(slots, slot_count, pc, opened)
  BY <1>2 DEF Init, Kept
<1> QED BY <1>5, <1>6, <1>7, <1>8, <1>9, <1>10, <1>11, ZenonT(60) DEF IInv, Sound

\* Every step keeps the invariant.
LEMMA StepKeeps ==
  ASSUME Counting, IInv, [Next]_vars
  PROVE  IInv'
<1>1. ASSUME NEW t \in Turns, Turn(t) PROVE IInv'
  BY <1>1, AcquireKeeps, StoppedKeeps, OpenedKeeps, FailsKeeps, UnwantedCloseKeeps, ReleaseKeeps,
     EndKeeps, Zenon DEF Turn
<1>2. CASE Reaper
  BY <1>2, ReaperTakesKeeps, ReaperClosesKeeps, ReaperStopsKeeps, Zenon DEF Reaper
<1>3. CASE Shutdown
  BY <1>3, ShutdownBeginsKeeps, ShutdownJoinsKeeps, ShutdownTakesKeeps, ShutdownClosesKeeps, Zenon
     DEF Shutdown
<1>4. CASE UNCHANGED vars
  <2> USE DEF IInv, Sound
  <2>1. UNCHANGED <<slots, slot_count, starting_workers, waiting_turns, outstanding_turns, stopping,
                    pc, runtime, queued, opened, reaper, victim, main, doomed>>
    BY <1>4, Zenon DEF vars, pool, turn
  <2>2. TypeOK' /\ Counts(slot_count, starting_workers, pc)'
    BY <2>1, Zenon DEF TypeOK, Counts
  <2>3. Phases(slot_count, pc)'
    BY <2>1, Zenon DEF Phases
  <2>4. Filled(slots, slot_count, opened)'
    BY <2>1, Zenon DEF Filled
  <2>5. SameHolders
    BY <2>1, Zenon DEF SameHolders
  <2>6. /\ Held(slots, slot_count, pc, opened)' /\ Running(slots, slot_count, pc)'
        /\ Kept(slots, slot_count, pc, opened)'
    BY <2>1, <2>5, HoldersFrame, Zenon
  <2>7. Asleep(slots, slot_count, starting_workers, pc)'
    BY <2>1, AsleepFrame, Zenon
  <2> QED BY <2>2, <2>3, <2>4, <2>6, <2>7, Zenon
<1> QED BY <1>1, <1>2, <1>3, <1>4, PostKeeps, TimesOutKeeps, Zenon DEF Next

\* Held, Filled and Kept together say that a runtime has exactly one owner.
LEMMA OneOwner ==
  IInv => NothingLeaked
<1> SUFFICES ASSUME IInv PROVE NothingLeaked
  BY Zenon
<1> USE PoolAssumption
<1>type. TypeOK
  BY Zenon DEF IInv
<1>phases. Phases(slot_count, pc)
  BY Zenon DEF IInv, Sound
<1>filled. Filled(slots, slot_count, opened)
  BY Zenon DEF IInv, Sound
<1>held. Held(slots, slot_count, pc, opened)
  BY Zenon DEF IInv, Sound
<1>kept. Kept(slots, slot_count, pc, opened)
  BY Zenon DEF IInv, Sound
<1> DEFINE InSlot(r) == {i \in 1..slot_count : slots[i].runtime = r}
<1> DEFINE AtTurn(r) == {t \in Turns : pc[t] = "close" /\ runtime[t] = r}
<1> DEFINE AtReaper(r) == {v \in {victim} : v = r}
<1> DEFINE InDoomed(r) == {i \in Index : doomed[i] = r}
<1>1. main \in {"close", "done"} => /\ slot_count = 0 /\ victim = NoRuntime
                                   /\ \A t \in Turns : pc[t] # "close"
  BY <1>type, <1>phases, Zenon DEF TypeOK, Phases, Going
<1>2. main \notin {"close", "done"} => \A i \in Index : doomed[i] = NoRuntime
  BY <1>type, <1>phases, Zenon DEF TypeOK, Phases
<1>3. ASSUME NEW r \in opened
      PROVE  \E o \in Owners(r) : Owners(r) = {o}
  <2>1. r # NoRuntime
    BY <1>type, Zenon DEF TypeOK
  <2>2. CASE \E i \in 1..slot_count : slots[i].runtime = r
    <3>1. PICK i \in 1..slot_count : slots[i].runtime = r
      BY <2>2, Zenon
    <3>2. InSlot(r) = {i}
      BY <1>filled, <3>1 DEF Filled
    <3>3. AtTurn(r) = {} /\ AtReaper(r) = {}
      BY <1>held, <2>1, <3>1 DEF Held
    <3>4. InDoomed(r) = {}
      BY <1>type, <1>1, <1>2, <2>1, <3>1 DEF TypeOK
    <3>5. Owners(r) = {<<"slot", i>>}
      BY <3>2, <3>3, <3>4 DEF Owners
    <3> QED BY <3>5, Zenon
  <2>3. CASE \E t \in Turns : pc[t] = "close" /\ runtime[t] = r
    <3>1. PICK t \in Turns : pc[t] = "close" /\ runtime[t] = r
      BY <2>3, Zenon
    <3>2. InSlot(r) = {} /\ AtReaper(r) = {}
      BY <1>held, <3>1 DEF Held
    <3>3. AtTurn(r) = {t}
      BY <1>held, <3>1, ZenonT(60) DEF Held
    <3>4. InDoomed(r) = {}
      BY <1>type, <1>1, <1>2, <2>1, <3>1, Zenon DEF TypeOK
    <3>5. Owners(r) = {<<"turn", t>>}
      BY <3>2, <3>3, <3>4 DEF Owners
    <3> QED BY <3>5, Zenon
  <2>4. CASE victim = r
    <3>1. InSlot(r) = {} /\ AtTurn(r) = {}
      BY <1>held, <2>1, <2>4 DEF Held
    <3>2. AtReaper(r) = {r}
      BY <2>4, Zenon
    <3>3. InDoomed(r) = {}
      BY <1>type, <1>1, <1>2, <2>1, <2>4, ZenonT(60) DEF TypeOK
    <3>4. Owners(r) = {<<"reaper", r>>}
      BY <3>1, <3>2, <3>3 DEF Owners
    <3> QED BY <3>4, Zenon
  <2>5. CASE \E i \in Index : doomed[i] = r
    <3>1. PICK i \in Index : doomed[i] = r
      BY <2>5, Zenon
    <3>2. InSlot(r) = {} /\ AtTurn(r) = {} /\ AtReaper(r) = {}
      BY <1>type, <1>1, <1>2, <2>1, <3>1 DEF TypeOK
    <3>3. InDoomed(r) = {i}
      BY <1>held, <2>1, <3>1, Zenon DEF Held
    <3>4. Owners(r) = {<<"shutdown", i>>}
      BY <3>2, <3>3 DEF Owners
    <3> QED BY <3>4, Zenon
  <2> QED BY <1>kept, <2>2, <2>3, <2>4, <2>5, Zenon DEF Kept
<1>4. ASSUME NEW r \in Runtimes \ opened
      PROVE  Owners(r) = {}
  <2>1. r # NoRuntime
    BY Zenon
  <2>2. InSlot(r) = {}
    BY <1>filled DEF Filled
  <2>3. AtTurn(r) = {}
    BY <1>held DEF Held
  <2>4. AtReaper(r) = {}
    BY <1>held, <2>1 DEF Held
  <2>5. InDoomed(r) = {}
    BY <1>held, <2>1 DEF Held
  <2> QED BY <2>2, <2>3, <2>4, <2>5, Zenon DEF Owners
<1> QED BY <1>3, <1>4, Zenon DEF NothingLeaked, IInv, Sound

\* The invariant is strong enough.
LEMMA InvariantImplies ==
  IInv => PoolSound
<1> SUFFICES ASSUME IInv PROVE PoolSound
  BY Zenon
<1> USE PoolAssumption
<1>type. TypeOK
  BY Zenon DEF IInv
<1>counts. Counts(slot_count, starting_workers, pc)
  BY Zenon DEF IInv, Sound
<1>phases. Phases(slot_count, pc)
  BY Zenon DEF IInv, Sound
<1>filled. Filled(slots, slot_count, opened)
  BY Zenon DEF IInv, Sound
<1>held. Held(slots, slot_count, pc, opened)
  BY Zenon DEF IInv, Sound
<1>running. Running(slots, slot_count, pc)
  BY Zenon DEF IInv, Sound
<1>asleep. Asleep(slots, slot_count, starting_workers, pc)
  BY Zenon DEF IInv, Sound
<1>1. \A i \in 1..slot_count : i \in Index /\ slots[i].busy \in BOOLEAN /\ slots[i].elastic \in BOOLEAN
  BY <1>type DEF TypeOK, Slot, Index
<1>2. TurnsExclusive
  <2>1. ASSUME NEW t \in Turns, pc[t] = "run"
        PROVE  /\ runtime[t] \in opened
               /\ \E i \in 1..slot_count :
                    slots[i].runtime = runtime[t] /\ slots[i].busy /\ slots[i].session = SessionOf[t]
    BY <1>running, <2>1, HoldersOpen, Zenon DEF Running
  <2>2. ASSUME NEW t \in Turns, NEW u \in Turns, pc[t] = "run", pc[u] = "run", t # u
        PROVE  runtime[t] # runtime[u] /\ SessionOf[t] # SessionOf[u]
    <3>1. runtime[t] # runtime[u]
      BY <1>held, <2>2, Zenon DEF Held
    <3>2. PICK i \in 1..slot_count :
            slots[i].runtime = runtime[t] /\ slots[i].busy = TRUE /\ slots[i].session = SessionOf[t]
      BY <1>running, <2>2, Zenon DEF Running
    <3>3. PICK j \in 1..slot_count :
            slots[j].runtime = runtime[u] /\ slots[j].busy = TRUE /\ slots[j].session = SessionOf[u]
      BY <1>running, <2>2, Zenon DEF Running
    <3> QED BY <1>filled, <3>1, <3>2, <3>3, Zenon DEF Filled
  <2> QED BY <2>1, <2>2, Zenon DEF TurnsExclusive
<1>3. PoolBounded
  <2>1. slot_count + starting_workers <= MaxWorkers /\ waiting_turns <= QueueMax
    BY <1>counts, Zenon DEF Counts
  <2>2. main \notin {"close", "done"} =>
          /\ slot_count >= MinWorkers
          /\ \A i \in 1..MinWorkers : ~slots[i].elastic /\ slots[i].runtime \in opened
    <3> SUFFICES ASSUME main \notin {"close", "done"}
                 PROVE  /\ slot_count >= MinWorkers
                        /\ \A i \in 1..MinWorkers : ~slots[i].elastic /\ slots[i].runtime \in opened
      BY Zenon
    <3>1. slot_count >= MinWorkers
      BY <1>phases, Zenon DEF Phases
    <3>2. \A i \in 1..MinWorkers : i \in 1..slot_count /\ i <= MinWorkers
      BY <1>type, <3>1 DEF TypeOK
    <3>3. \A i \in 1..MinWorkers : slots[i].elastic = FALSE /\ slots[i].runtime \in opened
      BY <1>filled, <3>2, Zenon DEF Filled
    <3> QED BY <3>1, <3>3, Zenon
  <2>3. (\E t \in Turns : pc[t] \notin {"new", "done"}) => main \notin {"close", "done"}
    BY <1>phases, Zenon DEF Phases, Going
  <2> QED BY <1>type, <2>1, <2>2, <2>3, Zenon DEF PoolBounded
<1>4. NoLostWakeup
  <2> SUFFICES ASSUME NEW t \in Turns, pc[t] = "wait"
               PROVE  /\ ~stopping
                      /\ \/ session_busy(t, slots, slot_count)
                         \/ /\ free_slots(slots, slot_count) = {}
                            /\ ~may_grow(slot_count, starting_workers)
    BY Zenon DEF NoLostWakeup
  <2>1. stopping = FALSE
    BY <1>asleep, Zenon DEF Asleep
  <2>2. CASE \E i \in 1..slot_count : slots[i].busy = TRUE /\ slots[i].session = SessionOf[t]
    BY <2>1, <2>2, Zenon DEF session_busy
  <2>3. CASE (\A i \in 1..slot_count : slots[i].busy = TRUE) /\ slot_count + starting_workers >= MaxWorkers
    BY <1>type, <2>1, <2>3 DEF TypeOK, free_slots, may_grow
  <2> QED BY <1>asleep, <2>2, <2>3, Zenon DEF Asleep
<1> QED BY <1>2, <1>3, <1>4, OneOwner, Zenon DEF PoolSound, IInv, Sound

\* The invariant holds in every state.
LEMMA Invariant ==
  Spec => []IInv
<1>1. Init => IInv
  BY CountingHolds, InitInvariant, Zenon
<1>2. IInv /\ [Next]_vars => IInv'
  BY CountingHolds, StepKeeps, Zenon
<1> QED BY <1>1, <1>2, PTL DEF Spec

\* Whatever the sizes of the pool and of its queue and however many turns there
\* are, turns are exclusive, the bounds are kept, every open runtime has exactly
\* one owner and no turn sleeps beside a free slot (agent_bridge.c).
THEOREM Pooled ==
  Spec => []PoolSound
BY Invariant, InvariantImplies, PTL
=============================================================================
