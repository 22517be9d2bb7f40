-------------------------- MODULE ServerPoolSteps --------------------------
(***************************************************************************)
(* The inductive invariant of ServerPool, and that the steps of the turns, *)
(* the reaper and the shutdown keep it, the two steps that look for a slot *)
(* apart: those are in ServerPoolProofs.                                   *)
(*                                                                         *)
(* PoolSound is not inductive: that the shutdown finds no turn under way   *)
(* rests on outstanding_turns counting them, that the pool keeps its size  *)
(* on starting_workers counting those that open a runtime, and that a      *)
(* runtime has one owner on the slots in use being full and distinct.      *)
(* Opening a runtime and looking at the pool again is one step of the      *)
(* code, so the parts of the invariant take the slots, the counters and    *)
(* the places of the turns as parameters: the pool between the two halves  *)
(* satisfies them too (Sound in OpenedKeeps), and PassKeeps goes on there. *)
(***************************************************************************)
EXTENDS ServerPool, TLAPS

\* The turns that fcgi_bridge_turn_begin has counted.
Going(p) == {t \in Turns : p[t] \notin {"new", "done"}}
\* The turns inside bridge_runtime_open.
Opening(p) == {t \in Turns : p[t] = "open"}

\* The counters of the pool count what they are meant to, within the bounds.
Counts(n, starting, p) ==
  /\ outstanding_turns = Cardinality(Going(p))
  /\ starting = Cardinality(Opening(p)) /\ n + starting <= MaxWorkers
  /\ waiting_turns = Cardinality(queued) /\ waiting_turns <= QueueMax

\* What the shutdown and the reaper have reached says what is left of the pool.
Phases(n, p) ==
  /\ (stopping = TRUE) <=> (main # "serve")
  /\ main \in {"drain", "close", "done"} => reaper = "done"
  /\ main \in {"close", "done"} => n = 0 /\ Going(p) = {}
  /\ main \notin {"close", "done"} => n >= MinWorkers /\ doomed = [i \in Index |-> NoRuntime]
  /\ main = "done" => doomed = [i \in Index |-> NoRuntime]
  /\ (reaper = "close") <=> (victim # NoRuntime)

\* The slots in use hold different open runtimes, and busy ones different
\* sessions; the others are empty.
Filled(S, n, o) ==
  /\ \A i \in Index : i > n => S[i] = Empty
  /\ \A i \in 1..n : S[i].runtime \in o
  /\ \A i, j \in 1..n : S[i].runtime = S[j].runtime => i = j
  /\ \A i \in 1..n : i <= MinWorkers => S[i].elastic = FALSE
  /\ \A i, j \in 1..n : S[i].busy = TRUE /\ S[j].busy = TRUE /\ S[i].session = S[j].session => i = j

\* A turn, the reaper and the shutdown hold open runtimes that nobody else holds.
Held(S, n, p, o) ==
  /\ \A t \in Turns : p[t] \notin {"run", "close"} => runtime[t] = NoRuntime
  /\ \A t \in Turns : p[t] = "close" =>
       runtime[t] \in o /\ runtime[t] # victim /\ \A i \in 1..n : S[i].runtime # runtime[t]
  /\ \A t, u \in Turns : p[t] \in {"run", "close"} /\ runtime[t] = runtime[u] => t = u
  /\ victim # NoRuntime => victim \in o /\ \A i \in 1..n : S[i].runtime # victim
  /\ \A i \in Index : doomed[i] # NoRuntime => doomed[i] \in o
  /\ \A i, j \in Index : doomed[i] # NoRuntime /\ doomed[i] = doomed[j] => i = j

\* A running turn has its slot.
Running(S, n, p) ==
  \A t \in Turns : p[t] = "run" => \E i \in 1..n :
     S[i].runtime = runtime[t] /\ S[i].busy = TRUE /\ S[i].session = SessionOf[t]

\* Every open runtime is held by someone.
Kept(S, n, p, o) ==
  \A r \in o : \/ \E i \in 1..n : S[i].runtime = r
               \/ \E t \in Turns : p[t] = "close" /\ runtime[t] = r
               \/ victim = r
               \/ \E i \in Index : doomed[i] = r

\* A turn that sleeps has nothing to wake up for.
Asleep(S, n, starting, p) ==
  \A t \in Turns : p[t] = "wait" =>
    /\ stopping = FALSE
    /\ \/ \E i \in 1..n : S[i].busy = TRUE /\ S[i].session = SessionOf[t]
       \/ (\A i \in 1..n : S[i].busy = TRUE) /\ n + starting >= MaxWorkers

\* The inductive invariant: slots S of which n are used while `starting` more
\* are opened, turns at p, open runtimes o.
Sound(S, n, starting, p, o) ==
  /\ Counts(n, starting, p) /\ Phases(n, p) /\ Filled(S, n, o) /\ Held(S, n, p, o)
  /\ Running(S, n, p) /\ Kept(S, n, p, o) /\ Asleep(S, n, starting, p)

IInv == TypeOK /\ Sound(slots, slot_count, starting_workers, pc, opened)

---------------------------------------------------------------------------
\* What the proofs below use of cardinalities and of least elements.
Counting ==
  /\ Cardinality({}) = 0
  /\ \A A \in SUBSET Turns :
       /\ Cardinality(A) \in Nat /\ (Cardinality(A) = 0 => A = {})
       /\ \A t \in Turns \ A : Cardinality(A \cup {t}) = Cardinality(A) + 1
       /\ \A t \in A : Cardinality(A \ {t}) = Cardinality(A) - 1
  /\ \A T \in SUBSET Nat : T # {} => \E x \in T : \A y \in T : x <= y

\* A set of turns counts one more or one less with one turn.
LEMMA CardinalityOfTurns ==
  ASSUME Counting, NEW A, NEW t \in Turns, A \subseteq Turns
  PROVE  /\ Cardinality(A) \in Nat
         /\ t \notin A => Cardinality(A \cup {t}) = Cardinality(A) + 1
         /\ t \in A => Cardinality(A \ {t}) = Cardinality(A) - 1 /\ Cardinality(A) > 0
<1>1. Cardinality(A) \in Nat /\ (t \notin A => Cardinality(A \cup {t}) = Cardinality(A) + 1)
  BY Zenon DEF Counting
<1>2. ASSUME t \in A PROVE Cardinality(A \ {t}) = Cardinality(A) - 1 /\ Cardinality(A) # 0
  BY <1>2, Zenon DEF Counting
<1> QED BY <1>1, <1>2

\* How the number of turns under way changes when only turn t moves.
LEMMA GoingMoves ==
  ASSUME Counting, NEW p, NEW q, NEW t \in Turns,
         \A u \in Turns \ {t} : (p[u] \in {"new", "done"}) <=> (q[u] \in {"new", "done"})
  PROVE  /\ Cardinality(Going(p)) \in Nat
         /\ t \notin Going(p) /\ t \in Going(q) => Cardinality(Going(q)) = Cardinality(Going(p)) + 1
         /\ t \in Going(p) /\ t \notin Going(q) =>
              Cardinality(Going(q)) = Cardinality(Going(p)) - 1 /\ Cardinality(Going(p)) > 0
         /\ (t \in Going(p)) = (t \in Going(q)) => Going(q) = Going(p)
<1>1. Going(p) \subseteq Turns /\ Going(q) \subseteq Turns
  BY Zenon DEF Going
<1>2. /\ t \notin Going(p) /\ t \in Going(q) => Going(q) = Going(p) \cup {t}
      /\ t \in Going(p) /\ t \notin Going(q) => Going(q) = Going(p) \ {t}
      /\ (t \in Going(p)) = (t \in Going(q)) => Going(q) = Going(p)
  BY Zenon DEF Going
<1> QED BY <1>1, <1>2, CardinalityOfTurns, Zenon

\* The same for the turns that open a runtime.
LEMMA OpeningMoves ==
  ASSUME Counting, NEW p, NEW q, NEW t \in Turns,
         \A u \in Turns \ {t} : (p[u] = "open") <=> (q[u] = "open")
  PROVE  /\ Cardinality(Opening(p)) \in Nat
         /\ t \notin Opening(p) /\ t \in Opening(q) => Cardinality(Opening(q)) = Cardinality(Opening(p)) + 1
         /\ t \in Opening(p) /\ t \notin Opening(q) =>
              Cardinality(Opening(q)) = Cardinality(Opening(p)) - 1 /\ Cardinality(Opening(p)) > 0
         /\ (t \in Opening(p)) = (t \in Opening(q)) => Opening(q) = Opening(p)
<1>1. Opening(p) \subseteq Turns /\ Opening(q) \subseteq Turns
  BY Zenon DEF Opening
<1>2. /\ t \notin Opening(p) /\ t \in Opening(q) => Opening(q) = Opening(p) \cup {t}
      /\ t \in Opening(p) /\ t \notin Opening(q) => Opening(q) = Opening(p) \ {t}
      /\ (t \in Opening(p)) = (t \in Opening(q)) => Opening(q) = Opening(p)
  BY Zenon DEF Opening
<1> QED BY <1>1, <1>2, CardinalityOfTurns, Zenon

\* A turn that leaves the queue is no longer counted.
LEMMA DequeueCounts ==
  ASSUME Counting, TypeOK, waiting_turns = Cardinality(queued), waiting_turns <= QueueMax,
         NEW t \in Turns, Dequeue(t)
  PROVE  /\ waiting_turns' = Cardinality(queued') /\ waiting_turns' <= QueueMax
         /\ waiting_turns' \in Nat /\ queued' \subseteq Turns
<1>1. queued \subseteq Turns /\ waiting_turns = Cardinality(queued) /\ waiting_turns <= QueueMax
  BY Zenon DEF TypeOK
<1>2. Cardinality(queued) \in Nat
  BY <1>1, CardinalityOfTurns, Zenon
<1>3. CASE t \in queued
  <2>1. queued' = queued \ {t} /\ waiting_turns' = waiting_turns - 1
    BY <1>3, Zenon DEF Dequeue
  <2>2. Cardinality(queued \ {t}) = Cardinality(queued) - 1 /\ Cardinality(queued) > 0
    BY <1>1, <1>3, CardinalityOfTurns, Zenon
  <2> QED BY <1>1, <1>2, <2>1, <2>2, PoolAssumption
<1>4. CASE t \notin queued
  <2>1. queued' = queued /\ waiting_turns' = waiting_turns
    BY <1>4, Zenon DEF Dequeue
  <2> QED BY <1>1, <1>2, <2>1, Zenon
<1> QED BY <1>3, <1>4, Zenon

\* bridge release: the slot of the runtime becomes free, the others stay.
LEMMA ReleasedEffect ==
  ASSUME TypeOK, NEW r, slots' = released(r)
  PROVE  /\ slots' \in [Index -> Slot]
         /\ \A i \in Index :
              /\ slots'[i].runtime = slots[i].runtime /\ slots'[i].elastic = slots[i].elastic
              /\ i <= slot_count /\ slots[i].runtime = r =>
                   slots'[i].busy = FALSE /\ slots'[i].session = NoSession
              /\ ~(i <= slot_count /\ slots[i].runtime = r) => slots'[i] = slots[i]
<1>1. \A i \in Index : slots[i] \in Slot
  BY Zenon DEF TypeOK
<1>2. \A i \in Index : [slots[i] EXCEPT !.busy = FALSE, !.session = NoSession] \in Slot
  BY <1>1, Zenon DEF Slot
<1> QED BY <1>1, <1>2, Zenon DEF released, Slot

\* The turns that run or close something are the same.
SameHolders ==
  \A u \in Turns : /\ (pc'[u] = "run") <=> (pc[u] = "run")
                   /\ (pc'[u] = "close") <=> (pc[u] = "close")

\* A step that moves no runtime and no turn that holds one keeps who holds what.
LEMMA HoldersFrame ==
  ASSUME IInv, SameHolders, UNCHANGED <<slots, slot_count, opened, runtime, victim, doomed>>
  PROVE  /\ Held(slots, slot_count, pc, opened)' /\ Running(slots, slot_count, pc)'
         /\ Kept(slots, slot_count, pc, opened)'
<1> USE DEF IInv, Sound, SameHolders
<1>1. Held(slots, slot_count, pc, opened)'
  BY Zenon DEF Held
<1>2. Running(slots, slot_count, pc)'
  BY Zenon DEF Running
<1>3. Kept(slots, slot_count, pc, opened)'
  BY Zenon DEF Kept
<1> QED BY <1>1, <1>2, <1>3, Zenon

\* Nobody falls asleep, and the pool is as it was.
LEMMA AsleepFrame ==
  ASSUME IInv, UNCHANGED <<slots, slot_count, starting_workers, stopping>>,
         \A u \in Turns : pc'[u] = "wait" => pc[u] = "wait"
  PROVE  Asleep(slots, slot_count, starting_workers, pc)'
BY Zenon DEF IInv, Sound, Asleep

\* The runtime of a turn that runs or has one to close is open.
LEMMA HoldersOpen ==
  ASSUME IInv, NEW u \in Turns, pc[u] \in {"run", "close"}
  PROVE  runtime[u] \in opened /\ runtime[u] # NoRuntime
<1>1. runtime[u] \in opened
  <2>1. CASE pc[u] = "run"
    <3>1. PICK i \in 1..slot_count : slots[i].runtime = runtime[u]
      BY <2>1, Zenon DEF IInv, Sound, Running
    <3> QED BY <3>1, Zenon DEF IInv, Sound, Filled
  <2>2. CASE pc[u] = "close"
    BY <2>2, Zenon DEF IInv, Sound, Held
  <2> QED BY <2>1, <2>2, Zenon
<1> QED BY <1>1, PoolAssumption, Zenon DEF IInv, TypeOK

\* handle_post_turn keeps the invariant.
LEMMA PostKeeps ==
  ASSUME Counting, IInv, NEW t \in Turns, handle_post_turn(t)
  PROVE  IInv'
<1> USE PoolAssumption
<1>type. TypeOK
  BY Zenon DEF IInv
<1>counts. Counts(slot_count, starting_workers, pc)
  BY Zenon DEF IInv, Sound
<1>phases. Phases(slot_count, pc)
  BY Zenon DEF IInv, Sound
<1>filled. Filled(slots, slot_count, opened)
  BY Zenon DEF IInv, Sound
<1>p. /\ pc' \in [Turns -> {"new", "acquire", "wait", "open", "close", "run", "end", "done"}]
      /\ pc'[t] \in {"acquire", "end"}
      /\ \A u \in Turns \ {t} : pc'[u] = pc[u] \/ (pc[u] = "wait" /\ pc'[u] = "acquire")
  BY <1>type, ZenonT(60) DEF TypeOK, handle_post_turn
<1>h. /\ Held(slots, slot_count, pc, opened)'
      /\ Running(slots, slot_count, pc)'
      /\ Kept(slots, slot_count, pc, opened)'
  <2>1. SameHolders
    BY <1>p, Zenon DEF SameHolders, handle_post_turn
  <2> QED BY <2>1, HoldersFrame, Zenon DEF handle_post_turn
<1>g. Cardinality(Going(pc')) = Cardinality(Going(pc)) + 1 /\ Cardinality(Going(pc)) \in Nat
  <2>1. \A u \in Turns \ {t} : (pc[u] \in {"new", "done"}) <=> (pc'[u] \in {"new", "done"})
    BY <1>p, Zenon
  <2>2. t \notin Going(pc) /\ t \in Going(pc')
    BY <1>type, <1>p, Zenon DEF TypeOK, Going, handle_post_turn
  <2> QED BY <2>1, <2>2, GoingMoves, Zenon
<1>o. Opening(pc') = Opening(pc) /\ Cardinality(Opening(pc)) \in Nat
  <2>1. \A u \in Turns \ {t} : (pc[u] = "open") <=> (pc'[u] = "open")
    BY <1>p, Zenon
  <2>2. (t \in Opening(pc)) = (t \in Opening(pc'))
    BY <1>type, <1>p DEF TypeOK, Opening, handle_post_turn
  <2> QED BY <2>1, <2>2, OpeningMoves, Zenon
<1>w. /\ waiting_turns' = Cardinality(queued')
      /\ waiting_turns' <= QueueMax
      /\ waiting_turns' \in Nat
      /\ queued' \subseteq Turns
  BY <1>type, <1>counts, Zenon DEF TypeOK, Counts, handle_post_turn
<1>c. /\ Counts(slot_count, starting_workers, pc)'
      /\ outstanding_turns' \in Nat
      /\ starting_workers' \in Nat
  <2>1. slot_count \in Nat
    BY <1>type DEF TypeOK
  <2>2. Counts(slot_count, starting_workers, pc)'
    BY <1>counts, <1>g, <1>o, <1>w, <2>1, Zenon DEF Counts, handle_post_turn
  <2> QED BY <1>g, <1>o, <2>2 DEF Counts
<1>TypeOK. TypeOK'
  BY <1>type, <1>p, <1>c, <1>w, Zenon DEF TypeOK, Slot, Index, Empty, handle_post_turn
<1>Phases. Phases(slot_count, pc)'
  BY <1>type, <1>phases, <1>p, Zenon DEF TypeOK, Phases, Going, Index, handle_post_turn
<1>Filled. Filled(slots, slot_count, opened)'
  BY <1>type, <1>phases, <1>filled, <1>p, Zenon DEF TypeOK, Slot, Index, Filled, Empty, Phases,
     handle_post_turn
<1>Asleep. Asleep(slots, slot_count, starting_workers, pc)'
  <2>1. \A u \in Turns : pc'[u] = "wait" => pc[u] = "wait"
    BY <1>p, Zenon
  <2> QED BY <2>1, AsleepFrame, Zenon DEF handle_post_turn
<1> QED BY <1>c, <1>TypeOK, <1>Phases, <1>Filled, <1>Asleep, <1>h, Zenon DEF IInv, Sound

\* fcgi_bridge_turn_end keeps the invariant.
LEMMA EndKeeps ==
  ASSUME Counting, IInv, NEW t \in Turns, fcgi_bridge_turn_end(t)
  PROVE  IInv'
<1> USE PoolAssumption
<1>type. TypeOK
  BY Zenon DEF IInv
<1>counts. Counts(slot_count, starting_workers, pc)
  BY Zenon DEF IInv, Sound
<1>phases. Phases(slot_count, pc)
  BY Zenon DEF IInv, Sound
<1>filled. Filled(slots, slot_count, opened)
  BY Zenon DEF IInv, Sound
<1>p. /\ pc' \in [Turns -> {"new", "acquire", "wait", "open", "close", "run", "end", "done"}]
      /\ pc'[t] = "done"
      /\ \A u \in Turns \ {t} : pc'[u] = pc[u] \/ (pc[u] = "wait" /\ pc'[u] = "acquire")
  BY <1>type, Zenon DEF TypeOK, fcgi_bridge_turn_end, Woken
<1>h. /\ Held(slots, slot_count, pc, opened)'
      /\ Running(slots, slot_count, pc)'
      /\ Kept(slots, slot_count, pc, opened)'
  <2>1. SameHolders
    BY <1>p, Zenon DEF SameHolders, fcgi_bridge_turn_end, Woken
  <2> QED BY <2>1, HoldersFrame, Zenon DEF fcgi_bridge_turn_end, Woken
<1>g. /\ Cardinality(Going(pc')) = Cardinality(Going(pc)) - 1
      /\ Cardinality(Going(pc)) > 0
      /\ Cardinality(Going(pc)) \in Nat
  <2>1. \A u \in Turns \ {t} : (pc[u] \in {"new", "done"}) <=> (pc'[u] \in {"new", "done"})
    BY <1>p, Zenon
  <2>2. t \in Going(pc) /\ t \notin Going(pc')
    BY <1>type, <1>p, Zenon DEF TypeOK, Going, fcgi_bridge_turn_end, Woken
  <2> QED BY <2>1, <2>2, GoingMoves, Zenon
<1>o. Opening(pc') = Opening(pc) /\ Cardinality(Opening(pc)) \in Nat
  <2>1. \A u \in Turns \ {t} : (pc[u] = "open") <=> (pc'[u] = "open")
    BY <1>p, Zenon
  <2>2. (t \in Opening(pc)) = (t \in Opening(pc'))
    BY <1>type, <1>p DEF TypeOK, Opening, fcgi_bridge_turn_end, Woken
  <2> QED BY <2>1, <2>2, OpeningMoves, Zenon
<1>w. /\ waiting_turns' = Cardinality(queued')
      /\ waiting_turns' <= QueueMax
      /\ waiting_turns' \in Nat
      /\ queued' \subseteq Turns
  BY <1>type, <1>counts, Zenon DEF TypeOK, Counts, fcgi_bridge_turn_end, Woken
<1>c. /\ Counts(slot_count, starting_workers, pc)'
      /\ outstanding_turns' \in Nat
      /\ starting_workers' \in Nat
  <2>1. slot_count \in Nat
    BY <1>type DEF TypeOK
  <2>2. Counts(slot_count, starting_workers, pc)'
    BY <1>counts, <1>g, <1>o, <1>w, <2>1, Zenon DEF Counts, fcgi_bridge_turn_end
  <2> QED BY <1>g, <1>o, <2>2 DEF Counts
<1>TypeOK. TypeOK'
  BY <1>type, <1>p, <1>c, <1>w, Zenon DEF TypeOK, Slot, Index, Empty, fcgi_bridge_turn_end, Woken
<1>Phases. Phases(slot_count, pc)'
  BY <1>type, <1>phases, <1>p, Zenon DEF TypeOK, Phases, Going, Index, fcgi_bridge_turn_end, Woken
<1>Filled. Filled(slots, slot_count, opened)'
  BY <1>type, <1>phases, <1>filled, <1>p, Zenon DEF TypeOK, Slot, Index, Filled, Empty, Phases,
     fcgi_bridge_turn_end, Woken
<1>Asleep. Asleep(slots, slot_count, starting_workers, pc)'
  <2>1. \A u \in Turns : pc'[u] = "wait" => pc[u] = "wait"
    BY <1>p, Zenon
  <2> QED BY <2>1, AsleepFrame, Zenon DEF fcgi_bridge_turn_end
<1> QED BY <1>c, <1>TypeOK, <1>Phases, <1>Filled, <1>Asleep, <1>h, Zenon DEF IInv, Sound

\* A turn that is turned away by a stopping pool.
LEMMA StoppedKeeps ==
  ASSUME Counting, IInv, NEW t \in Turns, AcquireStopped(t)
  PROVE  IInv'
<1> USE PoolAssumption
<1>type. TypeOK
  BY Zenon DEF IInv
<1>counts. Counts(slot_count, starting_workers, pc)
  BY Zenon DEF IInv, Sound
<1>phases. Phases(slot_count, pc)
  BY Zenon DEF IInv, Sound
<1>filled. Filled(slots, slot_count, opened)
  BY Zenon DEF IInv, Sound
<1>p. /\ pc' \in [Turns -> {"new", "acquire", "wait", "open", "close", "run", "end", "done"}]
      /\ pc'[t] = "end"
      /\ \A u \in Turns \ {t} : pc'[u] = pc[u] \/ (pc[u] = "wait" /\ pc'[u] = "acquire")
  BY <1>type, Zenon DEF TypeOK, AcquireStopped, Dequeue
<1>h. /\ Held(slots, slot_count, pc, opened)'
      /\ Running(slots, slot_count, pc)'
      /\ Kept(slots, slot_count, pc, opened)'
  <2>1. SameHolders
    BY <1>p, Zenon DEF SameHolders, AcquireStopped, Dequeue
  <2> QED BY <2>1, HoldersFrame, Zenon DEF AcquireStopped, Dequeue
<1>g. Going(pc') = Going(pc) /\ Cardinality(Going(pc)) \in Nat
  <2>1. \A u \in Turns \ {t} : (pc[u] \in {"new", "done"}) <=> (pc'[u] \in {"new", "done"})
    BY <1>p, Zenon
  <2>2. (t \in Going(pc)) = (t \in Going(pc'))
    BY <1>type, <1>p, ZenonT(60) DEF TypeOK, Going, AcquireStopped, Dequeue
  <2> QED BY <2>1, <2>2, GoingMoves, Zenon
<1>o. Opening(pc') = Opening(pc) /\ Cardinality(Opening(pc)) \in Nat
  <2>1. \A u \in Turns \ {t} : (pc[u] = "open") <=> (pc'[u] = "open")
    BY <1>p, Zenon
  <2>2. (t \in Opening(pc)) = (t \in Opening(pc'))
    BY <1>type, <1>p DEF TypeOK, Opening, AcquireStopped, Dequeue
  <2> QED BY <2>1, <2>2, OpeningMoves, Zenon
<1>w. /\ waiting_turns' = Cardinality(queued')
      /\ waiting_turns' <= QueueMax
      /\ waiting_turns' \in Nat
      /\ queued' \subseteq Turns
  BY <1>type, <1>counts, DequeueCounts, Zenon DEF Counts, AcquireStopped
<1>c. /\ Counts(slot_count, starting_workers, pc)'
      /\ outstanding_turns' \in Nat
      /\ starting_workers' \in Nat
  <2>1. slot_count \in Nat
    BY <1>type DEF TypeOK
  <2>2. Counts(slot_count, starting_workers, pc)'
    BY <1>counts, <1>g, <1>o, <1>w, <2>1, Zenon DEF Counts, AcquireStopped
  <2> QED BY <1>g, <1>o, <2>2, Zenon DEF Counts
<1>TypeOK. TypeOK'
  BY <1>type, <1>p, <1>c, <1>w, Zenon DEF TypeOK, Slot, Index, Empty, AcquireStopped, Dequeue
<1>Phases. Phases(slot_count, pc)'
  BY <1>type, <1>phases, <1>p, Zenon DEF TypeOK, Phases, Going, Index, AcquireStopped, Dequeue
<1>Filled. Filled(slots, slot_count, opened)'
  BY <1>type, <1>phases, <1>filled, <1>p, Zenon DEF TypeOK, Slot, Index, Filled, Empty, Phases,
     AcquireStopped, Dequeue
<1>Asleep. Asleep(slots, slot_count, starting_workers, pc)'
  <2>1. \A u \in Turns : pc'[u] = "wait" => pc[u] = "wait"
    BY <1>p, Zenon
  <2> QED BY <2>1, AsleepFrame, Zenon DEF AcquireStopped
<1> QED BY <1>c, <1>TypeOK, <1>Phases, <1>Filled, <1>Asleep, <1>h, Zenon DEF IInv, Sound

\* A turn whose deadline passes in the queue.
LEMMA TimesOutKeeps ==
  ASSUME Counting, IInv, NEW t \in Turns, AcquireTimesOut(t)
  PROVE  IInv'
<1> USE PoolAssumption
<1>type. TypeOK
  BY Zenon DEF IInv
<1>counts. Counts(slot_count, starting_workers, pc)
  BY Zenon DEF IInv, Sound
<1>phases. Phases(slot_count, pc)
  BY Zenon DEF IInv, Sound
<1>filled. Filled(slots, slot_count, opened)
  BY Zenon DEF IInv, Sound
<1>p. /\ pc' \in [Turns -> {"new", "acquire", "wait", "open", "close", "run", "end", "done"}]
      /\ pc'[t] = "end"
      /\ \A u \in Turns \ {t} : pc'[u] = pc[u] \/ (pc[u] = "wait" /\ pc'[u] = "acquire")
  BY <1>type, Zenon DEF TypeOK, AcquireTimesOut, Dequeue
<1>h. /\ Held(slots, slot_count, pc, opened)'
      /\ Running(slots, slot_count, pc)'
      /\ Kept(slots, slot_count, pc, opened)'
  <2>1. SameHolders
    BY <1>p, Zenon DEF SameHolders, AcquireTimesOut, Dequeue
  <2> QED BY <2>1, HoldersFrame, Zenon DEF AcquireTimesOut, Dequeue
<1>g. Going(pc') = Going(pc) /\ Cardinality(Going(pc)) \in Nat
  <2>1. \A u \in Turns \ {t} : (pc[u] \in {"new", "done"}) <=> (pc'[u] \in {"new", "done"})
    BY <1>p, Zenon
  <2>2. (t \in Going(pc)) = (t \in Going(pc'))
    BY <1>type, <1>p DEF TypeOK, Going, AcquireTimesOut, Dequeue
  <2> QED BY <2>1, <2>2, GoingMoves, Zenon
<1>o. Opening(pc') = Opening(pc) /\ Cardinality(Opening(pc)) \in Nat
  <2>1. \A u \in Turns \ {t} : (pc[u] = "open") <=> (pc'[u] = "open")
    BY <1>p, Zenon
  <2>2. (t \in Opening(pc)) = (t \in Opening(pc'))
    BY <1>type, <1>p DEF TypeOK, Opening, AcquireTimesOut, Dequeue
  <2> QED BY <2>1, <2>2, OpeningMoves, Zenon
<1>w. /\ waiting_turns' = Cardinality(queued')
      /\ waiting_turns' <= QueueMax
      /\ waiting_turns' \in Nat
      /\ queued' \subseteq Turns
  BY <1>type, <1>counts, DequeueCounts, Zenon DEF Counts, AcquireTimesOut
<1>c. /\ Counts(slot_count, starting_workers, pc)'
      /\ outstanding_turns' \in Nat
      /\ starting_workers' \in Nat
  <2>1. slot_count \in Nat
    BY <1>type DEF TypeOK
  <2>2. Counts(slot_count, starting_workers, pc)'
    BY <1>counts, <1>g, <1>o, <1>w, <2>1, Zenon DEF Counts, AcquireTimesOut
  <2> QED BY <1>g, <1>o, <2>2, Zenon DEF Counts
<1>TypeOK. TypeOK'
  BY <1>type, <1>p, <1>c, <1>w, Zenon DEF TypeOK, Slot, Index, Empty, AcquireTimesOut, Dequeue
<1>Phases. Phases(slot_count, pc)'
  BY <1>type, <1>phases, <1>p, Zenon DEF TypeOK, Phases, Going, Index, AcquireTimesOut, Dequeue
<1>Filled. Filled(slots, slot_count, opened)'
  BY <1>type, <1>phases, <1>filled, <1>p, Zenon DEF TypeOK, Slot, Index, Filled, Empty, Phases,
     AcquireTimesOut, Dequeue
<1>Asleep. Asleep(slots, slot_count, starting_workers, pc)'
  <2>1. \A u \in Turns : pc'[u] = "wait" => pc[u] = "wait"
    BY <1>p, Zenon
  <2> QED BY <2>1, AsleepFrame, Zenon DEF AcquireTimesOut
<1> QED BY <1>c, <1>TypeOK, <1>Phases, <1>Filled, <1>Asleep, <1>h, Zenon DEF IInv, Sound

\* bridge_runtime_open fails: everybody looks at the pool again.
LEMMA FailsKeeps ==
  ASSUME Counting, IInv, NEW t \in Turns, OpenFails(t)
  PROVE  IInv'
<1> USE PoolAssumption
<1>type. TypeOK
  BY Zenon DEF IInv
<1>counts. Counts(slot_count, starting_workers, pc)
  BY Zenon DEF IInv, Sound
<1>phases. Phases(slot_count, pc)
  BY Zenon DEF IInv, Sound
<1>filled. Filled(slots, slot_count, opened)
  BY Zenon DEF IInv, Sound
<1>asleep. Asleep(slots, slot_count, starting_workers, pc)
  BY Zenon DEF IInv, Sound
<1>p. /\ pc' \in [Turns -> {"new", "acquire", "wait", "open", "close", "run", "end", "done"}]
      /\ pc'[t] = "end"
      /\ \A u \in Turns \ {t} : pc'[u] = pc[u] \/ (pc[u] = "wait" /\ pc'[u] = "acquire")
  BY <1>type, Zenon DEF TypeOK, OpenFails, Dequeue, Woken
<1>h. /\ Held(slots, slot_count, pc, opened)'
      /\ Running(slots, slot_count, pc)'
      /\ Kept(slots, slot_count, pc, opened)'
  <2>1. SameHolders
    BY <1>p, Zenon DEF SameHolders, OpenFails, Dequeue, Woken
  <2> QED BY <2>1, HoldersFrame, Zenon DEF OpenFails, Dequeue, Woken
<1>g. Going(pc') = Going(pc) /\ Cardinality(Going(pc)) \in Nat
  <2>1. \A u \in Turns \ {t} : (pc[u] \in {"new", "done"}) <=> (pc'[u] \in {"new", "done"})
    BY <1>p, Zenon
  <2>2. (t \in Going(pc)) = (t \in Going(pc'))
    BY <1>type, <1>p DEF TypeOK, Going, OpenFails, Dequeue, Woken
  <2> QED BY <2>1, <2>2, GoingMoves, Zenon
<1>o. /\ Cardinality(Opening(pc')) = Cardinality(Opening(pc)) - 1
      /\ Cardinality(Opening(pc)) > 0
      /\ Cardinality(Opening(pc)) \in Nat
  <2>1. \A u \in Turns \ {t} : (pc[u] = "open") <=> (pc'[u] = "open")
    BY <1>p, Zenon
  <2>2. t \in Opening(pc) /\ t \notin Opening(pc')
    BY <1>type, <1>p, Zenon DEF TypeOK, Opening, OpenFails, Dequeue, Woken
  <2> QED BY <2>1, <2>2, OpeningMoves, Zenon
<1>w. /\ waiting_turns' = Cardinality(queued')
      /\ waiting_turns' <= QueueMax
      /\ waiting_turns' \in Nat
      /\ queued' \subseteq Turns
  BY <1>type, <1>counts, DequeueCounts, Zenon DEF Counts, OpenFails
<1>c. /\ Counts(slot_count, starting_workers, pc)'
      /\ outstanding_turns' \in Nat
      /\ starting_workers' \in Nat
  <2>1. slot_count \in Nat
    BY <1>type DEF TypeOK
  <2>2. Counts(slot_count, starting_workers, pc)'
    BY <1>counts, <1>g, <1>o, <1>w, <2>1 DEF Counts, OpenFails
  <2> QED BY <1>g, <1>o, <2>2 DEF Counts
<1>TypeOK. TypeOK'
  BY <1>type, <1>p, <1>c, <1>w, Zenon DEF TypeOK, Slot, Index, Empty, OpenFails, Dequeue, Woken
<1>Phases. Phases(slot_count, pc)'
  BY <1>type, <1>phases, <1>p, Zenon DEF TypeOK, Phases, Going, Index, OpenFails, Dequeue, Woken
<1>Filled. Filled(slots, slot_count, opened)'
  BY <1>type, <1>phases, <1>filled, <1>p, Zenon DEF TypeOK, Slot, Index, Filled, Empty, Phases,
     OpenFails, Dequeue, Woken
<1>Asleep. Asleep(slots, slot_count, starting_workers, pc)'
  <2>1. \A u \in Turns : pc'[u] # "wait"
    BY <1>type, <1>p, Zenon DEF TypeOK, OpenFails, Woken
  <2> QED BY <1>asleep, <2>1, Zenon DEF Asleep
<1> QED BY <1>c, <1>TypeOK, <1>Phases, <1>Filled, <1>Asleep, <1>h, Zenon DEF IInv, Sound

\* A turn closes the runtime that it opened during a shutdown.
LEMMA UnwantedCloseKeeps ==
  ASSUME Counting, IInv, NEW t \in Turns, CloseUnwanted(t)
  PROVE  IInv'
<1> USE PoolAssumption
<1>type. TypeOK
  BY Zenon DEF IInv
<1>counts. Counts(slot_count, starting_workers, pc)
  BY Zenon DEF IInv, Sound
<1>phases. Phases(slot_count, pc)
  BY Zenon DEF IInv, Sound
<1>filled. Filled(slots, slot_count, opened)
  BY Zenon DEF IInv, Sound
<1>held. Held(slots, slot_count, pc, opened)
  BY Zenon DEF IInv, Sound
<1>running. Running(slots, slot_count, pc)
  BY Zenon DEF IInv, Sound
<1>kept. Kept(slots, slot_count, pc, opened)
  BY Zenon DEF IInv, Sound
<1>p. /\ pc' \in [Turns -> {"new", "acquire", "wait", "open", "close", "run", "end", "done"}]
      /\ pc'[t] = "acquire"
      /\ \A u \in Turns \ {t} : pc'[u] = pc[u] \/ (pc[u] = "wait" /\ pc'[u] = "acquire")
  BY <1>type, Zenon DEF TypeOK, CloseUnwanted, pool
<1>d. doomed = [i \in Index |-> NoRuntime] /\ main \notin {"close", "done"}
  BY <1>type, <1>phases, Zenon DEF TypeOK, Phases, Going, CloseUnwanted, pool
<1>x. /\ runtime[t] \in opened /\ opened' = opened \ {runtime[t]}
      /\ runtime'[t] = NoRuntime /\ runtime' \in [Turns -> Runtimes \cup {NoRuntime}]
      /\ \A u \in Turns \ {t} : runtime'[u] = runtime[u] /\ pc'[u] = pc[u]
  BY <1>type, <1>held, <1>p DEF TypeOK, Held, CloseUnwanted, pool
<1>y. \A u \in Turns : /\ pc'[u] = "run" => u # t /\ pc[u] = "run"
                       /\ pc'[u] = "close" => u # t /\ pc[u] = "close"
  BY <1>p, <1>x, Zenon
<1>g. Going(pc') = Going(pc) /\ Cardinality(Going(pc)) \in Nat
  <2>1. \A u \in Turns \ {t} : (pc[u] \in {"new", "done"}) <=> (pc'[u] \in {"new", "done"})
    BY <1>p, Zenon
  <2>2. (t \in Going(pc)) = (t \in Going(pc'))
    BY <1>type, <1>p DEF TypeOK, Going, CloseUnwanted, pool
  <2> QED BY <2>1, <2>2, GoingMoves, Zenon
<1>o. Opening(pc') = Opening(pc) /\ Cardinality(Opening(pc)) \in Nat
  <2>1. \A u \in Turns \ {t} : (pc[u] = "open") <=> (pc'[u] = "open")
    BY <1>p, Zenon
  <2>2. (t \in Opening(pc)) = (t \in Opening(pc'))
    BY <1>type, <1>p DEF TypeOK, Opening, CloseUnwanted, pool
  <2> QED BY <2>1, <2>2, OpeningMoves, Zenon
<1>w. /\ waiting_turns' = Cardinality(queued')
      /\ waiting_turns' <= QueueMax
      /\ waiting_turns' \in Nat
      /\ queued' \subseteq Turns
  BY <1>type, <1>counts, Zenon DEF TypeOK, Counts, CloseUnwanted, pool
<1>c. /\ Counts(slot_count, starting_workers, pc)'
      /\ outstanding_turns' \in Nat
      /\ starting_workers' \in Nat
  <2>1. slot_count \in Nat
    BY <1>type DEF TypeOK
  <2>2. Counts(slot_count, starting_workers, pc)'
    BY <1>counts, <1>g, <1>o, <1>w, <2>1, Zenon DEF Counts, CloseUnwanted, pool
  <2> QED BY <1>g, <1>o, <2>2, Zenon DEF Counts
<1>TypeOK. TypeOK'
  BY <1>type, <1>p, <1>c, <1>w, Zenon DEF TypeOK, Slot, Index, Empty, CloseUnwanted, pool
<1>Phases. Phases(slot_count, pc)'
  BY <1>type, <1>phases, <1>p, Zenon DEF TypeOK, Phases, Going, Index, CloseUnwanted, pool
<1>Filled. Filled(slots, slot_count, opened)'
  <2>1. \A i \in Index : i > slot_count' => slots'[i] = Empty
    BY <1>filled, Zenon DEF Filled, CloseUnwanted, pool
  <2>2. \A i \in 1..slot_count' : slots'[i].runtime \in opened'
    BY <1>type, <1>filled, <1>held, <1>x DEF TypeOK, Index, Slot, Held, Filled, CloseUnwanted, pool
  <2>3. \A i, j \in 1..slot_count' : slots'[i].runtime = slots'[j].runtime => i = j
    BY <1>filled, Zenon DEF Filled, CloseUnwanted, pool
  <2>4. \A i \in 1..slot_count' : i <= MinWorkers => slots'[i].elastic = FALSE
    BY <1>filled, Zenon DEF Filled, CloseUnwanted, pool
  <2>5. \A i, j \in 1..slot_count' :
          slots'[i].busy = TRUE /\ slots'[j].busy = TRUE /\ slots'[i].session = slots'[j].session => i = j
    BY <1>filled, Zenon DEF Filled, CloseUnwanted, pool
  <2> QED BY <2>1, <2>2, <2>3, <2>4, <2>5, Zenon DEF Filled
<1>Held. Held(slots, slot_count, pc, opened)'
  <2>1. \A u \in Turns : pc'[u] \notin {"run", "close"} => runtime'[u] = NoRuntime
    BY <1>type, <1>held, <1>p, <1>x DEF TypeOK, Index, Slot, Held, CloseUnwanted, pool
  <2>2. \A u \in Turns : pc'[u] = "close" =>
          runtime'[u] \in opened' /\ runtime'[u] # victim' /\ \A i \in 1..slot_count' : slots'[i].runtime # runtime'[u]
    BY <1>type, <1>held, <1>p, <1>x DEF TypeOK, Index, Slot, Held, CloseUnwanted, pool
  <2>3. \A u, v \in Turns : pc'[u] \in {"run", "close"} /\ runtime'[u] = runtime'[v] => u = v
    BY <1>held, <1>y, <1>x, HoldersOpen DEF Held
  <2>4. victim' # NoRuntime => victim' \in opened' /\ \A i \in 1..slot_count' : slots'[i].runtime # victim'
    BY <1>type, <1>held, <1>p, <1>x, Zenon DEF TypeOK, Index, Slot, Held, CloseUnwanted, pool
  <2>5. \A i \in Index : doomed'[i] # NoRuntime => doomed'[i] \in opened'
    BY <1>d, Zenon DEF CloseUnwanted, pool
  <2>6. \A i, j \in Index : doomed'[i] # NoRuntime /\ doomed'[i] = doomed'[j] => i = j
    BY <1>d, Zenon DEF CloseUnwanted, pool
  <2> QED BY <2>1, <2>2, <2>3, <2>4, <2>5, <2>6, Zenon DEF Held
<1>Running. Running(slots, slot_count, pc)'
  BY <1>type, <1>running, <1>p, <1>x DEF TypeOK, Index, Slot, Running, CloseUnwanted, pool
<1>Kept. Kept(slots, slot_count, pc, opened)'
  <2>1. UNCHANGED <<slots, slot_count, victim, doomed>>
    BY Zenon DEF CloseUnwanted, pool
  <2> SUFFICES ASSUME NEW r \in opened, r # runtime[t]
               PROVE  \/ \E i \in 1..slot_count : slots[i].runtime = r
                      \/ \E u \in Turns : pc'[u] = "close" /\ runtime'[u] = r
                      \/ victim = r
                      \/ \E i \in Index : doomed[i] = r
    BY <1>x, <2>1, Zenon DEF Kept
  <2> QED BY <1>kept, <1>x DEF Kept
<1>Asleep. Asleep(slots, slot_count, starting_workers, pc)'
  <2>1. \A u \in Turns : pc'[u] = "wait" => pc[u] = "wait"
    BY <1>p, Zenon
  <2> QED BY <2>1, AsleepFrame, Zenon DEF CloseUnwanted, pool
<1> QED BY <1>c, <1>TypeOK, <1>Phases, <1>Filled, <1>Held, <1>Running, <1>Kept, <1>Asleep, Zenon
           DEF IInv, Sound

\* fcgi_bridge_runtime_release frees the slot of its own turn only.
LEMMA ReleaseKeeps ==
  ASSUME Counting, IInv, NEW t \in Turns, fcgi_bridge_runtime_release(t)
  PROVE  IInv'
<1> USE PoolAssumption
<1>type. TypeOK
  BY Zenon DEF IInv
<1>counts. Counts(slot_count, starting_workers, pc)
  BY Zenon DEF IInv, Sound
<1>phases. Phases(slot_count, pc)
  BY Zenon DEF IInv, Sound
<1>filled. Filled(slots, slot_count, opened)
  BY Zenon DEF IInv, Sound
<1>held. Held(slots, slot_count, pc, opened)
  BY Zenon DEF IInv, Sound
<1>running. Running(slots, slot_count, pc)
  BY Zenon DEF IInv, Sound
<1>kept. Kept(slots, slot_count, pc, opened)
  BY Zenon DEF IInv, Sound
<1>asleep. Asleep(slots, slot_count, starting_workers, pc)
  BY Zenon DEF IInv, Sound
<1>p. /\ pc' \in [Turns -> {"new", "acquire", "wait", "open", "close", "run", "end", "done"}]
      /\ pc'[t] = "end"
      /\ \A u \in Turns \ {t} : pc'[u] = pc[u] \/ (pc[u] = "wait" /\ pc'[u] = "acquire")
  BY <1>type, Zenon DEF TypeOK, fcgi_bridge_runtime_release, Woken
<1>r. /\ slots' \in [Index -> Slot]
      /\ \A i \in Index :
           /\ slots'[i].runtime = slots[i].runtime /\ slots'[i].elastic = slots[i].elastic
           /\ i <= slot_count /\ slots[i].runtime = runtime[t] =>
                slots'[i].busy = FALSE /\ slots'[i].session = NoSession
           /\ ~(i <= slot_count /\ slots[i].runtime = runtime[t]) => slots'[i] = slots[i]
  BY <1>type, ReleasedEffect, Zenon DEF fcgi_bridge_runtime_release
<1>x. /\ pc[t] = "run" /\ runtime'[t] = NoRuntime /\ runtime' \in [Turns -> Runtimes \cup {NoRuntime}]
      /\ \A u \in Turns \ {t} : runtime'[u] = runtime[u]
  BY <1>type, Zenon DEF TypeOK, fcgi_bridge_runtime_release
<1>y. \A u \in Turns : /\ pc'[u] = "run" <=> (u # t /\ pc[u] = "run")
                       /\ pc'[u] = "close" <=> (u # t /\ pc[u] = "close")
  BY <1>p, <1>x, Zenon
<1>e. UNCHANGED <<slot_count, starting_workers, waiting_turns, outstanding_turns, stopping,
                  opened, queued, reaper, victim, main, doomed>>
  BY Zenon DEF fcgi_bridge_runtime_release
<1>s. \A i \in 1..slot_count : i \in Index /\ slots'[i].runtime = slots[i].runtime
  BY <1>type, <1>r DEF TypeOK, Index
<1>g. Going(pc') = Going(pc) /\ Cardinality(Going(pc)) \in Nat
  <2>1. \A u \in Turns \ {t} : (pc[u] \in {"new", "done"}) <=> (pc'[u] \in {"new", "done"})
    BY <1>p, Zenon
  <2>2. (t \in Going(pc)) = (t \in Going(pc'))
    BY <1>type, <1>p DEF TypeOK, Going, fcgi_bridge_runtime_release, Woken
  <2> QED BY <2>1, <2>2, GoingMoves, Zenon
<1>o. Opening(pc') = Opening(pc) /\ Cardinality(Opening(pc)) \in Nat
  <2>1. \A u \in Turns \ {t} : (pc[u] = "open") <=> (pc'[u] = "open")
    BY <1>p, Zenon
  <2>2. (t \in Opening(pc)) = (t \in Opening(pc'))
    BY <1>type, <1>p DEF TypeOK, Opening, fcgi_bridge_runtime_release, Woken
  <2> QED BY <2>1, <2>2, OpeningMoves, Zenon
<1>w. /\ waiting_turns' = Cardinality(queued')
      /\ waiting_turns' <= QueueMax
      /\ waiting_turns' \in Nat
      /\ queued' \subseteq Turns
  BY <1>type, <1>counts, Zenon DEF TypeOK, Counts, fcgi_bridge_runtime_release, Woken
<1>c. /\ Counts(slot_count, starting_workers, pc)'
      /\ outstanding_turns' \in Nat
      /\ starting_workers' \in Nat
  <2>1. slot_count \in Nat
    BY <1>type DEF TypeOK
  <2>2. Counts(slot_count, starting_workers, pc)'
    BY <1>counts, <1>g, <1>o, <1>w, <2>1, Zenon DEF Counts, fcgi_bridge_runtime_release
  <2> QED BY <1>g, <1>o, <2>2, Zenon DEF Counts
<1>TypeOK. TypeOK'
  BY <1>type, <1>c, <1>w, <1>p, <1>r, <1>x, <1>e, Zenon DEF TypeOK
<1>Phases. Phases(slot_count, pc)'
  BY <1>phases, <1>g, <1>e, Zenon DEF Phases
<1>Filled. Filled(slots, slot_count, opened)'
  <2>1. \A i \in Index : i > slot_count' => slots'[i] = Empty
    BY <1>type, <1>filled, <1>r, <1>e DEF TypeOK, Index, Slot, Filled
  <2>2. \A i \in 1..slot_count' : slots'[i].runtime \in opened'
    BY <1>type, <1>filled, <1>r, <1>e DEF TypeOK, Index, Slot, Filled
  <2>3. \A i, j \in 1..slot_count' : slots'[i].runtime = slots'[j].runtime => i = j
    BY <1>type, <1>filled, <1>r, <1>e DEF TypeOK, Index, Slot, Filled
  <2>4. \A i \in 1..slot_count' : i <= MinWorkers => slots'[i].elastic = FALSE
    BY <1>type, <1>filled, <1>r, <1>e DEF TypeOK, Index, Slot, Filled
  <2>5. \A i, j \in 1..slot_count' :
          slots'[i].busy = TRUE /\ slots'[j].busy = TRUE /\ slots'[i].session = slots'[j].session => i = j
    BY <1>type, <1>filled, <1>r, <1>e DEF TypeOK, Index, Slot, Filled
  <2> QED BY <2>1, <2>2, <2>3, <2>4, <2>5, Zenon DEF Filled
<1>Held. Held(slots, slot_count, pc, opened)'
  <2>1. \A u \in Turns : pc'[u] \notin {"run", "close"} => runtime'[u] = NoRuntime
    BY <1>held, <1>y, <1>x, Zenon DEF Held
  <2>2. \A u \in Turns : pc'[u] = "close" =>
          runtime'[u] \in opened' /\ runtime'[u] # victim' /\ \A i \in 1..slot_count' : slots'[i].runtime # runtime'[u]
    BY <1>held, <1>y, <1>s, <1>x, <1>e DEF Held
  <2>3. \A u, v \in Turns : pc'[u] \in {"run", "close"} /\ runtime'[u] = runtime'[v] => u = v
    BY <1>held, <1>y, <1>x, HoldersOpen DEF Held
  <2>4. victim' # NoRuntime => victim' \in opened' /\ \A i \in 1..slot_count' : slots'[i].runtime # victim'
    BY <1>held, <1>s, <1>e, Zenon DEF Held
  <2>5. \A i \in Index : doomed'[i] # NoRuntime => doomed'[i] \in opened'
    BY <1>held, <1>e, Zenon DEF Held
  <2>6. \A i, j \in Index : doomed'[i] # NoRuntime /\ doomed'[i] = doomed'[j] => i = j
    BY <1>held, <1>e, Zenon DEF Held
  <2> QED BY <2>1, <2>2, <2>3, <2>4, <2>5, <2>6, Zenon DEF Held
<1>Running. Running(slots, slot_count, pc)'
  <2> SUFFICES ASSUME NEW u \in Turns, pc'[u] = "run"
               PROVE  \E i \in 1..slot_count : /\ slots'[i].runtime = runtime'[u]
                                               /\ slots'[i].busy = TRUE /\ slots'[i].session = SessionOf[u]
    BY <1>running, <1>e, Zenon DEF Running
  <2>1. u # t /\ pc[u] = "run" /\ runtime'[u] = runtime[u]
    BY <1>y, <1>x, Zenon
  <2>2. PICK i \in 1..slot_count :
          slots[i].runtime = runtime[u] /\ slots[i].busy = TRUE /\ slots[i].session = SessionOf[u]
    BY <1>running, <2>1, Zenon DEF Running
  <2>3. runtime[u] # runtime[t]
    BY <1>held, <2>1, Zenon DEF Held
  <2>4. slots'[i] = slots[i]
    BY <1>r, <1>s, <2>2, <2>3, Zenon
  <2> QED BY <2>1, <2>2, <2>4, Zenon
<1>Kept. Kept(slots, slot_count, pc, opened)'
  BY <1>kept, <1>y, <1>s, <1>x, <1>e DEF Kept
<1>Asleep. Asleep(slots, slot_count, starting_workers, pc)'
  <2>1. \A u \in Turns : pc'[u] # "wait"
    BY <1>type, <1>p, Zenon DEF TypeOK, fcgi_bridge_runtime_release, Woken
  <2> QED BY <1>asleep, <2>1, Zenon DEF Asleep
<1> QED BY <1>c, <1>TypeOK, <1>Phases, <1>Filled, <1>Held, <1>Running, <1>Kept, <1>Asleep, Zenon
           DEF IInv, Sound

\* The reaper takes an idle slot and moves the last one into its place.
LEMMA ReaperTakesKeeps ==
  ASSUME Counting, IInv, NEW i \in Index, ReaperTakes(i)
  PROVE  IInv'
<1> USE PoolAssumption
<1>type. TypeOK
  BY Zenon DEF IInv
<1>counts. Counts(slot_count, starting_workers, pc)
  BY Zenon DEF IInv, Sound
<1>phases. Phases(slot_count, pc)
  BY Zenon DEF IInv, Sound
<1>filled. Filled(slots, slot_count, opened)
  BY Zenon DEF IInv, Sound
<1>held. Held(slots, slot_count, pc, opened)
  BY Zenon DEF IInv, Sound
<1>running. Running(slots, slot_count, pc)
  BY Zenon DEF IInv, Sound
<1>kept. Kept(slots, slot_count, pc, opened)
  BY Zenon DEF IInv, Sound
<1>asleep. Asleep(slots, slot_count, starting_workers, pc)
  BY Zenon DEF IInv, Sound
<1>1. /\ i \in 1..slot_count /\ slot_count \in Index /\ slot_count' = slot_count - 1
      /\ slot_count > MinWorkers /\ slots[i].elastic = TRUE /\ slots[i].busy = FALSE
      /\ stopping = FALSE /\ main = "serve" /\ reaper' = "close"
      /\ victim' = slots[i].runtime /\ victim = NoRuntime
  BY <1>type, <1>phases DEF TypeOK, Slot, Index, Phases, ReaperTakes, expired
<1>2. UNCHANGED <<starting_workers, waiting_turns, outstanding_turns, stopping, opened,
                  pc, runtime, queued, main, doomed>>
  BY Zenon DEF ReaperTakes, turn
<1>3. /\ slots' \in [Index -> Slot]
      /\ slots'[slot_count] = Empty
      /\ \A k \in Index : k # slot_count => slots'[k] = IF k = i THEN slots[slot_count] ELSE slots[k]
  <2>1. slots' = [slots EXCEPT ![i] = slots[slot_count], ![slot_count] = Empty]
    BY Zenon DEF ReaperTakes
  <2>2. Empty \in Slot /\ slots \in [Index -> Slot]
    BY <1>type, Zenon DEF TypeOK, Empty, Slot
  <2> QED BY <1>1, <2>1, <2>2, Zenon
<1> DEFINE from(k) == IF k = i THEN slot_count ELSE k
<1>4. /\ \A k \in 1..slot_count' : from(k) \in 1..slot_count /\ from(k) # i /\ slots'[k] = slots[from(k)]
      /\ \A j, k \in 1..slot_count' : from(j) = from(k) => j = k
  BY <1>type, <1>1, <1>3 DEF TypeOK, Index
<1>5. \A j \in 1..slot_count : j # i => \E k \in 1..slot_count' : slots'[k] = slots[j]
  <2> SUFFICES ASSUME NEW j \in 1..slot_count, j # i
               PROVE  \E k \in 1..slot_count' : slots'[k] = slots[j]
    BY Zenon
  <2>1. CASE j = slot_count
    <3>1. i \in 1..slot_count'
      BY <1>type, <1>1, <2>1 DEF TypeOK
    <3> QED BY <1>4, <2>1, <3>1, Zenon
  <2>2. CASE j # slot_count
    <3>1. j \in 1..slot_count'
      BY <1>type, <1>1, <2>2 DEF TypeOK
    <3> QED BY <1>4, <3>1, Zenon
  <2> QED BY <2>1, <2>2, Zenon
<1>4a. \A k \in 1..slot_count' : k <= MinWorkers => from(k) <= MinWorkers \/ k = i
  BY Zenon
<1> HIDE DEF from
<1>6. slots[i].runtime \in opened /\ slots[i].runtime # NoRuntime
  BY <1>type, <1>filled, <1>1, Zenon DEF TypeOK, Filled
<1>7. TypeOK'
  BY <1>type, <1>1, <1>2, <1>3, <1>6 DEF TypeOK
<1>8. Counts(slot_count, starting_workers, pc)'
  <2>1. slot_count \in Nat /\ starting_workers \in Nat /\ MaxWorkers \in Nat
    BY <1>type DEF TypeOK
  <2> QED BY <1>counts, <1>1, <1>2, <2>1, SMTT(30) DEF Counts
<1>9. Phases(slot_count, pc)'
  BY <1>type, <1>phases, <1>1, <1>2, <1>6 DEF TypeOK, Phases
<1>10. Filled(slots, slot_count, opened)'
  <2>1. \A k \in Index : k > slot_count' => slots'[k] = Empty
    BY <1>type, <1>filled, <1>1, <1>3 DEF TypeOK, Index, Filled
  <2>2. \A k \in 1..slot_count' : slots'[k].runtime \in opened'
    BY <1>filled, <1>1, <1>2, <1>4, Zenon DEF Filled
  <2>3. \A j, k \in 1..slot_count' : slots'[j].runtime = slots'[k].runtime => j = k
    BY <1>filled, <1>4 DEF Filled
  <2>4. \A k \in 1..slot_count' : k <= MinWorkers => slots'[k].elastic = FALSE
    BY <1>filled, <1>1, <1>4, <1>4a DEF Filled
  <2>5. \A j, k \in 1..slot_count' :
          slots'[j].busy = TRUE /\ slots'[k].busy = TRUE /\ slots'[j].session = slots'[k].session => j = k
    BY <1>filled, <1>1, <1>4 DEF Filled
  <2> QED BY <2>1, <2>2, <2>3, <2>4, <2>5, Zenon DEF Filled
<1>11. Held(slots, slot_count, pc, opened)'
  <2>1. \A k \in 1..slot_count' : slots'[k].runtime # victim'
    BY <1>filled, <1>1, <1>4 DEF Filled
  <2>2. \A t \in Turns : pc[t] = "close" =>
          runtime[t] # victim' /\ \A k \in 1..slot_count' : slots'[k].runtime # runtime[t]
    <3> SUFFICES ASSUME NEW t \in Turns, pc[t] = "close"
                 PROVE  runtime[t] # victim' /\ \A k \in 1..slot_count' : slots'[k].runtime # runtime[t]
      BY Zenon
    <3>1. \A k \in 1..slot_count : slots[k].runtime # runtime[t]
      BY <1>held, Zenon DEF Held
    <3> QED BY <1>1, <1>4, <3>1
  <2> QED BY <1>held, <1>1, <1>2, <1>6, <2>1, <2>2, Zenon DEF Held
<1>12. Running(slots, slot_count, pc)'
  <2> SUFFICES ASSUME NEW t \in Turns, pc[t] = "run"
               PROVE  \E k \in 1..slot_count' :
                 slots'[k].runtime = runtime[t] /\ slots'[k].busy = TRUE /\ slots'[k].session = SessionOf[t]
    BY <1>running, <1>2, Zenon DEF Running
  <2>1. PICK j \in 1..slot_count :
          slots[j].runtime = runtime[t] /\ slots[j].busy = TRUE /\ slots[j].session = SessionOf[t]
    BY <1>running, Zenon DEF Running
  <2>2. j # i
    BY <1>1, <2>1, Zenon
  <2> QED BY <1>5, <2>1, <2>2
<1>13. Kept(slots, slot_count, pc, opened)'
  <2> SUFFICES ASSUME NEW r \in opened
               PROVE  \/ \E k \in 1..slot_count' : slots'[k].runtime = r
                      \/ \E t \in Turns : pc[t] = "close" /\ runtime[t] = r
                      \/ victim' = r
                      \/ \E k \in Index : doomed[k] = r
    BY <1>kept, <1>2, Zenon DEF Kept
  <2>1. CASE \E j \in 1..slot_count : slots[j].runtime = r
    BY <1>1, <1>5, <2>1
  <2>2. CASE victim = r
    BY <1>type, <1>1, <2>2, Zenon DEF TypeOK
  <2> QED BY <1>kept, <2>1, <2>2, Zenon DEF Kept
<1>14. Asleep(slots, slot_count, starting_workers, pc)'
  <2> SUFFICES ASSUME NEW t \in Turns, pc[t] = "wait"
               PROVE  /\ stopping' = FALSE
                      /\ \E k \in 1..slot_count' : slots'[k].busy = TRUE /\ slots'[k].session = SessionOf[t]
    BY <1>asleep, <1>2, Zenon DEF Asleep
  <2>1. PICK j \in 1..slot_count : slots[j].busy = TRUE /\ slots[j].session = SessionOf[t]
    BY <1>asleep, <1>1, Zenon DEF Asleep
  <2>2. j # i
    BY <1>1, <2>1, Zenon
  <2> QED BY <1>1, <1>2, <1>5, <2>1, <2>2, ZenonT(60)
<1> QED BY <1>7, <1>8, <1>9, <1>10, <1>11, <1>12, <1>13, <1>14, Zenon DEF IInv, Sound

\* The reaper closes the runtime that it alone holds.
LEMMA ReaperClosesKeeps ==
  ASSUME Counting, IInv, ReaperCloses
  PROVE  IInv'
<1> USE PoolAssumption
<1>type. TypeOK
  BY Zenon DEF IInv
<1>counts. Counts(slot_count, starting_workers, pc)
  BY Zenon DEF IInv, Sound
<1>phases. Phases(slot_count, pc)
  BY Zenon DEF IInv, Sound
<1>filled. Filled(slots, slot_count, opened)
  BY Zenon DEF IInv, Sound
<1>held. Held(slots, slot_count, pc, opened)
  BY Zenon DEF IInv, Sound
<1>running. Running(slots, slot_count, pc)
  BY Zenon DEF IInv, Sound
<1>kept. Kept(slots, slot_count, pc, opened)
  BY Zenon DEF IInv, Sound
<1>asleep. Asleep(slots, slot_count, starting_workers, pc)
  BY Zenon DEF IInv, Sound
<1>1. /\ victim \in opened /\ opened' = opened \ {victim} /\ victim' = NoRuntime
      /\ reaper = "close" /\ reaper' = "wait" /\ main \notin {"drain", "close", "done"}
      /\ doomed = [k \in Index |-> NoRuntime]
  BY <1>type, <1>phases, <1>held, Zenon DEF TypeOK, Phases, Held, ReaperCloses
<1>2. UNCHANGED <<slots, slot_count, starting_workers, waiting_turns, outstanding_turns, stopping,
                  pc, runtime, queued, main, doomed>>
  BY Zenon DEF ReaperCloses, pool, turn
<1>3. TypeOK'
  BY <1>type, <1>1, <1>2, Zenon DEF TypeOK
<1>4. Counts(slot_count, starting_workers, pc)'
  BY <1>counts, <1>2, Zenon DEF Counts
<1>5. Phases(slot_count, pc)'
  BY <1>phases, <1>1, <1>2, Zenon DEF Phases
<1>6. Filled(slots, slot_count, opened)'
  <2>1. \A k \in 1..slot_count : slots[k].runtime # victim
    BY <1>type, <1>held, <1>1 DEF TypeOK, Held
  <2> QED BY <1>filled, <1>1, <1>2, <2>1, Zenon DEF Filled
<1>7. Held(slots, slot_count, pc, opened)'
  <2>1. \A t \in Turns : pc[t] = "close" => runtime[t] \in opened' /\ runtime[t] # victim'
    BY <1>type, <1>held, <1>1 DEF TypeOK, Held
  <2> QED BY <1>held, <1>1, <1>2, <2>1, Zenon DEF Held
<1>8. Running(slots, slot_count, pc)'
  BY <1>running, <1>2, Zenon DEF Running
<1>9. Kept(slots, slot_count, pc, opened)'
  BY <1>kept, <1>1, <1>2, Zenon DEF Kept
<1>10. Asleep(slots, slot_count, starting_workers, pc)'
  BY <1>asleep, <1>2, Zenon DEF Asleep
<1> QED BY <1>3, <1>4, <1>5, <1>6, <1>7, <1>8, <1>9, <1>10, Zenon DEF IInv, Sound

\* The reaper ends.
LEMMA ReaperStopsKeeps ==
  ASSUME Counting, IInv, ReaperStops
  PROVE  IInv'
<1> USE DEF IInv, Sound
<1>1. /\ reaper = "wait" /\ reaper' = "done" /\ stopping = TRUE
      /\ UNCHANGED <<slots, slot_count, starting_workers, waiting_turns, outstanding_turns,
                     stopping, pc, runtime, queued, opened, victim, main, doomed>>
  BY Zenon DEF TypeOK, ReaperStops, pool, turn
<1>2. TypeOK' /\ Counts(slot_count, starting_workers, pc)'
  BY <1>1, Zenon DEF TypeOK, Counts
<1>3. Phases(slot_count, pc)'
  BY <1>1, Zenon DEF Phases
<1>4. Filled(slots, slot_count, opened)'
  BY <1>1, Zenon DEF Filled
<1>5. Held(slots, slot_count, pc, opened)' /\ Running(slots, slot_count, pc)'
  BY <1>1, Zenon DEF Held, Running
<1>6. Kept(slots, slot_count, pc, opened)' /\ Asleep(slots, slot_count, starting_workers, pc)'
  BY <1>1, Zenon DEF Kept, Asleep
<1> QED BY <1>2, <1>3, <1>4, <1>5, <1>6, Zenon

\* The shutdown wakes everybody up.
LEMMA ShutdownBeginsKeeps ==
  ASSUME Counting, IInv, ShutdownBegins
  PROVE  IInv'
<1> USE DEF IInv, Sound
<1>1. /\ main = "serve" /\ main' = "join" /\ stopping' = TRUE
      /\ UNCHANGED <<slots, slot_count, starting_workers, waiting_turns, outstanding_turns,
                     opened, runtime, queued, reaper, victim, doomed>>
  BY Zenon DEF ShutdownBegins
<1>2. /\ pc' \in [Turns -> {"new", "acquire", "wait", "open", "close", "run", "end", "done"}]
      /\ \A t \in Turns : pc'[t] = IF pc[t] = "wait" THEN "acquire" ELSE pc[t]
  BY Zenon DEF TypeOK, ShutdownBegins, Woken
<1>3. Going(pc') = Going(pc) /\ Opening(pc') = Opening(pc)
  BY <1>2, Zenon DEF Going, Opening
<1>4. TypeOK'
  BY <1>1, <1>2, Zenon DEF TypeOK
<1>5. Counts(slot_count, starting_workers, pc)'
  BY <1>1, <1>3, Zenon DEF Counts
<1>6. Phases(slot_count, pc)'
  BY <1>1, <1>3, Zenon DEF Phases
<1>7. Filled(slots, slot_count, opened)'
  BY <1>1, Zenon DEF Filled
<1>8. SameHolders
  BY <1>2, Zenon DEF SameHolders
<1>9. /\ Held(slots, slot_count, pc, opened)' /\ Running(slots, slot_count, pc)'
      /\ Kept(slots, slot_count, pc, opened)'
  BY <1>1, <1>8, HoldersFrame, Zenon
<1>10. Asleep(slots, slot_count, starting_workers, pc)'
  BY <1>2, Zenon DEF Asleep
<1> QED BY <1>4, <1>5, <1>6, <1>7, <1>9, <1>10, Zenon

\* The shutdown has joined the reaper.
LEMMA ShutdownJoinsKeeps ==
  ASSUME Counting, IInv, ShutdownJoins
  PROVE  IInv'
<1> USE DEF IInv, Sound
<1>1. /\ main = "join" /\ main' = "drain" /\ reaper = "done"
      /\ UNCHANGED <<slots, slot_count, starting_workers, waiting_turns, outstanding_turns,
                     stopping, pc, runtime, queued, opened, reaper, victim, doomed>>
  BY Zenon DEF ShutdownJoins, pool, turn
<1>2. TypeOK' /\ Counts(slot_count, starting_workers, pc)'
  BY <1>1, Zenon DEF TypeOK, Counts
<1>3. Phases(slot_count, pc)'
  BY <1>1, Zenon DEF Phases
<1>4. Filled(slots, slot_count, opened)'
  BY <1>1, Zenon DEF Filled
<1>5. Held(slots, slot_count, pc, opened)' /\ Running(slots, slot_count, pc)'
  BY <1>1, Zenon DEF Held, Running
<1>6. Kept(slots, slot_count, pc, opened)' /\ Asleep(slots, slot_count, starting_workers, pc)'
  BY <1>1, Zenon DEF Kept, Asleep
<1> QED BY <1>2, <1>3, <1>4, <1>5, <1>6, Zenon

\* No turn is counted, so none is under way, and the slots are the shutdown's.
LEMMA ShutdownTakesKeeps ==
  ASSUME Counting, IInv, ShutdownTakes
  PROVE  IInv'
<1> USE PoolAssumption
<1>type. TypeOK
  BY Zenon DEF IInv
<1>counts. Counts(slot_count, starting_workers, pc)
  BY Zenon DEF IInv, Sound
<1>phases. Phases(slot_count, pc)
  BY Zenon DEF IInv, Sound
<1>filled. Filled(slots, slot_count, opened)
  BY Zenon DEF IInv, Sound
<1>held. Held(slots, slot_count, pc, opened)
  BY Zenon DEF IInv, Sound
<1>running. Running(slots, slot_count, pc)
  BY Zenon DEF IInv, Sound
<1>kept. Kept(slots, slot_count, pc, opened)
  BY Zenon DEF IInv, Sound
<1>asleep. Asleep(slots, slot_count, starting_workers, pc)
  BY Zenon DEF IInv, Sound
<1>1. /\ main = "drain" /\ main' = "close" /\ slot_count' = 0 /\ outstanding_turns = 0
      /\ slots' = [k \in Index |-> Empty] /\ doomed' = [k \in Index |-> slots[k].runtime]
      /\ UNCHANGED <<starting_workers, waiting_turns, outstanding_turns, stopping, opened,
                     pc, runtime, queued, reaper, victim>>
  BY Zenon DEF ShutdownTakes, drained, turn
<1>2. Going(pc) = {}
  <2>1. Cardinality(Going(pc)) = 0
    BY <1>counts, <1>1, Zenon DEF Counts
  <2>2. Going(pc) \in SUBSET Turns
    BY Zenon DEF Going
  <2> QED BY <2>1, <2>2, Zenon DEF Counting
<1>3. /\ reaper = "done"
      /\ victim = NoRuntime
      /\ stopping = TRUE
      /\ doomed = [k \in Index |-> NoRuntime]
  BY <1>type, <1>phases, <1>1, Zenon DEF TypeOK, Phases
<1>4. \A t \in Turns : pc[t] \in {"new", "done"}
  BY <1>2, Zenon DEF Going
<1>5. TypeOK'
  BY <1>type, <1>1 DEF TypeOK, Slot, Empty
<1>6. Counts(slot_count, starting_workers, pc)'
  <2>1. 0 + starting_workers <= MaxWorkers
    BY <1>type, <1>counts DEF TypeOK, Counts
  <2> QED BY <1>counts, <1>1, <2>1, Zenon DEF Counts
<1>7. Phases(slot_count, pc)'
  BY <1>phases, <1>1, <1>2, <1>3, Zenon DEF Phases
<1>8. Filled(slots, slot_count, opened)'
  BY <1>filled, <1>1 DEF Filled
<1>9. \A k \in Index : slots[k].runtime # NoRuntime => k \in 1..slot_count
  BY <1>type, <1>filled DEF TypeOK, Index, Filled, Empty
<1>10. Held(slots, slot_count, pc, opened)'
  <2>1. \A k \in Index : doomed'[k] # NoRuntime => doomed'[k] \in opened'
    BY <1>filled, <1>1, <1>9, Zenon DEF Filled
  <2>2. \A j, k \in Index : doomed'[j] # NoRuntime /\ doomed'[j] = doomed'[k] => j = k
    BY <1>filled, <1>1, <1>9, Zenon DEF Filled
  <2> QED BY <1>held, <1>1, <1>3, <1>4, <2>1, <2>2, Zenon DEF Held
<1>11. Running(slots, slot_count, pc)' /\ Asleep(slots, slot_count, starting_workers, pc)'
  BY <1>running, <1>asleep, <1>1, <1>4, Zenon DEF Running, Asleep
<1>12. Kept(slots, slot_count, pc, opened)'
  <2> SUFFICES ASSUME NEW r \in opened PROVE \E k \in Index : doomed'[k] = r
    BY <1>kept, <1>1, Zenon DEF Kept
  <2>1. PICK k \in 1..slot_count : slots[k].runtime = r
    BY <1>type, <1>kept, <1>3, <1>4, Zenon DEF TypeOK, Kept
  <2> QED BY <1>type, <1>1, <2>1 DEF TypeOK, Index
<1> QED BY <1>5, <1>6, <1>7, <1>8, <1>10, <1>11, <1>12, Zenon DEF IInv, Sound

\* bridge_find_free_slot returns a free slot.
LEMMA LeastIsElement ==
  ASSUME Counting, NEW T, T \subseteq Nat, T # {}
  PROVE  lowest(T) \in T
BY Zenon DEF Counting, lowest

\* bridge_runtime_close_slots goes down from a slot that is left.
LEMMA GreatestIsElement ==
  ASSUME Counting, NEW T, T \subseteq Index, T # {}
  PROVE  highest(T) \in T
<1> DEFINE U == {MaxWorkers - x : x \in T}
<1>1. \A x \in T : x \in Nat /\ MaxWorkers - x \in Nat
  BY PoolAssumption DEF Index
<1>2. U \subseteq Nat /\ U # {}
  BY <1>1, Zenon
<1>3. PICK u \in U : \A v \in U : u <= v
  BY <1>2, Zenon DEF Counting
<1>4. PICK x \in T : u = MaxWorkers - x
  BY <1>3, Zenon
<1>5. ASSUME NEW y \in T PROVE x >= y
  <2>1. u <= MaxWorkers - y
    BY <1>3, Zenon
  <2> QED BY <1>1, <1>4, <2>1, PoolAssumption, SMTT(30)
<1> QED BY <1>5, Zenon DEF highest

\* The shutdown closes what it has taken, once.
LEMMA ShutdownClosesKeeps ==
  ASSUME Counting, IInv, ShutdownCloses
  PROVE  IInv'
<1> USE PoolAssumption
<1>type. TypeOK
  BY Zenon DEF IInv
<1>counts. Counts(slot_count, starting_workers, pc)
  BY Zenon DEF IInv, Sound
<1>phases. Phases(slot_count, pc)
  BY Zenon DEF IInv, Sound
<1>filled. Filled(slots, slot_count, opened)
  BY Zenon DEF IInv, Sound
<1>held. Held(slots, slot_count, pc, opened)
  BY Zenon DEF IInv, Sound
<1>running. Running(slots, slot_count, pc)
  BY Zenon DEF IInv, Sound
<1>kept. Kept(slots, slot_count, pc, opened)
  BY Zenon DEF IInv, Sound
<1>asleep. Asleep(slots, slot_count, starting_workers, pc)
  BY Zenon DEF IInv, Sound
<1> DEFINE left == {k \in Index : doomed[k] # NoRuntime}
<1>1. /\ main = "close" /\ slot_count = 0 /\ victim = NoRuntime
      /\ UNCHANGED <<slots, slot_count, starting_workers, waiting_turns, outstanding_turns,
                     stopping, pc, runtime, queued, reaper, victim>>
  BY <1>type, <1>phases, Zenon DEF TypeOK, Phases, ShutdownCloses, pool, turn
<1>2. \A t \in Turns : pc[t] \in {"new", "done"}
  BY <1>phases, <1>1, Zenon DEF Phases, Going
<1>3. CASE left = {}
  <2>1. main' = "done" /\ UNCHANGED <<opened, doomed>>
    BY <1>3, Zenon DEF ShutdownCloses
  <2>2. \A k \in Index : doomed[k] = NoRuntime
    BY <1>3, Zenon
  <2>3. TypeOK' /\ Counts(slot_count, starting_workers, pc)'
    BY <1>type, <1>counts, <1>1, <2>1, Zenon DEF TypeOK, Counts
  <2>4. Phases(slot_count, pc)'
    BY <1>type, <1>phases, <1>1, <2>1, <2>2, Zenon DEF TypeOK, Phases
  <2>5. Filled(slots, slot_count, opened)'
    BY <1>filled, <1>1, <2>1, Zenon DEF Filled
  <2>6. SameHolders
    BY <1>1, Zenon DEF SameHolders
  <2>7. /\ Held(slots, slot_count, pc, opened)' /\ Running(slots, slot_count, pc)'
        /\ Kept(slots, slot_count, pc, opened)'
    BY <1>1, <2>1, <2>6, HoldersFrame, Zenon
  <2>8. Asleep(slots, slot_count, starting_workers, pc)'
    BY <1>1, AsleepFrame, Zenon
  <2> QED BY <2>3, <2>4, <2>5, <2>7, <2>8, Zenon DEF IInv, Sound
<1>4. CASE left # {}
  <2> DEFINE m == highest(left)
  <2>1. m \in Index /\ doomed[m] # NoRuntime
    <3>1. left \subseteq Index
      BY Zenon
    <3>2. highest(left) \in left
      BY <1>4, <3>1, GreatestIsElement, Zenon
    <3> QED BY <3>2, Zenon
  <2>2. /\ opened' = opened \ {doomed[m]} /\ main' = main
        /\ doomed' = [doomed EXCEPT ![m] = NoRuntime]
    BY <1>4, Zenon DEF ShutdownCloses
  <2> HIDE DEF m
  <2>3. /\ doomed' \in [Index -> Runtimes \cup {NoRuntime}] /\ doomed'[m] = NoRuntime
        /\ \A k \in Index \ {m} : doomed'[k] = doomed[k]
    BY <1>type, <2>1, <2>2, Zenon DEF TypeOK
  <2>4. TypeOK' /\ Counts(slot_count, starting_workers, pc)'
    BY <1>type, <1>counts, <1>1, <2>2, <2>3, Zenon DEF TypeOK, Counts
  <2>5. Phases(slot_count, pc)'
    BY <1>phases, <1>1, <2>2, Zenon DEF Phases
  <2>6. Filled(slots, slot_count, opened)'
    BY <1>filled, <1>1 DEF Filled
  <2>7. Held(slots, slot_count, pc, opened)'
    BY <1>held, <1>1, <1>2, <2>1, <2>2, <2>3 DEF Held
  <2>8. Running(slots, slot_count, pc)' /\ Asleep(slots, slot_count, starting_workers, pc)'
    BY <1>running, <1>asleep, <1>1, <1>2, Zenon DEF Running, Asleep
  <2>9. Kept(slots, slot_count, pc, opened)'
    BY <1>type, <1>kept, <1>1, <1>2, <2>2, <2>3 DEF TypeOK, Kept
  <2> QED BY <2>4, <2>5, <2>6, <2>7, <2>8, <2>9, Zenon DEF IInv, Sound
<1> QED BY <1>3, <1>4, Zenon DEF IInv, Sound
=============================================================================
