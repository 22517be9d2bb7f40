----------------------------- MODULE ServerPool -----------------------------
(***************************************************************************)
(* The FastCGI server's pool of runtimes (src/sapi/fastcgi/agent_bridge.c) *)
(* and the life of a turn on it (handlers/turns.c, main.c).                *)
(*                                                                         *)
(* A request thread accepts a turn and starts a thread for it.  That       *)
(* thread takes a free runtime, opens one more while the pool may grow, or *)
(* waits; it runs the turn and gives the runtime back.  A reaper closes    *)
(* runtimes that have been idle for long, and the shutdown waits for both. *)
(* All share one mutex and one condition variable: a critical section is   *)
(* one action, and what is done between unlock and lock one of its own.    *)
(* Deadlines and idle times may have passed at any moment.                 *)
(***************************************************************************)
EXTENDS Naturals, FiniteSets

CONSTANTS
  Turns,        \* the turns that clients post
  Sessions,
  SessionOf,    \* the session of a turn
  Runtimes,     \* the addresses a runtime may have
  MinWorkers, MaxWorkers, QueueMax,
  NoRuntime, NoSession

ASSUME PoolAssumption ==
  /\ SessionOf \in [Turns -> Sessions] /\ IsFiniteSet(Turns)
  /\ MinWorkers \in Nat \ {0} /\ MaxWorkers \in Nat /\ MinWorkers <= MaxWorkers
  /\ QueueMax \in Nat \ {0}
  /\ NoRuntime \notin Runtimes /\ NoSession \notin Sessions
  /\ \E f \in [1..MinWorkers -> Runtimes] : \A i, j \in 1..MinWorkers : f[i] = f[j] => i = j

VARIABLES
  slots,              \* g_pool.slots
  slot_count,
  starting_workers,   \* runtimes that turns are opening
  waiting_turns,
  outstanding_turns,
  stopping,
  opened,             \* runtimes between runtime_open and runtime_close
  pc,                 \* where each turn is
  runtime,            \* the runtime a turn runs on, or has to close
  queued,             \* the turns counted in waiting_turns
  reaper,             \* where the reaper is
  victim,             \* the runtime the reaper closes
  main,               \* where the main thread is
  doomed              \* the slots the shutdown has taken, by index

pool == <<slots, slot_count, starting_workers, waiting_turns, outstanding_turns, stopping>>
turn == <<pc, runtime, queued>>
vars == <<pool, opened, turn, reaper, victim, main, doomed>>

Index == 1..MaxWorkers
Slot == [runtime : Runtimes \cup {NoRuntime}, busy : BOOLEAN, elastic : BOOLEAN,
         session : Sessions \cup {NoSession}]
Empty == [runtime |-> NoRuntime, busy |-> FALSE, elastic |-> FALSE, session |-> NoSession]

\* Every piece of the pool and every thread is in a state the code can name.
TypeOK ==
  /\ slots \in [Index -> Slot] /\ slot_count \in 0..MaxWorkers
  /\ starting_workers \in Nat /\ waiting_turns \in Nat /\ outstanding_turns \in Nat
  /\ stopping \in BOOLEAN /\ opened \subseteq Runtimes
  /\ pc \in [Turns -> {"new", "acquire", "wait", "open", "close", "run", "end", "done"}]
  /\ runtime \in [Turns -> Runtimes \cup {NoRuntime}] /\ queued \subseteq Turns
  /\ reaper \in {"wait", "close", "done"} /\ victim \in Runtimes \cup {NoRuntime}
  /\ main \in {"serve", "join", "drain", "close", "done"}
  /\ doomed \in [Index -> Runtimes \cup {NoRuntime}]

\* Where the allocator puts the runtimes of fcgi_bridge_init.
First == CHOOSE f \in [1..MinWorkers -> Runtimes] :
           \A i, j \in 1..MinWorkers : f[i] = f[j] => i = j

\* The pool after fcgi_bridge_init: MinWorkers runtimes, the first of them the
\* primary one.
Init ==
  /\ slots = [i \in Index |->
       IF i <= MinWorkers THEN [Empty EXCEPT !.runtime = First[i]] ELSE Empty]
  /\ opened = {First[i] : i \in 1..MinWorkers}
  /\ slot_count = MinWorkers /\ starting_workers = 0 /\ waiting_turns = 0
  /\ outstanding_turns = 0 /\ stopping = FALSE
  /\ pc = [t \in Turns |-> "new"] /\ runtime = [t \in Turns |-> NoRuntime] /\ queued = {}
  /\ reaper = "wait" /\ victim = NoRuntime
  /\ main = "serve" /\ doomed = [i \in Index |-> NoRuntime]

\* pthread_cond_broadcast(&changed): every waiting turn looks again.
Woken == [t \in Turns |-> IF pc[t] = "wait" THEN "acquire" ELSE pc[t]]

---------------------------------------------------------------------------
(* A request posts a turn. *)

\* fcgi_bridge_turn_begin in the request's thread, which is joined before the
\* shutdown begins, so that starting the turn's thread belongs to the same step:
\* it succeeds, finds its session and publishes turn_start; or the thread cannot
\* be created, or its session has been deleted.
handle_post_turn(t) ==
  /\ main = "serve" /\ pc[t] = "new" /\ ~stopping
  /\ outstanding_turns' = outstanding_turns + 1
  /\ \E next \in {"acquire", "end"} : pc' = [pc EXCEPT ![t] = next]
  /\ UNCHANGED <<slots, slot_count, starting_workers, waiting_turns, stopping, opened,
                 runtime, queued, reaper, victim, main, doomed>>

fcgi_bridge_turn_end(t) ==
  /\ pc[t] = "end"
  /\ outstanding_turns' = outstanding_turns - 1
  /\ pc' = [(IF outstanding_turns = 1 THEN Woken ELSE pc) EXCEPT ![t] = "done"]
  /\ UNCHANGED <<slots, slot_count, starting_workers, waiting_turns, stopping, opened,
                 runtime, queued, reaper, victim, main, doomed>>

---------------------------------------------------------------------------
(* fcgi_bridge_runtime_acquire *)

\* Mutant: a session may have several turns at once.
session_busy_never(t, S, n) == FALSE

session_busy(t, S, n) == \E i \in 1..n : S[i].busy /\ S[i].session = SessionOf[t]

lowest(T) == CHOOSE i \in T : \A j \in T : i <= j
highest(T) == CHOOSE i \in T : \A j \in T : i >= j
free_slots(S, n) == {i \in 1..n : ~S[i].busy}

may_grow(n, starting) == n + starting < MaxWorkers

\* The acquisition ends: the turn leaves the queue.
Dequeue(t) ==
  /\ queued' = queued \ {t}
  /\ waiting_turns' = IF t \in queued THEN waiting_turns - 1 ELSE waiting_turns

\* One pass of the loop, under the lock, on slots S of which n are in use while
\* `starting` others are being opened; p is where the turns are.
Pass(t, S, n, starting, p) ==
  /\ slot_count' = n
  /\ UNCHANGED <<outstanding_turns, stopping>>
  /\ \/ /\ ~session_busy(t, S, n) /\ free_slots(S, n) # {}
        /\ LET i == lowest(free_slots(S, n)) IN
             /\ slots' = [S EXCEPT ![i].busy = TRUE, ![i].session = SessionOf[t]]
             /\ runtime' = [runtime EXCEPT ![t] = S[i].runtime]
        /\ starting_workers' = starting
        /\ pc' = [p EXCEPT ![t] = "run"]
        /\ Dequeue(t)
     \/ /\ ~session_busy(t, S, n) /\ free_slots(S, n) = {} /\ may_grow(n, starting)
        /\ starting_workers' = starting + 1
        /\ pc' = [p EXCEPT ![t] = "open"]
        /\ slots' = S /\ UNCHANGED <<runtime, queued, waiting_turns>>
     \/ /\ session_busy(t, S, n) \/ (free_slots(S, n) = {} /\ ~may_grow(n, starting))
        /\ slots' = S /\ starting_workers' = starting /\ UNCHANGED runtime
        /\ IF t \in queued \/ waiting_turns < QueueMax
           THEN /\ queued' = queued \cup {t}
                /\ waiting_turns' = IF t \in queued THEN waiting_turns ELSE waiting_turns + 1
                /\ pc' = [p EXCEPT ![t] = "wait"]
           ELSE /\ UNCHANGED <<queued, waiting_turns>>
                /\ pc' = [p EXCEPT ![t] = "end"]

Acquire(t) ==
  /\ pc[t] = "acquire" /\ ~stopping
  /\ Pass(t, slots, slot_count, starting_workers, pc)
  /\ UNCHANGED <<opened, reaper, victim, main, doomed>>

\* The pool is stopping: the turn ends with ESHUTDOWN.
AcquireStopped(t) ==
  /\ pc[t] = "acquire" /\ stopping
  /\ Dequeue(t)
  /\ pc' = [pc EXCEPT ![t] = "end"]
  /\ UNCHANGED <<slots, slot_count, starting_workers, outstanding_turns, stopping, opened,
                 runtime, reaper, victim, main, doomed>>

\* pthread_cond_timedwait returns ETIMEDOUT.
AcquireTimesOut(t) ==
  /\ pc[t] = "wait"
  /\ Dequeue(t)
  /\ pc' = [pc EXCEPT ![t] = "end"]
  /\ UNCHANGED <<slots, slot_count, starting_workers, outstanding_turns, stopping, opened,
                 runtime, reaper, victim, main, doomed>>

\* The pool is stopping when the runtime is there: it is to be closed.
Unwanted(t, r) ==
  /\ runtime' = [runtime EXCEPT ![t] = r]
  /\ pc' = [Woken EXCEPT ![t] = "close"]
  /\ UNCHANGED <<slots, slot_count, waiting_turns, outstanding_turns, stopping, queued>>

\* Where the allocator puts one more.  No thread keeps the address of a runtime
\* that has been closed, so that it does not matter which one it is.
Fresh == CHOOSE r \in Runtimes : r \notin opened

\* bridge_runtime_open returned a runtime; it is added to the pool, and the
\* loop goes round without giving up the lock.
RuntimeOpened(t, r) ==
  /\ pc[t] = "open" /\ r \in Runtimes \ opened
  /\ opened' = opened \cup {r}
  /\ IF stopping \/ slot_count >= MaxWorkers
     THEN Unwanted(t, r) /\ starting_workers' = starting_workers - 1
     ELSE Pass(t, [slots EXCEPT ![slot_count + 1] =
                     [Empty EXCEPT !.runtime = r, !.elastic = TRUE]],
               slot_count + 1, starting_workers - 1, Woken)
  /\ UNCHANGED <<reaper, victim, main, doomed>>

\* bridge_runtime_open failed.
OpenFails(t) ==
  /\ pc[t] = "open"
  /\ starting_workers' = starting_workers - 1
  /\ Dequeue(t)
  /\ pc' = [Woken EXCEPT ![t] = "end"]
  /\ UNCHANGED <<slots, slot_count, outstanding_turns, stopping, opened,
                 runtime, reaper, victim, main, doomed>>

\* runtime_close(created), then the loop's next look at the pool.
CloseUnwanted(t) ==
  /\ pc[t] = "close"
  /\ opened' = opened \ {runtime[t]}
  /\ runtime' = [runtime EXCEPT ![t] = NoRuntime]
  /\ pc' = [pc EXCEPT ![t] = "acquire"]
  /\ UNCHANGED <<pool, queued, reaper, victim, main, doomed>>

\* The slots after runtime r has been given back.
released(r) ==
  [i \in Index |-> IF i <= slot_count /\ slots[i].runtime = r
                   THEN [slots[i] EXCEPT !.busy = FALSE, !.session = NoSession] ELSE slots[i]]

\* runtime_execute_turn has returned: the slot of the runtime becomes free.
fcgi_bridge_runtime_release(t) ==
  /\ pc[t] = "run"
  /\ slots' = released(runtime[t])
  /\ runtime' = [runtime EXCEPT ![t] = NoRuntime]
  /\ pc' = [Woken EXCEPT ![t] = "end"]
  /\ UNCHANGED <<slot_count, starting_workers, waiting_turns, outstanding_turns, stopping,
                 opened, queued, reaper, victim, main, doomed>>

---------------------------------------------------------------------------
(* bridge_reaper_main *)

\* A slot that may have been idle for idle_seconds.
expired(i) == i <= slot_count /\ slots[i].elastic /\ ~slots[i].busy

ReaperTakes(i) ==
  /\ reaper = "wait" /\ ~stopping
  /\ slot_count > MinWorkers /\ expired(i)
  /\ victim' = slots[i].runtime
  /\ slots' = [slots EXCEPT ![i] = slots[slot_count], ![slot_count] = Empty]
  /\ slot_count' = slot_count - 1
  /\ reaper' = "close"
  /\ UNCHANGED <<starting_workers, waiting_turns, outstanding_turns, stopping, opened,
                 turn, main, doomed>>

ReaperCloses ==
  /\ reaper = "close"
  /\ opened' = opened \ {victim}
  /\ victim' = NoRuntime
  /\ reaper' = "wait"
  /\ UNCHANGED <<pool, turn, main, doomed>>

ReaperStops ==
  /\ reaper = "wait" /\ stopping
  /\ reaper' = "done"
  /\ UNCHANGED <<pool, opened, turn, victim, main, doomed>>

---------------------------------------------------------------------------
(* main joins the request threads and calls fcgi_bridge_shutdown. *)

ShutdownBegins ==
  /\ main = "serve"
  /\ stopping' = TRUE
  /\ pc' = Woken
  /\ main' = "join"
  /\ UNCHANGED <<slots, slot_count, starting_workers, waiting_turns, outstanding_turns,
                 opened, runtime, queued, reaper, victim, doomed>>

\* pthread_join(reaper_thread)
ShutdownJoins ==
  /\ main = "join" /\ reaper = "done"
  /\ main' = "drain"
  /\ UNCHANGED <<pool, opened, turn, reaper, victim, doomed>>

\* while (outstanding_turns > 0): looked at again after every broadcast, and the
\* last turn's end broadcasts.
drained == outstanding_turns = 0

ShutdownTakes ==
  /\ main = "drain" /\ drained
  /\ doomed' = [i \in Index |-> slots[i].runtime]
  /\ slots' = [i \in Index |-> Empty] /\ slot_count' = 0
  /\ main' = "close"
  /\ UNCHANGED <<starting_workers, waiting_turns, outstanding_turns, stopping, opened,
                 turn, reaper, victim>>

\* Mutant: the loop over the slots stops before the primary.
ShutdownCloses_off ==
  /\ main = "close"
  /\ LET left == {i \in Index : i > 1 /\ doomed[i] # NoRuntime} IN
       IF left = {} THEN main' = "done" /\ UNCHANGED <<opened, doomed>>
       ELSE /\ opened' = opened \ {doomed[highest(left)]}
            /\ doomed' = [doomed EXCEPT ![highest(left)] = NoRuntime]
            /\ UNCHANGED main
  /\ UNCHANGED <<pool, turn, reaper, victim>>

\* bridge_runtime_close_slots: from the last slot down to the primary.
ShutdownCloses ==
  /\ main = "close"
  /\ LET left == {i \in Index : doomed[i] # NoRuntime} IN
       IF left = {} THEN main' = "done" /\ UNCHANGED <<opened, doomed>>
       ELSE /\ opened' = opened \ {doomed[highest(left)]}
            /\ doomed' = [doomed EXCEPT ![highest(left)] = NoRuntime]
            /\ UNCHANGED main
  /\ UNCHANGED <<pool, turn, reaper, victim>>

---------------------------------------------------------------------------
Turn(t) ==
  \/ Acquire(t) \/ AcquireStopped(t)
  \/ RuntimeOpened(t, Fresh) \/ OpenFails(t) \/ CloseUnwanted(t)
  \/ fcgi_bridge_runtime_release(t) \/ fcgi_bridge_turn_end(t)

Reaper == (\E i \in Index : ReaperTakes(i)) \/ ReaperCloses \/ ReaperStops

Shutdown == ShutdownBegins \/ ShutdownJoins \/ ShutdownTakes \/ ShutdownCloses

Next ==
  \/ \E t \in Turns : handle_post_turn(t) \/ Turn(t) \/ AcquireTimesOut(t)
  \/ Reaper
  \/ Shutdown

Spec == Init /\ [][Next]_vars

\* A turn's thread goes on (requests to models and tools have deadlines), and so
\* do the reaper and a shutdown that has begun.  Nobody has to post a turn or to
\* stop the server, and no deadline of a waiting turn has to pass.
Fairness ==
  /\ \A t \in Turns : WF_vars(Turn(t))
  /\ WF_vars(ReaperCloses \/ ReaperStops)
  /\ WF_vars(ShutdownJoins \/ ShutdownTakes \/ ShutdownCloses)

---------------------------------------------------------------------------
(* Properties *)

\* A runtime runs one turn at a time and a session has one turn running: the
\* slot of a running turn is busy for it, the runtime in it is open, and no other
\* running turn has the runtime or the session, whatever the pool grew to, gave
\* away or closed meanwhile (bridge_find_free_slot, bridge_reaper_main).
TurnsExclusive ==
  /\ \A t \in Turns : pc[t] = "run" =>
       /\ runtime[t] \in opened
       /\ \E i \in 1..slot_count :
            slots[i].runtime = runtime[t] /\ slots[i].busy /\ slots[i].session = SessionOf[t]
  /\ \A t, u \in Turns : pc[t] = "run" /\ pc[u] = "run" /\ t # u =>
       runtime[t] # runtime[u] /\ SessionOf[t] # SessionOf[u]

\* The runtimes that are open or being opened never exceed max_workers plus the
\* one the reaper is closing, the queue never exceeds queue_max, and the primary
\* runtime, which fcgi_bridge_runtime hands out without taking it, stays in the
\* first slot until no turn is left.  Every variable keeps its type.
PoolBounded ==
  /\ TypeOK
  /\ slot_count + starting_workers <= MaxWorkers /\ waiting_turns <= QueueMax
  /\ main \notin {"close", "done"} =>
       /\ slot_count >= MinWorkers
       /\ \A i \in 1..MinWorkers : ~slots[i].elastic /\ slots[i].runtime \in opened
  /\ (\E t \in Turns : pc[t] \notin {"new", "done"}) => main \notin {"close", "done"}

\* Who has to close runtime r: the slot it is in, the turn that opened it
\* during a shutdown, the reaper, or the shutdown that has taken its slot.
Owners(r) ==
  ({"slot"} \X {i \in 1..slot_count : slots[i].runtime = r})
  \cup ({"turn"} \X {t \in Turns : pc[t] = "close" /\ runtime[t] = r})
  \cup ({"reaper"} \X {v \in {victim} : v = r})
  \cup ({"shutdown"} \X {i \in Index : doomed[i] = r})

\* Every open runtime has exactly one owner that will close it, and a closed one
\* has none.  A server that has shut down has closed them all (the error paths
\* of fcgi_bridge_runtime_acquire, fcgi_bridge_shutdown).
NothingLeaked ==
  /\ \A r \in opened : \E o \in Owners(r) : Owners(r) = {o}
  /\ \A r \in Runtimes \ opened : Owners(r) = {}

\* A turn that sleeps has nothing to wake up for: its session is busy, or no slot
\* is free and the pool is full.  No sequence of releases, failed openings,
\* growth and reaping leaves a turn asleep beside a free slot.
NoLostWakeup ==
  \A t \in Turns : pc[t] = "wait" =>
    /\ ~stopping
    /\ \/ session_busy(t, slots, slot_count)
       \/ free_slots(slots, slot_count) = {} /\ ~may_grow(slot_count, starting_workers)

\* Turns are exclusive, the pool keeps its bounds and leaks no runtime, and no
\* turn sleeps beside a free slot (fcgi_bridge_runtime_acquire and its release,
\* the reaper and the shutdown).
PoolSound == TurnsExclusive /\ PoolBounded /\ NothingLeaked /\ NoLostWakeup

\* An accepted turn ends, even if no waiting turn ever times out: a runtime
\* becomes free for it or the shutdown turns it away.  A shutdown that has begun
\* returns, with every runtime closed.  (A turn is posted once, so "each ends" is
\* that from some time on none is under way.)
PoolSettles ==
  <>[](/\ \A t \in Turns : pc[t] \in {"new", "done"}
       /\ stopping => main = "done" /\ opened = {})
=============================================================================
