----------------------------- MODULE MemoryJobs -----------------------------
(***************************************************************************)
(* The background extraction of memories (src/agent/memory_jobs.c, the     *)
(* consolidation and the clear of src/agent/memory.c): a durable row per   *)
(* job in a database that several processes share, and in each process a   *)
(* FIFO queue drained by one worker thread.  A process submits jobs,       *)
(* recovers the ones left by processes that died, clears the session's     *)
(* memory, shuts down or crashes at any step.                              *)
(*                                                                         *)
(* An element of Procs is one run of the program: it starts once and never *)
(* comes back.  A new run may get the pid of one that ended.               *)
(***************************************************************************)
EXTENDS Naturals, Sequences, FiniteSets

CONSTANTS
  Jobs,         \* bound: the jobs that may be submitted
  Procs,        \* bound: the runs of the program
  Pids,         \* process ids
  NoJob, NoPid, NoProc,
  MaxClears,    \* bound: clears of the session's memory
  MaxAttempts,  \* bound: attempts of a job (crashes do not count against 3)
  ReusePids     \* a new run may get the pid of a running job's dead worker

ASSUME JobsAssumption ==
  /\ NoJob \notin Jobs /\ NoPid \notin Pids /\ NoProc \notin Procs
  /\ MaxClears \in Nat /\ MaxAttempts \in Nat /\ ReusePids \in BOOLEAN

States == {"none", "queued", "running", "completed", "failed", "cancelled"}
RetryLimit == 3

VARIABLES
  (* memory_jobs: *)
  state, attempts, worker, gen,
  (* memory_scopes, memory_candidates, memory_episodes: *)
  generation, candidates, episodes,
  (* the processes: *)
  up, pid,
  queue,          \* g_async_head .. g_async_tail
  running, stop,  \* g_async_running, g_async_stop
  wpc, wjob,      \* the worker thread and its job
  worst,          \* the result of memory_consolidate_turn
  fpc, fjob,      \* the thread that accepts input, and the job it submits
  fgen,           \* the generation it has read
  snap, todo,     \* the rows that memory_async_resume lists
  clears,
  owner,          \* history: the run that claimed the job last
  written         \* history: jobs whose episode was once stored

rowvars == <<state, attempts, worker, gen>>
storevars == <<generation, candidates, episodes>>
procvars == <<up, pid>>
asyncvars == <<queue, running, stop>>
workervars == <<wpc, wjob, worst>>
inputvars == <<fpc, fjob, fgen, snap, todo>>
histvars == <<clears, owner, written>>
vars == <<rowvars, storevars, procvars, asyncvars, workervars, inputvars, histvars>>

Table == <<state, attempts, worker, gen, generation, candidates, episodes>>

Working(p) == wpc[p] \in {"llm", "episode", "complete"}

TypeOK ==
  /\ state \in [Jobs -> States] /\ attempts \in [Jobs -> Nat]
  /\ worker \in [Jobs -> Pids \cup {NoPid}] /\ gen \in [Jobs -> Nat]
  /\ generation \in Nat /\ candidates \subseteq Jobs /\ episodes \in [Jobs -> Nat]
  /\ up \in [Procs -> {"new", "up", "down"}] /\ pid \in [Procs -> Pids \cup {NoPid}]
  /\ queue \in [Procs -> Seq(Jobs)]
  /\ running \in [Procs -> BOOLEAN] /\ stop \in [Procs -> BOOLEAN]
  /\ wpc \in [Procs -> {"none", "wait", "open", "llm", "episode", "complete"}]
  /\ wjob \in [Procs -> Jobs \cup {NoJob}] /\ worst \in [Procs -> {"ok", "stale", "error"}]
  /\ fpc \in [Procs -> {"idle", "record", "enqueue", "resume", "join"}]
  /\ fjob \in [Procs -> Jobs \cup {NoJob}] /\ fgen \in [Procs -> Nat]
  /\ todo \in [Procs -> SUBSET Jobs]
  /\ clears \in 0..MaxClears /\ owner \in [Jobs -> Procs \cup {NoProc}]
  /\ written \subseteq Jobs

Init ==
  /\ state = [j \in Jobs |-> "none"] /\ attempts = [j \in Jobs |-> 0]
  /\ worker = [j \in Jobs |-> NoPid] /\ gen = [j \in Jobs |-> 0]
  /\ generation = 0 /\ candidates = {} /\ episodes = [j \in Jobs |-> 0]
  /\ up = [p \in Procs |-> "new"] /\ pid = [p \in Procs |-> NoPid]
  /\ queue = [p \in Procs |-> <<>>]
  /\ running = [p \in Procs |-> FALSE] /\ stop = [p \in Procs |-> FALSE]
  /\ wpc = [p \in Procs |-> "none"] /\ wjob = [p \in Procs |-> NoJob]
  /\ worst = [p \in Procs |-> "ok"]
  /\ fpc = [p \in Procs |-> "idle"] /\ fjob = [p \in Procs |-> NoJob]
  /\ fgen = [p \in Procs |-> 0] /\ snap = [p \in Procs |-> <<>>]
  /\ todo = [p \in Procs |-> {}]
  /\ clears = 0 /\ owner = [j \in Jobs |-> NoProc] /\ written = {}

-----------------------------------------------------------------------------
(* Processes. *)

\* kill(pid, 0) == 0
Alive(i) == \E p \in Procs : up[p] = "up" /\ pid[p] = i

Start(p, i) ==
  /\ up[p] = "new" /\ ~Alive(i)
  /\ ReusePids \/ \A j \in Jobs : worker[j] # i
  /\ up' = [up EXCEPT ![p] = "up"] /\ pid' = [pid EXCEPT ![p] = i]
  /\ UNCHANGED <<rowvars, storevars, asyncvars, workervars, inputvars, histvars>>

\* The threads and the queue of a run that ends, in any way, are gone.
Gone(p) ==
  /\ up' = [up EXCEPT ![p] = "down"]
  /\ queue' = [queue EXCEPT ![p] = <<>>]
  /\ running' = [running EXCEPT ![p] = FALSE]
  /\ wpc' = [wpc EXCEPT ![p] = "none"] /\ wjob' = [wjob EXCEPT ![p] = NoJob]
  /\ stop' = [stop EXCEPT ![p] = FALSE] /\ worst' = [worst EXCEPT ![p] = "ok"]
  /\ fpc' = [fpc EXCEPT ![p] = "idle"] /\ todo' = [todo EXCEPT ![p] = {}]
  /\ fjob' = [fjob EXCEPT ![p] = NoJob] /\ fgen' = [fgen EXCEPT ![p] = 0]
  /\ snap' = [snap EXCEPT ![p] = <<>>]
  /\ UNCHANGED <<rowvars, storevars, pid, histvars>>

Crash(p) == up[p] = "up" /\ Gone(p)

-----------------------------------------------------------------------------
(* memory_async_worker. *)

Step(p, from, to) == wpc[p] = from /\ wpc' = [wpc EXCEPT ![p] = to]

WorkerTakes(p) ==
  /\ queue[p] # <<>>
  /\ Step(p, "wait", "open")
  /\ wjob' = [wjob EXCEPT ![p] = Head(queue[p])]
  /\ queue' = [queue EXCEPT ![p] = Tail(queue[p])]
  /\ UNCHANGED <<rowvars, storevars, procvars, running, stop, worst, inputvars, histvars>>

WorkerExits(p) ==
  /\ stop[p] /\ queue[p] = <<>>
  /\ Step(p, "wait", "none")
  /\ UNCHANGED <<rowvars, storevars, procvars, asyncvars, wjob, worst, inputvars, histvars>>

memory_job_claim(p) ==
  /\ Step(p, "open", "llm")
  /\ state[wjob[p]] = "queued" /\ attempts[wjob[p]] < MaxAttempts
  /\ state' = [state EXCEPT ![wjob[p]] = "running"]
  /\ attempts' = [attempts EXCEPT ![wjob[p]] = @ + 1]
  /\ worker' = [worker EXCEPT ![wjob[p]] = pid[p]]
  /\ owner' = [owner EXCEPT ![wjob[p]] = p]
  /\ worst' = [worst EXCEPT ![p] = "ok"]
  /\ UNCHANGED <<gen, storevars, procvars, asyncvars, wjob, inputvars, clears, written>>

\* The job is not queued any more.
ClaimedNothing(p) ==
  /\ Step(p, "open", "wait")
  /\ wjob' = [wjob EXCEPT ![p] = NoJob]
  /\ state[wjob[p]] # "queued"
  /\ UNCHANGED <<rowvars, storevars, procvars, asyncvars, worst, inputvars, histvars>>

\* The worker's connection or its update fails: the row stays queued.
ClaimFails(p) ==
  /\ Step(p, "open", "wait")
  /\ wjob' = [wjob EXCEPT ![p] = NoJob]
  /\ UNCHANGED <<rowvars, storevars, procvars, asyncvars, worst, inputvars, histvars>>

FirstError(p, e) == worst' = [worst EXCEPT ![p] = IF @ = "ok" THEN e ELSE @]

\* memory_begin_generation, the first statement of each write transaction.
Current(p) == gen[wjob[p]] = generation

\* The model answered: its candidates are stored, unless memory was cleared.
memory_capture_llm_path(p) ==
  /\ Step(p, "llm", "episode")
  /\ IF Current(p)
     THEN candidates' = candidates \cup {wjob[p]} /\ UNCHANGED worst
     ELSE FirstError(p, "stale") /\ UNCHANGED candidates
  /\ UNCHANGED <<rowvars, generation, episodes, procvars, asyncvars, wjob, inputvars, histvars>>

\* The model has no answer (not an error), or the write fails.
CaptureFails(p) ==
  /\ Step(p, "llm", "episode")
  /\ \/ UNCHANGED worst
     \/ FirstError(p, "error")
  /\ UNCHANGED <<rowvars, storevars, procvars, asyncvars, wjob, inputvars, histvars>>

\* ON CONFLICT DO NOTHING on the job id.
memory_insert_episode(j) ==
  episodes' = [episodes EXCEPT ![j] = IF @ = 0 THEN 1 ELSE @]

\* The mutant: the generation is not compared again.
ConsolidateEpisode_unchecked(p) ==
  /\ Step(p, "episode", "complete")
  /\ memory_insert_episode(wjob[p])
  /\ written' = written \cup {wjob[p]}
  /\ UNCHANGED worst
  /\ UNCHANGED <<rowvars, generation, candidates, procvars, asyncvars, wjob, inputvars, clears, owner>>

ConsolidateEpisode(p) ==
  /\ Step(p, "episode", "complete")
  /\ IF Current(p)
     THEN /\ memory_insert_episode(wjob[p])
          /\ written' = written \cup {wjob[p]}
          /\ UNCHANGED worst
     ELSE FirstError(p, "stale") /\ UNCHANGED <<episodes, written>>
  /\ UNCHANGED <<rowvars, generation, candidates, procvars, asyncvars, wjob, inputvars, clears, owner>>

EpisodeFails(p) ==
  /\ Step(p, "episode", "complete")
  /\ FirstError(p, "error")
  /\ UNCHANGED <<rowvars, storevars, procvars, asyncvars, wjob, inputvars, histvars>>

EndState(w) ==
  CASE w = "ok" -> "completed" [] w = "stale" -> "cancelled" [] w = "error" -> "failed"

memory_job_complete(p) ==
  /\ Step(p, "complete", "wait")
  /\ wjob' = [wjob EXCEPT ![p] = NoJob] /\ worst' = [worst EXCEPT ![p] = "ok"]
  /\ state' = [state EXCEPT ![wjob[p]] = IF @ = "running" THEN EndState(worst[p]) ELSE @]
  /\ UNCHANGED <<attempts, worker, gen, storevars, procvars, asyncvars, inputvars, histvars>>

\* The result of the update is ignored.
CompleteFails(p) ==
  /\ Step(p, "complete", "wait")
  /\ wjob' = [wjob EXCEPT ![p] = NoJob] /\ worst' = [worst EXCEPT ![p] = "ok"]
  /\ UNCHANGED <<rowvars, storevars, procvars, asyncvars, inputvars, histvars>>

Worker(p) ==
  \/ WorkerTakes(p) \/ WorkerExits(p)
  \/ memory_job_claim(p) \/ ClaimedNothing(p) \/ ClaimFails(p)
  \/ memory_capture_llm_path(p) \/ CaptureFails(p)
  \/ ConsolidateEpisode(p) \/ EpisodeFails(p)
  \/ memory_job_complete(p) \/ CompleteFails(p)

-----------------------------------------------------------------------------
(* The thread that accepts input. *)

\* memory_async_ensure_worker, then j at the tail of the queue.
EnsureAndPut(p, j) ==
  /\ running' = [running EXCEPT ![p] = TRUE]
  /\ stop' = [stop EXCEPT ![p] = IF running[p] THEN @ ELSE FALSE]
  /\ wpc' = [wpc EXCEPT ![p] = IF running[p] THEN @ ELSE "wait"]
  /\ queue' = [queue EXCEPT ![p] = Append(@, j)]

\* memory_consolidate_turn_async reads the generation ...
SubmitReads(p, j) ==
  /\ up[p] = "up" /\ fpc[p] = "idle" /\ state[j] = "none"
  /\ \A q \in Procs : fpc[q] = "record" => fjob[q] # j
  /\ fgen' = [fgen EXCEPT ![p] = generation]
  /\ fjob' = [fjob EXCEPT ![p] = j]
  /\ fpc' = [fpc EXCEPT ![p] = "record"]
  /\ UNCHANGED <<rowvars, storevars, procvars, asyncvars, workervars, snap, todo, histvars>>

\* ... then inserts the row ...
memory_job_record(p) ==
  /\ fpc[p] = "record"
  /\ state' = [state EXCEPT ![fjob[p]] = "queued"]
  /\ gen' = [gen EXCEPT ![fjob[p]] = fgen[p]]
  /\ fpc' = [fpc EXCEPT ![p] = "enqueue"]
  /\ UNCHANGED <<attempts, worker, storevars, procvars, asyncvars, workervars,
                 fjob, fgen, snap, todo, histvars>>

\* ... then queues the job, if the worker can be started.
SubmitEnqueues(p) ==
  /\ fpc[p] = "enqueue" /\ fpc' = [fpc EXCEPT ![p] = "idle"]
  /\ EnsureAndPut(p, fjob[p])
  /\ fjob' = [fjob EXCEPT ![p] = NoJob] /\ fgen' = [fgen EXCEPT ![p] = 0]
  /\ UNCHANGED <<rowvars, storevars, procvars, wjob, worst, snap, todo, histvars>>

SubmitFails(p) ==
  /\ fpc[p] \in {"record", "enqueue"} /\ fpc' = [fpc EXCEPT ![p] = "idle"]
  /\ fjob' = [fjob EXCEPT ![p] = NoJob] /\ fgen' = [fgen EXCEPT ![p] = 0]
  /\ UNCHANGED <<rowvars, storevars, procvars, asyncvars, workervars, snap, todo, histvars>>

\* memory_async_resume: the rows to look at.  Which of the failed jobs are
\* old enough is open.
ResumeLists(p) ==
  /\ up[p] = "up" /\ fpc[p] = "idle"
  /\ fpc' = [fpc EXCEPT ![p] = "resume"]
  /\ snap' = [snap EXCEPT ![p] = Table]
  /\ \E aged \in SUBSET {j \in Jobs : state[j] = "failed" /\ attempts[j] < RetryLimit} :
       todo' = [todo EXCEPT ![p] = {j \in Jobs : state[j] \in {"queued", "running"}} \cup aged]
  /\ UNCHANGED <<rowvars, storevars, procvars, asyncvars, workervars, fjob, fgen, histvars>>

Enqueued(p, j) == \E i \in 1..Len(queue[p]) : queue[p][i] = j

\* Requeue the job unless it waits in the queue already.
ResumePuts(p, j) ==
  IF Enqueued(p, j) THEN UNCHANGED <<asyncvars, wpc>> ELSE EnsureAndPut(p, j)

\* The mutant: a running job is taken for lost whoever runs it.
SkipsLive_never(p, j) == FALSE

SkipsLive(p, j) == snap[p][1][j] = "running" /\ Alive(snap[p][3][j])

ResumeSkips(p, j) ==
  /\ fpc[p] = "resume" /\ j \in todo[p] /\ SkipsLive(p, j)
  /\ todo' = [todo EXCEPT ![p] = @ \ {j}]
  /\ UNCHANGED <<rowvars, storevars, procvars, asyncvars, workervars, fpc, fjob, fgen, snap, histvars>>

\* A row listed as queued is put in the queue as it is.
ResumeQueued(p, j) ==
  /\ fpc[p] = "resume" /\ j \in todo[p] /\ snap[p][1][j] = "queued"
  /\ ResumePuts(p, j)
  /\ todo' = [todo EXCEPT ![p] = @ \ {j}]
  /\ UNCHANGED <<rowvars, storevars, procvars, wjob, worst, fpc, fjob, fgen, snap, histvars>>

\* Another row is reset first.  The update runs inside the read transaction
\* of the listing: SQLite refuses it if anyone has written since.
ResumeResets(p, j) ==
  /\ fpc[p] = "resume" /\ j \in todo[p] /\ ~SkipsLive(p, j)
  /\ snap[p][1][j] # "queued" /\ snap[p] = Table
  /\ state' = [state EXCEPT ![j] = "queued"]
  /\ snap' = [snap EXCEPT ![p] = <<state', attempts, worker, gen, generation, candidates, episodes>>]
  /\ ResumePuts(p, j)
  /\ todo' = [todo EXCEPT ![p] = @ \ {j}]
  /\ UNCHANGED <<attempts, worker, gen, storevars, procvars, wjob, worst, fpc, fjob, fgen, histvars>>

\* All rows are done, or a step of the recovery failed.
ResumeEnds(p) ==
  /\ fpc[p] = "resume" /\ fpc' = [fpc EXCEPT ![p] = "idle"]
  /\ todo' = [todo EXCEPT ![p] = {}] /\ snap' = [snap EXCEPT ![p] = <<>>]
  /\ UNCHANGED <<rowvars, storevars, procvars, asyncvars, workervars, fjob, fgen, histvars>>

\* memory_clear: everything, only episodes, or only facts or procedures
\* (which keeps what is modelled).
memory_clear(p) ==
  /\ up[p] = "up" /\ fpc[p] = "idle" /\ clears < MaxClears
  /\ clears' = clears + 1
  /\ generation' = generation + 1
  /\ \/ candidates' = {} /\ episodes' = [j \in Jobs |-> 0]
     \/ UNCHANGED candidates /\ episodes' = [j \in Jobs |-> 0]
     \/ UNCHANGED <<candidates, episodes>>
  /\ state' = [j \in Jobs |-> IF state[j] \in {"none", "completed"} THEN state[j] ELSE "cancelled"]
  /\ UNCHANGED <<attempts, worker, gen, procvars, asyncvars, workervars, inputvars, owner, written>>

\* memory_async_shutdown waits for the worker to drain the queue.
ShutdownStops(p) ==
  /\ up[p] = "up" /\ fpc[p] = "idle" /\ running[p]
  /\ stop' = [stop EXCEPT ![p] = TRUE]
  /\ fpc' = [fpc EXCEPT ![p] = "join"]
  /\ UNCHANGED <<rowvars, storevars, procvars, queue, running, workervars,
                 fjob, fgen, snap, todo, histvars>>

ShutdownJoins(p) == fpc[p] = "join" /\ wpc[p] = "none" /\ Gone(p)

Input(p) ==
  \/ \E j \in Jobs : SubmitReads(p, j)
  \/ memory_job_record(p) \/ SubmitEnqueues(p) \/ SubmitFails(p)
  \/ ResumeLists(p) \/ ResumeEnds(p)
  \/ \E j \in Jobs : ResumeSkips(p, j) \/ ResumeQueued(p, j) \/ ResumeResets(p, j)
  \/ memory_clear(p) \/ ShutdownStops(p) \/ ShutdownJoins(p)

Next ==
  \E p \in Procs :
    \/ \E i \in Pids : Start(p, i)
    \/ Crash(p) \/ Worker(p) \/ Input(p)

Spec == Init /\ [][Next]_vars

-----------------------------------------------------------------------------
(* Properties. *)

\* No two workers, of any processes, work on one job at the same time:
\* recovery never takes a job from a worker that is alive.
OneWorker ==
  \A p, q \in Procs : Working(p) /\ Working(q) /\ wjob[p] = wjob[q] => p = q

\* A job leaves an episode at most once, also when it is recovered after a
\* crash between the episode and the completion marker.
EpisodeOnce == \A j \in Jobs : episodes[j] <= 1

\* A job is reported as completed only if its episode was stored.
CompletedStored == \A j \in Jobs : state[j] = "completed" => j \in written

\* A result that comes back after a clear stores nothing: what is added to
\* the candidates or the episodes is of the current generation.
NothingReinserted ==
  \A j \in Jobs : (j \in candidates' \ candidates \/ episodes'[j] > episodes[j])
                     => gen[j] = generation'

\* Completed and cancelled jobs stay so.
EndsFinal ==
  \A j \in Jobs : state[j] \in {"completed", "cancelled"} => state'[j] = state[j]

\* A job whose worker's run has ended.
Orphaned(j) == state[j] = "running" /\ up[owner[j]] = "down"

\* Queued work does not wait forever while some run goes on accepting input,
\* even when the run that submitted it could not start its worker or died.
Taken == \A j \in Jobs : state[j] # "queued"

\* The recovery never passes over a job whose worker's run has ended: a
\* row that it leaves alone has a worker that still runs, unless the row was
\* rewritten since the listing.
DeadRecovered ==
  \A p \in Procs, j \in Jobs :
    fpc[p] = "resume" /\ fpc'[p] = "resume" /\ j \in todo[p] \ todo'[p]
      /\ snap[p] = Table /\ Orphaned(j) => state'[j] = "queued"

\* A job has one worker at a time, leaves at most one episode and is completed
\* only once it has left it, whatever crashes, recoveries and clears come between
\* (memory_job_claim, memory_insert_episode, memory_job_complete).
JobsSound == TypeOK /\ OneWorker /\ EpisodeOnce /\ CompletedStored

\* What is over stays over: a clear, a completion and a cancellation are final,
\* and no recovery passes over a job whose worker's run has ended.
JobsFinal == [][NothingReinserted /\ EndsFinal /\ DeadRecovered]_vars
=============================================================================
