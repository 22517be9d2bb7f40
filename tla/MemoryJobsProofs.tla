-------------------------- MODULE MemoryJobsProofs --------------------------
(***************************************************************************)
(* Proofs about MemoryJobs for any number of jobs, runs and pids.          *)
(***************************************************************************)
EXTENDS MemoryJobs, TLAPS

\* A thread that handles a job has one.
JobsBound ==
  /\ \A p \in Procs : wpc[p] \in {"open", "llm", "episode", "complete"} => wjob[p] \in Jobs
  /\ \A p \in Procs : fpc[p] \in {"record", "enqueue"} => fjob[p] \in Jobs

\* A run that is not up has no threads; runs that are up have pids of their own.
RunsBound ==
  /\ \A p \in Procs : up[p] # "up" => wpc[p] = "none" /\ fpc[p] = "idle"
  /\ \A p \in Procs : up[p] = "up" => pid[p] \in Pids
  /\ \A p, q \in Procs : up[p] = "up" /\ up[q] = "up" /\ pid[p] = pid[q] => p = q

\* A job that is worked on is marked with the pid of its worker, or has been
\* cancelled since.
Held ==
  \A p \in Procs : Working(p) =>
    \/ state[wjob[p]] = "cancelled"
    \/ state[wjob[p]] = "running" /\ worker[wjob[p]] = pid[p]

\* A row that is about to be inserted is not there yet.
Recording ==
  /\ \A p \in Procs : fpc[p] = "record" => state[fjob[p]] = "none"
  /\ \A p, q \in Procs :
       fpc[p] = "record" /\ fpc[q] = "record" /\ fjob[p] = fjob[q] => p = q

\* The recovery looks only at jobs that have not ended.
Listed ==
  /\ snap = [p \in Procs |-> snap[p]]
  /\ \A p \in Procs : \A j \in todo[p] : snap[p][1][j] \in {"queued", "running", "failed"}

\* A consolidation without an error has stored the episode.
Stored ==
  \A p \in Procs : wpc[p] = "complete" /\ worst[p] = "ok" => wjob[p] \in written

\* Without reuse a live pid on a running row is its owner's.
Owned ==
  ~ReusePids => \A j \in Jobs, q \in Procs :
    state[j] = "running" /\ up[q] = "up" /\ pid[q] = worker[j] => owner[j] = q

IInv ==
  /\ TypeOK /\ JobsBound /\ RunsBound /\ Held /\ OneWorker /\ Recording /\ Listed
  /\ Stored /\ CompletedStored /\ EpisodeOnce /\ Owned

\* The tables are empty and nothing runs.
LEMMA InitInv == Init => IInv
BY JobsAssumption DEF Init, IInv, TypeOK, JobsBound, RunsBound, Held, OneWorker, Recording, Listed,
   Stored, CompletedStored, EpisodeOnce, Owned, Working, States

\* The columns that the recovery reads.
LEMMA TableFacts == Table[1] = state /\ Table[3] = worker
BY Zenon DEF Table

\* Starting the worker and queueing a job is of the right type and leaves no
\* worker on a job that it was not on.
LEMMA PutFacts ==
  ASSUME TypeOK, NEW p \in Procs, NEW j \in Jobs, EnsureAndPut(p, j) \/ ResumePuts(p, j)
  PROVE  /\ queue' \in [Procs -> Seq(Jobs)]
         /\ running' \in [Procs -> BOOLEAN] /\ stop' \in [Procs -> BOOLEAN]
         /\ wpc' \in [Procs -> {"none", "wait", "open", "llm", "episode", "complete"}]
         /\ \A q \in Procs : q # p => wpc'[q] = wpc[q]
         /\ wpc'[p] \in {wpc[p], "wait"}
<1>1. CASE EnsureAndPut(p, j)
  <2>1. queue' = [queue EXCEPT ![p] = Append(queue[p], j)] /\ Append(queue[p], j) \in Seq(Jobs)
    BY <1>1 DEF EnsureAndPut, TypeOK
  <2>2. queue' \in [Procs -> Seq(Jobs)]
    BY <2>1, Zenon DEF TypeOK
  <2>3. running' \in [Procs -> BOOLEAN]
    BY <1>1, Zenon DEF EnsureAndPut, TypeOK
  <2>4. stop' \in [Procs -> BOOLEAN]
    BY <1>1, Zenon DEF EnsureAndPut, TypeOK
  <2>5. PICK w \in {wpc[p], "wait"} : wpc' = [wpc EXCEPT ![p] = w]
    BY <1>1, Zenon DEF EnsureAndPut
  <2>6. /\ wpc' \in [Procs -> {"none", "wait", "open", "llm", "episode", "complete"}]
        /\ \A q \in Procs : q # p => wpc'[q] = wpc[q]
        /\ wpc'[p] \in {wpc[p], "wait"}
    BY <2>5, Zenon DEF TypeOK
  <2> QED BY Zenon, <2>2, <2>3, <2>4, <2>6
<1>2. CASE UNCHANGED <<asyncvars, wpc>>
  BY <1>2, Zenon DEF asyncvars, TypeOK
<1> QED BY <1>1, <1>2, Zenon DEF ResumePuts

\* A run starts: it has no threads yet, and its pid is nobody's.
LEMMA StartInv ==
  ASSUME IInv, NEW p \in Procs, NEW i \in Pids, Start(p, i)
  PROVE  IInv'
<1>1. UNCHANGED <<state, attempts, worker, gen, generation, candidates, episodes, queue,
                   running, stop, wpc, wjob, worst, fpc, fjob, fgen, snap, todo, clears,
                   owner, written>>
  BY Zenon DEF Start, rowvars, storevars, asyncvars, workervars, inputvars, histvars
<1>2. /\ wpc[p] = "none" /\ fpc[p] = "idle"
      /\ up'[p] = "up" /\ pid'[p] = i
      /\ \A q \in Procs : q # p => up'[q] = up[q] /\ pid'[q] = pid[q]
  BY <1>1, Zenon DEF IInv, TypeOK, RunsBound, Start
<1>3. (JobsBound /\ OneWorker /\ Recording /\ Listed /\ Stored /\ CompletedStored /\ EpisodeOnce)'
  BY <1>1, ZenonT(60) DEF IInv, JobsBound, OneWorker, Recording, Listed, Stored, CompletedStored,
     EpisodeOnce, Working
<1>4. TypeOK'
  BY <1>1, Zenon DEF IInv, TypeOK, States, Start
<1>5. RunsBound'
  <2>1. \A q \in Procs : up[q] = "up" => pid[q] # i
    BY Zenon DEF Start, Alive
  <2> QED BY <1>1, <1>2, <2>1 DEF IInv, RunsBound
<1>6. Held'
  <2>1. ~Working(p)
    BY <1>2, Zenon DEF Working
  <2> QED BY <1>1, <1>2, <2>1, Zenon DEF IInv, Held, Working
<1>7. Owned'
  <2>1. ~ReusePids => \A j \in Jobs : worker[j] # i
    BY Zenon DEF Start
  <2> QED BY <1>1, <1>2, <2>1, ZenonT(30) DEF IInv, Owned
<1> QED BY <1>3, <1>4, <1>5, <1>6, <1>7, Zenon DEF IInv

\* A run dies: what it worked on stays as it is in the table.
LEMMA CrashInv ==
  ASSUME IInv, NEW p \in Procs, Crash(p)
  PROVE  IInv'
<1>1. UNCHANGED <<state, attempts, worker, gen, generation, candidates, episodes, pid,
                   clears, owner, written>>
  BY Zenon DEF Crash, Gone, rowvars, storevars, histvars
<1>2. /\ up'[p] = "down" /\ wpc'[p] = "none" /\ wjob'[p] = NoJob /\ fpc'[p] = "idle"
         /\ fjob'[p] = NoJob /\ todo'[p] = {} /\ worst'[p] = "ok"
      /\ \A q \in Procs : q # p =>
           up'[q] = up[q] /\ wpc'[q] = wpc[q] /\ wjob'[q] = wjob[q] /\ fpc'[q] = fpc[q]
           /\ fjob'[q] = fjob[q] /\ todo'[q] = todo[q] /\ worst'[q] = worst[q]
           /\ snap'[q] = snap[q]
  BY <1>1 DEF IInv, TypeOK, Listed, Crash, Gone
<1>3. (CompletedStored /\ EpisodeOnce)'
  BY <1>1, Zenon DEF IInv, CompletedStored, EpisodeOnce
<1>4. TypeOK'
  BY <1>1 DEF IInv, TypeOK, States, Crash, Gone
<1>5. JobsBound'
  BY <1>1, <1>2, Zenon DEF IInv, JobsBound
<1>6. RunsBound'
  BY <1>1, <1>2 DEF IInv, RunsBound
<1>7. Held'
  BY <1>1, <1>2 DEF IInv, Held, JobsBound, RunsBound, Working
<1>8. OneWorker'
  BY <1>1, <1>2 DEF IInv, OneWorker, Working
<1>9. Recording'
  BY <1>1, <1>2 DEF IInv, Recording
<1>10. Listed'
  <2>1. snap' = [q \in Procs |-> snap'[q]]
    BY Zenon DEF IInv, Listed, Crash, Gone
  <2> QED BY <1>2, <2>1, Zenon DEF IInv, Listed
<1>11. Stored'
  BY <1>1, <1>2, Zenon DEF IInv, Stored
<1>12. Owned'
  BY <1>1, <1>2 DEF IInv, Owned
<1> QED BY <1>3, <1>4, <1>5, <1>6, <1>7, <1>8, <1>9, <1>10, <1>11, <1>12, Zenon DEF IInv

\* The worker takes a job; it does not work on it yet.
LEMMA WorkerTakesInv ==
  ASSUME IInv, NEW p \in Procs, WorkerTakes(p)
  PROVE  IInv'
<1>1. /\ wpc[p] = "wait"
      /\ UNCHANGED <<state, attempts, worker, gen, generation, candidates, episodes, up, pid,
                      running, stop, worst, fpc, fjob, fgen, snap, todo, clears, owner,
                      written>>
  BY Zenon DEF WorkerTakes, Step, rowvars, storevars, procvars, inputvars, histvars
<1>2. /\ wpc'[p] = "open"
      /\ \A q \in Procs : q # p => wpc'[q] = wpc[q] /\ wjob'[q] = wjob[q]
  BY <1>1, Zenon DEF IInv, TypeOK, WorkerTakes, Step
<1>3. (Recording /\ Listed /\ CompletedStored /\ EpisodeOnce /\ Owned)'
  BY <1>1, ZenonT(60) DEF IInv, Recording, Listed, CompletedStored, EpisodeOnce, Owned
<1>4. TypeOK'
  <2>1. Head(queue[p]) \in Jobs /\ Tail(queue[p]) \in Seq(Jobs)
    BY DEF IInv, TypeOK, WorkerTakes
  <2> QED BY <1>1, <2>1, Zenon DEF IInv, TypeOK, WorkerTakes, Step
<1>5. JobsBound'
  <2>1. wjob'[p] \in Jobs
    BY DEF IInv, TypeOK, WorkerTakes
  <2> QED BY <1>1, <1>2, <2>1, Zenon DEF IInv, JobsBound
<1>6. RunsBound'
  BY <1>1, <1>2, Zenon DEF IInv, RunsBound
<1>7. Held'
  BY <1>1, <1>2 DEF IInv, Held, JobsBound, RunsBound, Working
<1>8. OneWorker'
  BY <1>1, <1>2, Zenon DEF IInv, OneWorker, Working
<1>9. Stored'
  BY <1>1, <1>2, Zenon DEF IInv, Stored
<1> QED BY <1>3, <1>4, <1>5, <1>6, <1>7, <1>8, <1>9, Zenon DEF IInv

\* The worker thread ends.
LEMMA WorkerExitsInv ==
  ASSUME IInv, NEW p \in Procs, WorkerExits(p)
  PROVE  IInv'
<1>1. /\ wpc[p] = "wait"
      /\ UNCHANGED <<state, attempts, worker, gen, generation, candidates, episodes, up, pid,
                      queue, running, stop, wjob, worst, fpc, fjob, fgen, snap, todo, clears,
                      owner, written>>
  BY Zenon DEF WorkerExits, Step, rowvars, storevars, procvars, asyncvars, inputvars, histvars
<1>2. /\ wpc'[p] = "none"
      /\ \A q \in Procs : q # p => wpc'[q] = wpc[q]
  BY <1>1, Zenon DEF IInv, TypeOK, WorkerExits, Step
<1>3. (Recording /\ Listed /\ CompletedStored /\ EpisodeOnce /\ Owned)'
  BY <1>1, Zenon DEF IInv, Recording, Listed, CompletedStored, EpisodeOnce, Owned
<1>4. TypeOK'
  BY <1>1, ZenonT(60) DEF IInv, TypeOK, States, WorkerExits, Step
<1>5. JobsBound'
  BY <1>1, <1>2, Zenon DEF IInv, JobsBound
<1>6. RunsBound'
  BY <1>1, <1>2, Zenon DEF IInv, RunsBound
<1>7. Held'
  BY <1>1, <1>2, Zenon DEF IInv, Held, JobsBound, RunsBound, Working
<1>8. OneWorker'
  BY <1>1, <1>2, Zenon DEF IInv, OneWorker, Working
<1>9. Stored'
  BY <1>1, <1>2, Zenon DEF IInv, Stored
<1> QED BY <1>3, <1>4, <1>5, <1>6, <1>7, <1>8, <1>9, Zenon DEF IInv

\* A claim finds the job queued, so that no other worker is on it.
LEMMA memory_job_claimInv ==
  ASSUME IInv, NEW p \in Procs, memory_job_claim(p)
  PROVE  IInv'
<1>1. /\ wpc[p] = "open" /\ state[wjob[p]] = "queued"
      /\ UNCHANGED <<gen, generation, candidates, episodes, up, pid, queue, running, stop,
                      wjob, fpc, fjob, fgen, snap, todo, clears, written>>
  BY Zenon DEF memory_job_claim, Step, storevars, procvars, asyncvars, inputvars
<1>2. /\ wpc'[p] = "llm"
      /\ \A q \in Procs : q # p => wpc'[q] = wpc[q] /\ worst'[q] = worst[q]
      /\ wjob[p] \in Jobs
  BY <1>1, Zenon DEF IInv, TypeOK, JobsBound, memory_job_claim, Step
<1>3. /\ state'[wjob[p]] = "running" /\ worker'[wjob[p]] = pid[p] /\ owner'[wjob[p]] = p
      /\ \A k \in Jobs : k # wjob[p] => state'[k] = state[k] /\ worker'[k] = worker[k] /\ owner'[k] = owner[k]
  BY <1>1, <1>2 DEF IInv, TypeOK, memory_job_claim, Step
<1>4. (Listed /\ EpisodeOnce)'
  BY <1>1, Zenon DEF IInv, Listed, EpisodeOnce
<1>5. TypeOK'
  BY <1>1, SMTT(30) DEF IInv, TypeOK, States, JobsBound, memory_job_claim, Step
<1>6. JobsBound'
  BY <1>1, <1>2, <1>3, Zenon DEF IInv, JobsBound
<1>7. RunsBound'
  BY <1>1, <1>2, <1>3 DEF IInv, RunsBound
<1>8. Held'
  <2> SUFFICES ASSUME NEW q \in Procs, Working(q)', q # p
               PROVE  \/ state'[wjob[q]] = "cancelled"
                      \/ state'[wjob[q]] = "running" /\ worker'[wjob[q]] = pid[q]
    BY <1>1, <1>2, <1>3, Zenon DEF Held
  <2>1. Working(q) /\ wjob[q] \in Jobs
    BY <1>2, Zenon DEF IInv, JobsBound, Working
  <2> QED BY <1>1, <1>3, <2>1, Zenon DEF IInv, Held
<1>9. OneWorker'
  <2>1. \A q \in Procs : q # p /\ Working(q)' => Working(q) /\ wjob[q] # wjob[p]
    BY <1>1, <1>2, <1>3, Zenon DEF IInv, Held, Working
  <2> QED BY <1>1, <2>1, Zenon DEF IInv, OneWorker
<1>10. Recording'
  BY <1>1, <1>2, <1>3, ZenonT(60) DEF IInv, Recording, JobsBound
<1>11. Stored'
  BY <1>1, <1>2, <1>3, Zenon DEF IInv, Stored
<1>12. CompletedStored'
  BY <1>1, <1>2, <1>3, Zenon DEF IInv, CompletedStored, JobsBound
<1>13. Owned'
  <2> SUFFICES ASSUME ~ReusePids, NEW j \in Jobs, NEW q \in Procs,
                      state'[j] = "running", up[q] = "up", pid[q] = worker'[j]
               PROVE  owner'[j] = q
    BY <1>1, Zenon DEF Owned
  <2>1. up[p] = "up"
    BY <1>1, Zenon DEF IInv, RunsBound, TypeOK
  <2>2. CASE j = wjob[p]
    BY <1>1, <1>2, <1>3, <2>1, <2>2 DEF IInv, RunsBound
  <2>3. CASE j # wjob[p]
    BY <1>3, <2>3, ZenonT(30) DEF IInv, Owned
  <2> QED BY Zenon, <2>2, <2>3
<1> QED BY <1>4, <1>5, <1>6, <1>7, <1>8, <1>9, <1>10, <1>11, <1>12, <1>13, Zenon DEF IInv

\* The worker passes over the job.
LEMMA ClaimedNothingInv ==
  ASSUME IInv, NEW p \in Procs, ClaimedNothing(p)
  PROVE  IInv'
<1>1. /\ wpc[p] = "open"
      /\ UNCHANGED <<state, attempts, worker, gen, generation, candidates, episodes, up, pid,
                      queue, running, stop, worst, fpc, fjob, fgen, snap, todo, clears, owner,
                      written>>
  BY Zenon DEF ClaimedNothing, Step, rowvars, storevars, procvars, asyncvars, inputvars, histvars
<1>2. /\ wpc'[p] = "wait"
      /\ \A q \in Procs : q # p => wpc'[q] = wpc[q] /\ wjob'[q] = wjob[q]
  BY <1>1, Zenon DEF IInv, TypeOK, ClaimedNothing, Step
<1>3. (Recording /\ Listed /\ CompletedStored /\ EpisodeOnce /\ Owned)'
  BY <1>1 DEF IInv, Recording, Listed, CompletedStored, EpisodeOnce, Owned
<1>4. TypeOK'
  BY <1>1, Zenon DEF IInv, TypeOK, States, ClaimedNothing, Step
<1>5. JobsBound'
  BY <1>1, <1>2, Zenon DEF IInv, JobsBound
<1>6. RunsBound'
  BY <1>1, <1>2, Zenon DEF IInv, RunsBound
<1>7. Held'
  BY <1>1, <1>2 DEF IInv, Held, JobsBound, RunsBound, Working
<1>8. OneWorker'
  BY <1>1, <1>2, ZenonT(60) DEF IInv, OneWorker, Working
<1>9. Stored'
  BY <1>1, <1>2, Zenon DEF IInv, Stored
<1> QED BY <1>3, <1>4, <1>5, <1>6, <1>7, <1>8, <1>9, Zenon DEF IInv

\* The worker drops the job.
LEMMA ClaimFailsInv ==
  ASSUME IInv, NEW p \in Procs, ClaimFails(p)
  PROVE  IInv'
<1>1. /\ wpc[p] = "open"
      /\ UNCHANGED <<state, attempts, worker, gen, generation, candidates, episodes, up, pid,
                      queue, running, stop, worst, fpc, fjob, fgen, snap, todo, clears, owner,
                      written>>
  BY Zenon DEF ClaimFails, Step, rowvars, storevars, procvars, asyncvars, inputvars, histvars
<1>2. /\ wpc'[p] = "wait"
      /\ \A q \in Procs : q # p => wpc'[q] = wpc[q] /\ wjob'[q] = wjob[q]
  BY <1>1, Zenon DEF IInv, TypeOK, ClaimFails, Step
<1>3. (Recording /\ Listed /\ CompletedStored /\ EpisodeOnce /\ Owned)'
  BY <1>1, ZenonT(60) DEF IInv, Recording, Listed, CompletedStored, EpisodeOnce, Owned
<1>4. TypeOK'
  BY <1>1, Zenon DEF IInv, TypeOK, States, ClaimFails, Step
<1>5. JobsBound'
  BY <1>1, <1>2, Zenon DEF IInv, JobsBound
<1>6. RunsBound'
  BY <1>1, <1>2, Zenon DEF IInv, RunsBound
<1>7. Held'
  BY <1>1, <1>2 DEF IInv, Held, JobsBound, RunsBound, Working
<1>8. OneWorker'
  BY <1>1, <1>2, Zenon DEF IInv, OneWorker, Working
<1>9. Stored'
  BY <1>1, <1>2, Zenon DEF IInv, Stored
<1> QED BY <1>3, <1>4, <1>5, <1>6, <1>7, <1>8, <1>9, Zenon DEF IInv

\* Storing candidates.
LEMMA memory_capture_llm_pathInv ==
  ASSUME IInv, NEW p \in Procs, memory_capture_llm_path(p)
  PROVE  IInv'
<1>1. /\ wpc[p] = "llm"
      /\ UNCHANGED <<state, attempts, worker, gen, generation, episodes, up, pid, queue,
                      running, stop, wjob, fpc, fjob, fgen, snap, todo, clears, owner, written>>
  BY Zenon DEF memory_capture_llm_path, Step, rowvars, procvars, asyncvars, inputvars, histvars
<1>2. /\ wpc'[p] = "episode"
      /\ \A q \in Procs : q # p => wpc'[q] = wpc[q] /\ worst'[q] = worst[q]
  BY <1>1, Zenon DEF IInv, TypeOK, memory_capture_llm_path, Step, FirstError
<1>3. (Recording /\ Listed /\ CompletedStored /\ EpisodeOnce /\ Owned)'
  BY <1>1, ZenonT(60) DEF IInv, Recording, Listed, CompletedStored, EpisodeOnce, Owned
<1>4. TypeOK'
  <2>1. wpc' \in [Procs -> {"none", "wait", "open", "llm", "episode", "complete"}]
    BY Zenon DEF IInv, TypeOK, memory_capture_llm_path, Step
  <2>2. worst' \in [Procs -> {"ok", "stale", "error"}]
    <3>1. PICK e \in {"stale", worst[p]} : worst' = [worst EXCEPT ![p] = e]
      BY Zenon DEF IInv, TypeOK, memory_capture_llm_path, FirstError
    <3> QED BY <3>1, Zenon DEF IInv, TypeOK
  <2>3. candidates' \subseteq Jobs
    BY <1>1 DEF IInv, TypeOK, JobsBound, memory_capture_llm_path
  <2> QED BY <1>1, <2>1, <2>2, <2>3, Zenon DEF IInv, TypeOK
<1>5. JobsBound'
  BY <1>1, <1>2, Zenon DEF IInv, JobsBound
<1>6. RunsBound'
  BY <1>1, <1>2, Zenon DEF IInv, RunsBound
<1>7. Held'
  BY <1>1, <1>2 DEF IInv, Held, JobsBound, RunsBound, Working
<1>8. OneWorker'
  BY <1>1, <1>2 DEF IInv, OneWorker, Working
<1>9. Stored'
  BY <1>1, <1>2, Zenon DEF IInv, Stored
<1> QED BY <1>3, <1>4, <1>5, <1>6, <1>7, <1>8, <1>9, Zenon DEF IInv

\* No candidates.
LEMMA CaptureFailsInv ==
  ASSUME IInv, NEW p \in Procs, CaptureFails(p)
  PROVE  IInv'
<1>1. /\ wpc[p] = "llm"
      /\ UNCHANGED <<state, attempts, worker, gen, generation, candidates, episodes, up, pid,
                      queue, running, stop, wjob, fpc, fjob, fgen, snap, todo, clears, owner,
                      written>>
  BY Zenon DEF CaptureFails, Step, rowvars, storevars, procvars, asyncvars, inputvars, histvars
<1>2. /\ wpc'[p] = "episode"
      /\ \A q \in Procs : q # p => wpc'[q] = wpc[q] /\ worst'[q] = worst[q]
  BY <1>1, Zenon DEF IInv, TypeOK, CaptureFails, Step, FirstError
<1>3. (Recording /\ Listed /\ CompletedStored /\ EpisodeOnce /\ Owned)'
  BY <1>1, Zenon DEF IInv, Recording, Listed, CompletedStored, EpisodeOnce, Owned
<1>4. TypeOK'
  <2>1. wpc' \in [Procs -> {"none", "wait", "open", "llm", "episode", "complete"}]
    BY Zenon DEF IInv, TypeOK, CaptureFails, Step
  <2>2. worst' \in [Procs -> {"ok", "stale", "error"}]
    <3>1. PICK e \in {"error", worst[p]} : worst' = [worst EXCEPT ![p] = e]
      BY Zenon DEF IInv, TypeOK, CaptureFails, FirstError
    <3> QED BY <3>1, Zenon DEF IInv, TypeOK
  <2> QED BY <1>1, <2>1, <2>2, Zenon DEF IInv, TypeOK
<1>5. JobsBound'
  BY <1>1, <1>2, Zenon DEF IInv, JobsBound
<1>6. RunsBound'
  BY <1>1, <1>2, Zenon DEF IInv, RunsBound
<1>7. Held'
  BY <1>1, <1>2 DEF IInv, Held, JobsBound, RunsBound, Working
<1>8. OneWorker'
  BY <1>1, <1>2 DEF IInv, OneWorker, Working
<1>9. Stored'
  BY <1>1, <1>2, Zenon DEF IInv, Stored
<1> QED BY <1>3, <1>4, <1>5, <1>6, <1>7, <1>8, <1>9, Zenon DEF IInv

\* Storing the episode.
LEMMA ConsolidateEpisodeInv ==
  ASSUME IInv, NEW p \in Procs, ConsolidateEpisode(p)
  PROVE  IInv'
<1>1. /\ wpc[p] = "episode"
      /\ UNCHANGED <<state, attempts, worker, gen, generation, candidates, up, pid, queue,
                      running, stop, wjob, fpc, fjob, fgen, snap, todo, clears, owner>>
  BY Zenon DEF ConsolidateEpisode, Step, rowvars, procvars, asyncvars, inputvars
<1>2. /\ wpc'[p] = "complete"
      /\ \A q \in Procs : q # p => wpc'[q] = wpc[q] /\ worst'[q] = worst[q]
  BY <1>1, Zenon DEF IInv, TypeOK, ConsolidateEpisode, Step, FirstError
<1>3. (Recording /\ Listed /\ Owned)'
  BY <1>1, Zenon DEF IInv, Recording, Listed, Owned
<1>4. TypeOK'
  <2>1. wjob[p] \in Jobs
    BY <1>1, Zenon DEF IInv, JobsBound
  <2>2. wpc' \in [Procs -> {"none", "wait", "open", "llm", "episode", "complete"}]
    BY Zenon DEF IInv, TypeOK, ConsolidateEpisode, Step
  <2>3. CASE Current(p)
    <3>1. PICK e \in {1, episodes[wjob[p]]} : episodes' = [episodes EXCEPT ![wjob[p]] = e]
      BY <2>3, Zenon DEF ConsolidateEpisode, memory_insert_episode
    <3>2. episodes' \in [Jobs -> Nat]
      BY <3>1, <2>1 DEF IInv, TypeOK
    <3>3. written' \subseteq Jobs /\ worst' = worst
      BY <2>3, <2>1 DEF IInv, TypeOK, ConsolidateEpisode
    <3> QED BY <1>1, <3>2, <3>3, <2>2, Zenon DEF IInv, TypeOK
  <2>4. CASE ~Current(p)
    <3>1. episodes' = episodes /\ written' = written
      BY <2>4, Zenon DEF ConsolidateEpisode
    <3>2. PICK e \in {"stale", worst[p]} : worst' = [worst EXCEPT ![p] = e]
      BY <2>4, Zenon DEF ConsolidateEpisode, FirstError
    <3>3. worst' \in [Procs -> {"ok", "stale", "error"}]
      BY <3>2, Zenon DEF IInv, TypeOK
    <3> QED BY <1>1, <3>1, <3>3, <2>2, Zenon DEF IInv, TypeOK
  <2> QED BY Zenon, <2>3, <2>4
<1>5. JobsBound'
  BY <1>1, <1>2, Zenon DEF IInv, JobsBound
<1>6. RunsBound'
  BY <1>1, <1>2, Zenon DEF IInv, RunsBound
<1>7. Held'
  BY <1>1, <1>2 DEF IInv, Held, JobsBound, RunsBound, Working
<1>8. OneWorker'
  BY <1>1, <1>2 DEF IInv, OneWorker, Working
<1>9. Stored'
  <2>1. worst'[p] = "ok" => wjob[p] \in written'
    BY Zenon DEF IInv, TypeOK, ConsolidateEpisode, FirstError
  <2>2. written \subseteq written'
    BY Zenon DEF ConsolidateEpisode
  <2> QED BY <1>1, <1>2, <2>1, <2>2, Zenon DEF IInv, Stored
<1>10. CompletedStored'
  BY <1>1, Zenon DEF IInv, CompletedStored, ConsolidateEpisode
<1>11. EpisodeOnce'
  <2>1. CASE UNCHANGED episodes
    BY <2>1, Zenon DEF IInv, EpisodeOnce
  <2>2. CASE memory_insert_episode(wjob[p])
    BY <2>2 DEF IInv, TypeOK, EpisodeOnce, memory_insert_episode
  <2> QED BY <2>1, <2>2, Zenon DEF ConsolidateEpisode
<1> QED BY <1>3, <1>4, <1>5, <1>6, <1>7, <1>8, <1>9, <1>10, <1>11, Zenon DEF IInv

\* No episode: the error is kept.
LEMMA EpisodeFailsInv ==
  ASSUME IInv, NEW p \in Procs, EpisodeFails(p)
  PROVE  IInv'
<1>1. /\ wpc[p] = "episode"
      /\ UNCHANGED <<state, attempts, worker, gen, generation, candidates, episodes, up, pid,
                      queue, running, stop, wjob, fpc, fjob, fgen, snap, todo, clears, owner,
                      written>>
  BY Zenon DEF EpisodeFails, Step, rowvars, storevars, procvars, asyncvars, inputvars, histvars
<1>2. /\ wpc'[p] = "complete"
      /\ \A q \in Procs : q # p => wpc'[q] = wpc[q] /\ worst'[q] = worst[q]
  BY <1>1, Zenon DEF IInv, TypeOK, EpisodeFails, Step, FirstError
<1>3. (Recording /\ Listed /\ CompletedStored /\ EpisodeOnce /\ Owned)'
  BY <1>1, ZenonT(60) DEF IInv, Recording, Listed, CompletedStored, EpisodeOnce, Owned
<1>4. TypeOK'
  <2>1. wpc' \in [Procs -> {"none", "wait", "open", "llm", "episode", "complete"}]
    BY Zenon DEF IInv, TypeOK, EpisodeFails, Step
  <2>2. worst' \in [Procs -> {"ok", "stale", "error"}]
    <3>1. PICK e \in {"error", worst[p]} : worst' = [worst EXCEPT ![p] = e]
      BY Zenon DEF IInv, TypeOK, EpisodeFails, FirstError
    <3> QED BY <3>1, Zenon DEF IInv, TypeOK
  <2> QED BY <1>1, <2>1, <2>2, Zenon DEF IInv, TypeOK
<1>5. JobsBound'
  BY <1>1, <1>2, Zenon DEF IInv, JobsBound
<1>6. RunsBound'
  BY <1>1, <1>2, Zenon DEF IInv, RunsBound
<1>7. Held'
  BY <1>1, <1>2 DEF IInv, Held, JobsBound, RunsBound, Working
<1>8. OneWorker'
  BY <1>1, <1>2, ZenonT(30) DEF IInv, OneWorker, Working
<1>9. Stored'
  <2>1. worst'[p] # "ok"
    BY Zenon DEF IInv, TypeOK, EpisodeFails, FirstError
  <2> QED BY <1>1, <1>2, <2>1, Zenon DEF IInv, Stored
<1> QED BY <1>3, <1>4, <1>5, <1>6, <1>7, <1>8, <1>9, Zenon DEF IInv

\* The completion marker.
LEMMA memory_job_completeInv ==
  ASSUME IInv, NEW p \in Procs, memory_job_complete(p)
  PROVE  IInv'
<1>1. /\ wpc[p] = "complete"
      /\ UNCHANGED <<attempts, worker, gen, generation, candidates, episodes, up, pid, queue,
                      running, stop, fpc, fjob, fgen, snap, todo, clears, owner, written>>
  BY Zenon DEF memory_job_complete, Step, storevars, procvars, asyncvars, inputvars, histvars
<1>2. /\ wpc'[p] = "wait"
      /\ \A q \in Procs : q # p => wpc'[q] = wpc[q] /\ wjob'[q] = wjob[q] /\ worst'[q] = worst[q]
  BY <1>1, Zenon DEF IInv, TypeOK, memory_job_complete, Step
<1>3. /\ wjob[p] \in Jobs
      /\ state'[wjob[p]] = state[wjob[p]]
         \/ (state[wjob[p]] = "running" /\ state'[wjob[p]] = EndState(worst[p]))
      /\ \A k \in Jobs : k # wjob[p] => state'[k] = state[k]
  <2>1. wjob[p] \in Jobs
    BY <1>1, Zenon DEF IInv, JobsBound
  <2>2. state' = [state EXCEPT ![wjob[p]] =
                    IF state[wjob[p]] = "running" THEN EndState(worst[p]) ELSE state[wjob[p]]]
    BY Zenon DEF memory_job_complete
  <2>3. CASE state[wjob[p]] = "running"
    BY <2>1, <2>2, <2>3, Zenon DEF IInv, TypeOK
  <2>4. CASE state[wjob[p]] # "running"
    <3>1. /\ state'[wjob[p]] = state[wjob[p]]
          /\ \A k \in Jobs : k # wjob[p] => state'[k] = state[k]
      BY <2>1, <2>2, <2>4, ZenonT(20) DEF IInv, TypeOK
    <3> QED BY <2>1, <3>1, Zenon
  <2> QED BY <2>3, <2>4, Zenon
<1>4. EndState(worst[p]) \in {"completed", "failed", "cancelled"}
      /\ (EndState(worst[p]) = "completed" => worst[p] = "ok")
  BY Zenon DEF IInv, TypeOK, EndState
<1>5. (Listed /\ EpisodeOnce)'
  BY <1>1, Zenon DEF IInv, Listed, EpisodeOnce
<1>6. TypeOK'
  <2>1. state' = [state EXCEPT ![wjob[p]] = state'[wjob[p]]]
    BY <1>3, Zenon DEF IInv, TypeOK, memory_job_complete
  <2>2. state'[wjob[p]] \in States
    BY <1>3, <1>4, Zenon DEF IInv, TypeOK, States
  <2>3. state' \in [Jobs -> States]
    BY <2>1, <2>2, Zenon DEF IInv, TypeOK
  <2> QED BY <1>1, <2>3, Zenon DEF IInv, TypeOK, memory_job_complete, Step
<1>7. JobsBound'
  BY <1>1, <1>2, Zenon DEF IInv, JobsBound
<1>8. RunsBound'
  BY <1>1, <1>2, Zenon DEF IInv, RunsBound
<1>9. Held'
  <2> SUFFICES ASSUME NEW q \in Procs, Working(q)'
               PROVE  \/ state'[wjob'[q]] = "cancelled"
                      \/ state'[wjob'[q]] = "running" /\ worker[wjob'[q]] = pid[q]
    BY <1>1, Zenon DEF Held
  <2>1. q # p /\ Working(q) /\ wjob'[q] = wjob[q] /\ wjob[q] \in Jobs
    BY <1>2, Zenon DEF IInv, JobsBound, Working
  <2>2. wjob[q] # wjob[p]
    BY <1>1, <2>1, Zenon DEF IInv, OneWorker, Working
  <2> QED BY <1>3, <2>1, <2>2, Zenon DEF IInv, Held
<1>10. OneWorker'
  BY <1>2 DEF IInv, OneWorker, Working
<1>11. Recording'
  <2>1. \A k \in Jobs : state[k] = "none" => state'[k] = "none"
    BY Zenon, <1>3, <1>4
  <2> QED BY <1>1, <2>1, Zenon DEF IInv, JobsBound, Recording
<1>12. Stored'
  BY <1>1, <1>2, Zenon DEF IInv, Stored
<1>13. CompletedStored'
  BY <1>1, <1>3, <1>4, Zenon DEF IInv, CompletedStored, Stored
<1>14. Owned'
  <2>1. \A k \in Jobs : state'[k] = "running" => state[k] = "running"
    BY Zenon, <1>3, <1>4
  <2> QED BY <1>1, <2>1, Zenon DEF IInv, Owned
<1> QED BY <1>5, <1>6, <1>7, <1>8, <1>9, <1>10, <1>11, <1>12, <1>13, <1>14, Zenon DEF IInv

\* A completion marker that is not written.
LEMMA CompleteFailsInv ==
  ASSUME IInv, NEW p \in Procs, CompleteFails(p)
  PROVE  IInv'
<1>1. /\ wpc[p] = "complete"
      /\ UNCHANGED <<state, attempts, worker, gen, generation, candidates, episodes, up, pid,
                      queue, running, stop, fpc, fjob, fgen, snap, todo, clears, owner,
                      written>>
  BY Zenon DEF CompleteFails, Step, rowvars, storevars, procvars, asyncvars, inputvars, histvars
<1>2. /\ wpc'[p] = "wait"
      /\ \A q \in Procs : q # p => wpc'[q] = wpc[q] /\ wjob'[q] = wjob[q] /\ worst'[q] = worst[q]
  BY <1>1, Zenon DEF IInv, TypeOK, CompleteFails, Step
<1>3. (Recording /\ Listed /\ CompletedStored /\ EpisodeOnce /\ Owned)'
  BY <1>1, ZenonT(30) DEF IInv, Recording, Listed, CompletedStored, EpisodeOnce, Owned
<1>4. TypeOK'
  BY <1>1, Zenon DEF IInv, TypeOK, States, CompleteFails, Step
<1>5. JobsBound'
  BY <1>1, <1>2, Zenon DEF IInv, JobsBound
<1>6. RunsBound'
  BY <1>1, <1>2, Zenon DEF IInv, RunsBound
<1>7. Held'
  BY <1>1, <1>2 DEF IInv, Held, JobsBound, RunsBound, Working
<1>8. OneWorker'
  BY <1>1, <1>2 DEF IInv, OneWorker, Working
<1>9. Stored'
  BY <1>1, <1>2, Zenon DEF IInv, Stored
<1> QED BY <1>3, <1>4, <1>5, <1>6, <1>7, <1>8, <1>9, Zenon DEF IInv

\* A submission begins.
LEMMA SubmitReadsInv ==
  ASSUME IInv, NEW p \in Procs, NEW j \in Jobs, SubmitReads(p, j)
  PROVE  IInv'
<1>1. /\ up[p] = "up" /\ state[j] = "none"
      /\ UNCHANGED <<state, attempts, worker, gen, generation, candidates, episodes, up, pid,
                      queue, running, stop, wpc, wjob, worst, snap, todo, clears, owner,
                      written>>
  BY Zenon DEF SubmitReads, rowvars, storevars, procvars, asyncvars, workervars, histvars
<1>2. /\ fpc'[p] = "record" /\ fjob'[p] = j
      /\ \A q \in Procs : q # p => fpc'[q] = fpc[q] /\ fjob'[q] = fjob[q]
  BY <1>1, Zenon DEF IInv, TypeOK, SubmitReads
<1>3. (Held /\ OneWorker /\ Listed /\ Stored /\ CompletedStored /\ EpisodeOnce /\ Owned)'
  <2>1. (Held /\ OneWorker /\ Stored /\ CompletedStored /\ EpisodeOnce /\ Owned)'
    BY <1>1, Zenon DEF IInv, Held, OneWorker, Stored, CompletedStored, EpisodeOnce, Owned, Working
  <2>2. Listed'
    BY <1>1, Zenon DEF IInv, Listed
  <2> QED BY <2>1, <2>2, Zenon
<1>4. TypeOK'
  BY <1>1, Zenon DEF IInv, TypeOK, States, SubmitReads
<1>5. JobsBound'
  BY <1>1, <1>2, Zenon DEF IInv, JobsBound
<1>6. RunsBound'
  BY <1>1, <1>2, ZenonT(30) DEF IInv, RunsBound
<1>7. Recording'
  <2>1. \A q \in Procs : fpc[q] = "record" => fjob[q] # j
    BY Zenon DEF SubmitReads
  <2>2. state' = state /\ state[j] = "none"
    BY <1>1, Zenon
  <2> QED BY <1>2, <2>1, <2>2, SMTT(30) DEF IInv, Recording
<1> QED BY <1>3, <1>4, <1>5, <1>6, <1>7, Zenon DEF IInv

\* The row is inserted.
LEMMA memory_job_recordInv ==
  ASSUME IInv, NEW p \in Procs, memory_job_record(p)
  PROVE  IInv'
<1>1. /\ fpc[p] = "record"
      /\ UNCHANGED <<attempts, worker, generation, candidates, episodes, up, pid, queue,
                      running, stop, wpc, wjob, worst, fjob, fgen, snap, todo, clears, owner,
                      written>>
  BY Zenon DEF memory_job_record, storevars, procvars, asyncvars, workervars, histvars
<1>2. /\ fpc'[p] = "enqueue"
      /\ \A q \in Procs : q # p => fpc'[q] = fpc[q]
      /\ fjob[p] \in Jobs
  BY <1>1, Zenon DEF IInv, TypeOK, JobsBound, memory_job_record
<1>3. /\ state'[fjob[p]] = "queued"
      /\ \A k \in Jobs : k # fjob[p] => state'[k] = state[k]
  BY <1>1, <1>2, Zenon DEF IInv, TypeOK, memory_job_record
<1>4. (OneWorker /\ Listed /\ Stored /\ EpisodeOnce)'
  BY <1>1, Zenon DEF IInv, OneWorker, Listed, Stored, EpisodeOnce, Working
<1>5. TypeOK'
  BY <1>1 DEF IInv, TypeOK, States, JobsBound, memory_job_record
<1>6. JobsBound'
  BY <1>1, <1>2, <1>3, Zenon DEF IInv, JobsBound
<1>7. RunsBound'
  BY <1>1, <1>2, <1>3, Zenon DEF IInv, RunsBound
<1>8. Held'
  <2> SUFFICES ASSUME NEW q \in Procs, Working(q)
               PROVE  \/ state'[wjob[q]] = "cancelled"
                      \/ state'[wjob[q]] = "running" /\ worker[wjob[q]] = pid[q]
    BY <1>1, Zenon DEF Held, Working
  <2>1. wjob[q] \in Jobs /\ wjob[q] # fjob[p]
    BY <1>1, Zenon DEF IInv, JobsBound, Recording, Held, Working
  <2> QED BY <1>3, <2>1, Zenon DEF IInv, Held
<1>9. Recording'
  <2>1. \A q \in Procs : fpc'[q] = "record" =>
          /\ q # p /\ fpc[q] = "record" /\ fjob[q] \in Jobs /\ fjob[q] # fjob[p]
    BY <1>1, <1>2, Zenon DEF IInv, JobsBound, Recording
  <2> QED BY <1>1, <1>3, <2>1, ZenonT(30) DEF IInv, Recording
<1>10. CompletedStored'
  BY <1>1, <1>2, <1>3, Zenon DEF IInv, CompletedStored, JobsBound
<1>11. Owned'
  BY <1>1, <1>2, <1>3, Zenon DEF IInv, Owned
<1> QED BY <1>4, <1>5, <1>6, <1>7, <1>8, <1>9, <1>10, <1>11, Zenon DEF IInv

\* The job is queued.
LEMMA SubmitEnqueuesInv ==
  ASSUME IInv, NEW p \in Procs, SubmitEnqueues(p)
  PROVE  IInv'
<1>1. /\ fpc[p] = "enqueue"
      /\ UNCHANGED <<state, attempts, worker, gen, generation, candidates, episodes, up, pid,
                      wjob, worst, snap, todo, clears, owner, written>>
  BY Zenon DEF SubmitEnqueues, rowvars, storevars, procvars, histvars
<1>2. /\ fpc'[p] = "idle"
      /\ \A q \in Procs : q # p => fpc'[q] = fpc[q] /\ fjob'[q] = fjob[q]
  BY <1>1, Zenon DEF IInv, TypeOK, SubmitEnqueues
<1>3. /\ queue' \in [Procs -> Seq(Jobs)]
      /\ running' \in [Procs -> BOOLEAN] /\ stop' \in [Procs -> BOOLEAN]
      /\ wpc' \in [Procs -> {"none", "wait", "open", "llm", "episode", "complete"}]
  <2>1. TypeOK /\ fjob[p] \in Jobs /\ EnsureAndPut(p, fjob[p])
    BY Zenon DEF IInv, JobsBound, SubmitEnqueues
  <2> QED BY Zenon, <2>1, PutFacts
<1>4. wpc'[p] \in {wpc[p], "wait"} /\ \A q \in Procs : q # p => wpc'[q] = wpc[q]
  <2>1. TypeOK /\ fjob[p] \in Jobs /\ EnsureAndPut(p, fjob[p])
    BY Zenon DEF IInv, JobsBound, SubmitEnqueues
  <2> QED BY Zenon, <2>1, PutFacts
<1>5. \A q \in Procs : Working(q)' => Working(q)
  BY <1>4, Zenon DEF Working
<1>6. (Listed /\ CompletedStored /\ EpisodeOnce /\ Owned)'
  BY <1>1, Zenon DEF IInv, Listed, CompletedStored, EpisodeOnce, Owned
<1>7. TypeOK'
  <2>1. /\ fpc' \in [Procs -> {"idle", "record", "enqueue", "resume", "join"}]
        /\ fjob' \in [Procs -> Jobs \cup {NoJob}] /\ fgen' \in [Procs -> Nat]
    BY Zenon DEF IInv, TypeOK, SubmitEnqueues
  <2> QED BY <1>1, <1>3, <2>1, Zenon DEF IInv, TypeOK
<1>8. JobsBound'
  BY <1>1, <1>2, <1>4, Zenon DEF IInv, JobsBound
<1>9. RunsBound'
  BY <1>1, <1>2, <1>4, ZenonT(30) DEF IInv, RunsBound
<1>10. Held'
  BY <1>1, <1>5, Zenon DEF IInv, Held
<1>11. OneWorker'
  BY <1>1, <1>5, Zenon DEF IInv, OneWorker
<1>12. Recording'
  <2>1. \A q \in Procs : fpc'[q] = "record" => fpc[q] = "record" /\ fjob'[q] = fjob[q]
    BY <1>2, Zenon
  <2>2. state' = state
    BY <1>1, Zenon
  <2> QED BY <2>1, <2>2 DEF IInv, Recording
<1>13. Stored'
  BY <1>1, <1>2, <1>4, Zenon DEF IInv, Stored
<1> QED BY <1>6, <1>7, <1>8, <1>9, <1>10, <1>11, <1>12, <1>13, Zenon DEF IInv

\* The submission is given up.
LEMMA SubmitFailsInv ==
  ASSUME IInv, NEW p \in Procs, SubmitFails(p)
  PROVE  IInv'
<1>1. /\ fpc[p] # "idle"
      /\ UNCHANGED <<state, attempts, worker, gen, generation, candidates, episodes, up, pid,
                      queue, running, stop, wpc, wjob, worst, snap, todo, clears, owner,
                      written>>
  BY Zenon DEF SubmitFails, rowvars, storevars, procvars, asyncvars, workervars, histvars
<1>2. /\ fpc'[p] = "idle"
      /\ \A q \in Procs : q # p => fpc'[q] = fpc[q] /\ fjob'[q] = fjob[q]
  BY <1>1, Zenon DEF IInv, TypeOK, SubmitFails
<1>3. (Held /\ OneWorker /\ Listed /\ Stored /\ CompletedStored /\ EpisodeOnce /\ Owned)'
  <2>1. (Held /\ OneWorker /\ Stored /\ CompletedStored /\ EpisodeOnce /\ Owned)'
    BY <1>1, Zenon DEF IInv, Held, OneWorker, Stored, CompletedStored, EpisodeOnce, Owned, Working
  <2>2. Listed'
    BY <1>1, Zenon DEF IInv, Listed
  <2> QED BY <2>1, <2>2, Zenon
<1>4. TypeOK'
  BY <1>1, ZenonT(60) DEF IInv, TypeOK, States, SubmitFails
<1>5. JobsBound'
  BY <1>1, <1>2, Zenon DEF IInv, JobsBound
<1>6. RunsBound'
  BY <1>1, <1>2, Zenon DEF IInv, RunsBound
<1>7. Recording'
  BY <1>1, <1>2 DEF IInv, Recording
<1> QED BY <1>3, <1>4, <1>5, <1>6, <1>7, Zenon DEF IInv

\* The recovery lists the jobs that have not ended.
LEMMA ResumeListsInv ==
  ASSUME IInv, NEW p \in Procs, ResumeLists(p)
  PROVE  IInv'
<1>1. /\ up[p] = "up"
      /\ UNCHANGED <<state, attempts, worker, gen, generation, candidates, episodes, up, pid,
                      queue, running, stop, wpc, wjob, worst, fjob, fgen, clears, owner,
                      written>>
  BY Zenon DEF ResumeLists, rowvars, storevars, procvars, asyncvars, workervars, histvars
<1>2. /\ fpc'[p] = "resume"
      /\ \A q \in Procs : q # p => fpc'[q] = fpc[q] /\ todo'[q] = todo[q] /\ snap'[q] = snap[q]
  BY <1>1 DEF IInv, TypeOK, Listed, ResumeLists
<1>3. (Held /\ OneWorker /\ Stored /\ CompletedStored /\ EpisodeOnce /\ Owned)'
  BY <1>1, Zenon DEF IInv, Held, OneWorker, Stored, CompletedStored, EpisodeOnce, Owned, Working
<1>4. TypeOK'
  BY <1>1 DEF IInv, TypeOK, States, ResumeLists
<1>5. JobsBound'
  BY <1>1, <1>2, Zenon DEF IInv, JobsBound
<1>6. RunsBound'
  BY <1>1, <1>2, ZenonT(30) DEF IInv, RunsBound
<1>7. Recording'
  BY <1>1, <1>2 DEF IInv, Recording
<1>8. Listed'
  <2>1. snap' = [snap EXCEPT ![p] = Table]
    BY Zenon DEF ResumeLists
  <2>2. snap'[p][1] = state /\ snap' = [q \in Procs |-> snap'[q]]
    BY <2>1, Zenon DEF IInv, Listed, Table
  <2>3. \A j \in todo'[p] : state[j] \in {"queued", "running", "failed"}
    BY DEF IInv, TypeOK, ResumeLists
  <2> QED BY <1>2, <2>2, <2>3, Zenon DEF IInv, Listed
<1> QED BY <1>3, <1>4, <1>5, <1>6, <1>7, <1>8, Zenon DEF IInv

\* The recovery ends.
LEMMA ResumeEndsInv ==
  ASSUME IInv, NEW p \in Procs, ResumeEnds(p)
  PROVE  IInv'
<1>1. /\ fpc[p] = "resume"
      /\ UNCHANGED <<state, attempts, worker, gen, generation, candidates, episodes, up, pid,
                      queue, running, stop, wpc, wjob, worst, fjob, fgen, clears, owner,
                      written>>
  BY Zenon DEF ResumeEnds, rowvars, storevars, procvars, asyncvars, workervars, histvars
<1>2. /\ fpc'[p] = "idle" /\ todo'[p] = {}
      /\ \A q \in Procs : q # p => fpc'[q] = fpc[q] /\ todo'[q] = todo[q] /\ snap'[q] = snap[q]
  BY <1>1 DEF IInv, TypeOK, Listed, ResumeEnds
<1>3. (Held /\ OneWorker /\ Stored /\ CompletedStored /\ EpisodeOnce /\ Owned)'
  BY <1>1, Zenon DEF IInv, Held, OneWorker, Stored, CompletedStored, EpisodeOnce, Owned, Working
<1>4. TypeOK'
  BY <1>1, ZenonT(30) DEF IInv, TypeOK, States, ResumeEnds
<1>5. JobsBound'
  BY <1>1, <1>2, Zenon DEF IInv, JobsBound
<1>6. RunsBound'
  BY <1>1, <1>2, Zenon DEF IInv, RunsBound
<1>7. Recording'
  <2>1. \A q \in Procs : fpc'[q] = "record" => fpc[q] = "record"
    BY <1>2, Zenon
  <2> QED BY <1>1, <2>1, Zenon DEF IInv, Recording
<1>8. Listed'
  <2>1. snap' = [q \in Procs |-> snap'[q]]
    BY Zenon DEF IInv, Listed, ResumeEnds
  <2> QED BY <1>2, <2>1, Zenon DEF IInv, Listed
<1> QED BY <1>3, <1>4, <1>5, <1>6, <1>7, <1>8, Zenon DEF IInv

\* A job is left to its worker.
LEMMA ResumeSkipsInv ==
  ASSUME IInv, NEW p \in Procs, NEW j \in Jobs, ResumeSkips(p, j)
  PROVE  IInv'
<1>1. UNCHANGED <<state, attempts, worker, gen, generation, candidates, episodes, up, pid,
                   queue, running, stop, wpc, wjob, worst, fpc, fjob, fgen, snap, clears,
                   owner, written>>
  BY Zenon DEF ResumeSkips, rowvars, storevars, procvars, asyncvars, workervars, histvars
<1>2. /\ todo'[p] = todo[p] \ {j}
      /\ \A q \in Procs : q # p => todo'[q] = todo[q]
  BY <1>1, ZenonT(30) DEF IInv, TypeOK, ResumeSkips
<1>3. /\ (JobsBound /\ RunsBound /\ Recording /\ Stored)'
      /\ (Held /\ OneWorker /\ CompletedStored /\ EpisodeOnce /\ Owned)'
  <2>1. (JobsBound /\ RunsBound /\ Recording /\ Stored)'
    BY <1>1, Zenon DEF IInv, JobsBound, RunsBound, Recording, Stored
  <2>2. (Held /\ OneWorker /\ CompletedStored /\ EpisodeOnce /\ Owned)'
    BY <1>1, Zenon DEF IInv, Held, OneWorker, CompletedStored, EpisodeOnce, Owned, Working
  <2> QED BY <2>1, <2>2, Zenon
<1>4. TypeOK'
  BY <1>1, ZenonT(30) DEF IInv, TypeOK, States, ResumeSkips
<1>5. Listed'
  BY <1>1, <1>2, Zenon DEF IInv, Listed
<1> QED BY <1>3, <1>4, <1>5, Zenon DEF IInv

\* A queued job is put in the queue.
LEMMA ResumeQueuedInv ==
  ASSUME IInv, NEW p \in Procs, NEW j \in Jobs, ResumeQueued(p, j)
  PROVE  IInv'
<1>1. /\ fpc[p] = "resume"
      /\ UNCHANGED <<state, attempts, worker, gen, generation, candidates, episodes, up, pid,
                      wjob, worst, fpc, fjob, fgen, snap, clears, owner, written>>
  BY Zenon DEF ResumeQueued, rowvars, storevars, procvars, histvars
<1>2. /\ todo'[p] = todo[p] \ {j}
      /\ \A q \in Procs : q # p => todo'[q] = todo[q]
  BY <1>1, Zenon DEF IInv, TypeOK, ResumeQueued
<1>3. /\ queue' \in [Procs -> Seq(Jobs)]
      /\ running' \in [Procs -> BOOLEAN] /\ stop' \in [Procs -> BOOLEAN]
      /\ wpc' \in [Procs -> {"none", "wait", "open", "llm", "episode", "complete"}]
  <2>1. TypeOK /\ j \in Jobs /\ ResumePuts(p, j)
    BY Zenon DEF IInv, ResumeQueued
  <2> QED BY Zenon, <2>1, PutFacts
<1>4. wpc'[p] \in {wpc[p], "wait"} /\ \A q \in Procs : q # p => wpc'[q] = wpc[q]
  <2>1. TypeOK /\ j \in Jobs /\ ResumePuts(p, j)
    BY Zenon DEF IInv, ResumeQueued
  <2> QED BY Zenon, <2>1, PutFacts
<1>5. \A q \in Procs : Working(q)' => Working(q)
  BY <1>4, Zenon DEF Working
<1>6. (Recording /\ CompletedStored /\ EpisodeOnce /\ Owned)'
  BY <1>1, Zenon DEF IInv, Recording, CompletedStored, EpisodeOnce, Owned
<1>7. TypeOK'
  <2>1. todo' \in [Procs -> SUBSET Jobs]
    BY Zenon DEF IInv, TypeOK, ResumeQueued
  <2> QED BY <1>1, <1>3, <2>1, Zenon DEF IInv, TypeOK
<1>8. JobsBound'
  BY <1>1, <1>4, Zenon DEF IInv, JobsBound
<1>9. RunsBound'
  BY <1>1, <1>4, Zenon DEF IInv, RunsBound
<1>10. Held'
  BY <1>1, <1>5, Zenon DEF IInv, Held
<1>11. OneWorker'
  BY <1>1, <1>5, Zenon DEF IInv, OneWorker
<1>12. Listed'
  BY <1>1, <1>2, Zenon DEF IInv, Listed
<1>13. Stored'
  BY <1>1, <1>4, Zenon DEF IInv, Stored
<1> QED BY <1>6, <1>7, <1>8, <1>9, <1>10, <1>11, <1>12, <1>13, Zenon DEF IInv

\* A job is reset: its worker's pid is dead, or it had failed.
LEMMA ResumeResetsInv ==
  ASSUME IInv, NEW p \in Procs, NEW j \in Jobs, ResumeResets(p, j)
  PROVE  IInv'
<1>1. /\ fpc[p] = "resume"
      /\ UNCHANGED <<attempts, worker, gen, generation, candidates, episodes, up, pid, wjob,
                      worst, fpc, fjob, fgen, clears, owner, written>>
  BY Zenon DEF ResumeResets, storevars, procvars, histvars
<1>2. /\ todo'[p] = todo[p] \ {j}
      /\ \A q \in Procs : q # p => todo'[q] = todo[q] /\ snap'[q] = snap[q]
  BY <1>1 DEF IInv, TypeOK, Listed, ResumeResets
<1>3. /\ state'[j] = "queued"
      /\ \A k \in Jobs : k # j => state'[k] = state[k]
  BY <1>1, <1>2, Zenon DEF IInv, TypeOK, ResumeResets
<1>4. /\ queue' \in [Procs -> Seq(Jobs)]
      /\ running' \in [Procs -> BOOLEAN] /\ stop' \in [Procs -> BOOLEAN]
      /\ wpc' \in [Procs -> {"none", "wait", "open", "llm", "episode", "complete"}]
  <2>1. TypeOK /\ j \in Jobs /\ ResumePuts(p, j)
    BY Zenon DEF IInv, ResumeResets
  <2> QED BY Zenon, <2>1, PutFacts
<1>5. wpc'[p] \in {wpc[p], "wait"} /\ \A q \in Procs : q # p => wpc'[q] = wpc[q]
  <2>1. TypeOK /\ j \in Jobs /\ ResumePuts(p, j)
    BY Zenon DEF IInv, ResumeResets
  <2> QED BY Zenon, <2>1, PutFacts
<1>6. \A q \in Procs : Working(q)' => Working(q)
  BY <1>5, Zenon DEF Working
<1>7. state[j] \in {"running", "failed"} /\ (state[j] = "running" => ~Alive(worker[j]))
  <2>1. snap[p] = Table
    BY Zenon DEF ResumeResets
  <2> QED BY <2>1, TableFacts, Zenon DEF IInv, Listed, ResumeResets, SkipsLive
<1>8. (EpisodeOnce)'
  BY <1>1, Zenon DEF IInv, EpisodeOnce
<1>9. TypeOK'
  <2>1. todo' \in [Procs -> SUBSET Jobs] /\ state' \in [Jobs -> States]
    BY Zenon DEF IInv, TypeOK, States, ResumeResets
  <2> QED BY <1>1, <1>4, <2>1, Zenon DEF IInv, TypeOK
<1>10. JobsBound'
  BY <1>1, <1>5, Zenon DEF IInv, JobsBound
<1>11. RunsBound'
  BY <1>1, <1>5, Zenon DEF IInv, RunsBound
<1>12. Held'
  <2> SUFFICES ASSUME NEW q \in Procs, Working(q)
               PROVE  \/ state'[wjob[q]] = "cancelled"
                      \/ state'[wjob[q]] = "running" /\ worker[wjob[q]] = pid[q]
    BY <1>1, <1>6, Zenon DEF Held
  <2>1. up[q] = "up" /\ wjob[q] \in Jobs
    BY Zenon DEF IInv, RunsBound, JobsBound, Working
  <2>2. wjob[q] # j
    BY <1>7, <2>1, Zenon DEF IInv, Held, Alive
  <2> QED BY <1>3, <2>1, <2>2, Zenon DEF IInv, Held
<1>13. OneWorker'
  BY <1>1, <1>6, Zenon DEF IInv, OneWorker
<1>14. Recording'
  <2>1. \A k \in Jobs : state[k] = "none" => state'[k] = "none"
    BY Zenon, <1>3, <1>7
  <2> QED BY <1>1, <2>1, Zenon DEF IInv, JobsBound, Recording
<1>15. Listed'
  <2>1. snap' = [snap EXCEPT ![p] = <<state', attempts, worker, gen, generation, candidates, episodes>>]
    BY Zenon DEF ResumeResets
  <2>2. snap'[p][1] = state' /\ snap' = [q \in Procs |-> snap'[q]]
    BY <2>1, Zenon DEF IInv, Listed
  <2>3. snap[p][1] = state
    BY TableFacts, Zenon DEF ResumeResets
  <2>4. \A k \in todo'[p] : k \in todo[p] /\ k # j /\ k \in Jobs
    BY <1>2, Zenon DEF IInv, TypeOK
  <2>5. \A k \in todo'[p] : snap'[p][1][k] \in {"queued", "running", "failed"}
    BY <1>3, <2>2, <2>3, <2>4, Zenon DEF IInv, Listed
  <2> QED BY <1>2, <2>2, <2>5, Zenon DEF IInv, Listed
<1>16. Stored'
  BY <1>1, <1>5, Zenon DEF IInv, Stored
<1>17. CompletedStored'
  BY <1>1, <1>3, Zenon DEF IInv, CompletedStored
<1>18. Owned'
  BY <1>1, <1>3, Zenon DEF IInv, Owned
<1> QED BY <1>8, <1>9, <1>10, <1>11, <1>12, <1>13, <1>14, <1>15, <1>16, <1>17, <1>18, Zenon DEF IInv

\* A clear cancels what has not completed.
LEMMA memory_clearInv ==
  ASSUME IInv, NEW p \in Procs, memory_clear(p)
  PROVE  IInv'
<1>1. UNCHANGED <<attempts, worker, gen, up, pid, queue, running, stop, wpc, wjob, worst,
                   fpc, fjob, fgen, snap, todo, owner, written>>
  BY Zenon DEF memory_clear, procvars, asyncvars, workervars, inputvars
<1>2. (JobsBound /\ RunsBound /\ OneWorker /\ Listed /\ Stored)'
  BY <1>1 DEF IInv, JobsBound, RunsBound, OneWorker, Listed, Stored, Working
<1>3. TypeOK'
  <2>1. state' \in [Jobs -> States]
    BY Zenon DEF IInv, TypeOK, States, memory_clear
  <2>2. candidates' \subseteq Jobs /\ episodes' \in [Jobs -> Nat]
    BY DEF IInv, TypeOK, memory_clear
  <2>3. generation' \in Nat /\ clears' \in 0..MaxClears
    BY JobsAssumption DEF IInv, TypeOK, memory_clear
  <2> QED BY <1>1, <2>1, <2>2, <2>3, Zenon DEF IInv, TypeOK
<1>4. Held'
  <2>1. \A k \in Jobs : state'[k] = IF state[k] \in {"none", "completed"} THEN state[k] ELSE "cancelled"
    BY Zenon DEF memory_clear
  <2> QED BY <1>1, <2>1, Zenon DEF IInv, JobsBound, Held, Working
<1>5. Recording'
  BY <1>1, Zenon DEF IInv, JobsBound, Recording, memory_clear
<1>6. CompletedStored'
  BY <1>1, Zenon DEF IInv, CompletedStored, memory_clear
<1>7. EpisodeOnce'
  BY <1>1 DEF IInv, EpisodeOnce, memory_clear
<1>8. Owned'
  BY <1>1, Zenon DEF IInv, Owned, memory_clear
<1> QED BY <1>2, <1>3, <1>4, <1>5, <1>6, <1>7, <1>8, Zenon DEF IInv

\* A shutdown begins.
LEMMA ShutdownStopsInv ==
  ASSUME IInv, NEW p \in Procs, ShutdownStops(p)
  PROVE  IInv'
<1>1. /\ up[p] = "up"
      /\ UNCHANGED <<state, attempts, worker, gen, generation, candidates, episodes, up, pid,
                      queue, running, wpc, wjob, worst, fjob, fgen, snap, todo, clears, owner,
                      written>>
  BY Zenon DEF ShutdownStops, rowvars, storevars, procvars, workervars, histvars
<1>2. /\ fpc'[p] = "join"
      /\ \A q \in Procs : q # p => fpc'[q] = fpc[q]
  BY <1>1, Zenon DEF IInv, TypeOK, ShutdownStops
<1>3. (Held /\ OneWorker /\ Listed /\ Stored /\ CompletedStored /\ EpisodeOnce /\ Owned)'
  BY <1>1 DEF IInv, Held, OneWorker, Listed, Stored, CompletedStored, EpisodeOnce, Owned, Working
<1>4. TypeOK'
  BY <1>1, Zenon DEF IInv, TypeOK, States, ShutdownStops
<1>5. JobsBound'
  BY <1>1, <1>2, Zenon DEF IInv, JobsBound
<1>6. RunsBound'
  BY <1>1, <1>2, Zenon DEF IInv, RunsBound
<1>7. Recording'
  BY <1>1, <1>2, ZenonT(30) DEF IInv, Recording
<1> QED BY <1>3, <1>4, <1>5, <1>6, <1>7, Zenon DEF IInv

\* A shutdown ends.
LEMMA ShutdownJoinsInv ==
  ASSUME IInv, NEW p \in Procs, ShutdownJoins(p)
  PROVE  IInv'
<1>1. UNCHANGED <<state, attempts, worker, gen, generation, candidates, episodes, pid,
                   clears, owner, written>>
  BY Zenon DEF ShutdownJoins, Gone, rowvars, storevars, histvars
<1>2. /\ up'[p] = "down" /\ wpc'[p] = "none" /\ wjob'[p] = NoJob /\ fpc'[p] = "idle"
         /\ fjob'[p] = NoJob /\ todo'[p] = {} /\ worst'[p] = "ok"
      /\ \A q \in Procs : q # p =>
           up'[q] = up[q] /\ wpc'[q] = wpc[q] /\ wjob'[q] = wjob[q] /\ fpc'[q] = fpc[q]
           /\ fjob'[q] = fjob[q] /\ todo'[q] = todo[q] /\ worst'[q] = worst[q]
           /\ snap'[q] = snap[q]
  BY <1>1, SMTT(30) DEF IInv, TypeOK, Listed, ShutdownJoins, Gone
<1>3. (CompletedStored /\ EpisodeOnce)'
  BY <1>1, Zenon DEF IInv, CompletedStored, EpisodeOnce
<1>4. TypeOK'
  BY <1>1 DEF IInv, TypeOK, States, ShutdownJoins, Gone
<1>5. JobsBound'
  BY <1>1, <1>2, Zenon DEF IInv, JobsBound
<1>6. RunsBound'
  BY <1>1, <1>2 DEF IInv, RunsBound
<1>7. Held'
  BY <1>1, <1>2 DEF IInv, Held, JobsBound, RunsBound, Working
<1>8. OneWorker'
  BY <1>1, <1>2 DEF IInv, OneWorker, Working
<1>9. Recording'
  BY <1>1, <1>2 DEF IInv, Recording
<1>10. Listed'
  <2>1. snap' = [q \in Procs |-> snap'[q]]
    BY Zenon DEF IInv, Listed, ShutdownJoins, Gone
  <2> QED BY <1>2, <2>1, Zenon DEF IInv, Listed
<1>11. Stored'
  BY <1>1, <1>2, Zenon DEF IInv, Stored
<1>12. Owned'
  BY <1>1, <1>2 DEF IInv, Owned
<1> QED BY <1>3, <1>4, <1>5, <1>6, <1>7, <1>8, <1>9, <1>10, <1>11, <1>12, Zenon DEF IInv

\* Every step keeps the invariant.
LEMMA NextInv == IInv /\ [Next]_vars => IInv'
<1> SUFFICES ASSUME IInv, [Next]_vars PROVE IInv'
  BY Zenon
<1>1. CASE Next
  <2> PICK p \in Procs : (\E i \in Pids : Start(p, i)) \/ Crash(p) \/ Worker(p) \/ Input(p)
    BY <1>1, Zenon DEF Next
  <2>1. CASE (\E i \in Pids : Start(p, i)) \/ Crash(p)
    BY Zenon, <2>1, StartInv, CrashInv
  <2>2. CASE Worker(p)
    BY Zenon, <2>2, WorkerTakesInv, WorkerExitsInv, memory_job_claimInv, ClaimedNothingInv, ClaimFailsInv,
       memory_capture_llm_pathInv, CaptureFailsInv, ConsolidateEpisodeInv, EpisodeFailsInv,
       memory_job_completeInv, CompleteFailsInv DEF Worker
  <2>3. CASE Input(p)
    BY Zenon, <2>3, SubmitReadsInv, memory_job_recordInv, SubmitEnqueuesInv, SubmitFailsInv, ResumeListsInv,
       ResumeEndsInv, ResumeSkipsInv, ResumeQueuedInv, ResumeResetsInv, memory_clearInv,
       ShutdownStopsInv, ShutdownJoinsInv DEF Input
  <2> QED BY Zenon, <2>1, <2>2, <2>3
<1>2. CASE UNCHANGED vars
  <2>1. UNCHANGED <<state, attempts, worker, gen, generation, candidates, episodes, up, pid, queue,
                    running, stop, wpc, wjob, worst, fpc, fjob, fgen, snap, todo, clears, owner,
                    written>>
    BY <1>2, Zenon DEF vars, rowvars, storevars, procvars, asyncvars, workervars, inputvars, histvars
  <2>2. TypeOK'
    BY <2>1, Zenon DEF IInv, TypeOK
  <2>3. (JobsBound /\ RunsBound /\ Held /\ OneWorker)'
    BY <2>1 DEF IInv, JobsBound, RunsBound, Held, OneWorker, Working
  <2>4. (Recording /\ Listed /\ Stored)'
    BY <2>1, Zenon DEF IInv, Recording, Listed, Stored
  <2>5. (CompletedStored /\ EpisodeOnce /\ Owned)'
    BY <2>1, Zenon DEF IInv, CompletedStored, EpisodeOnce, Owned
  <2> QED BY <2>2, <2>3, <2>4, <2>5, Zenon DEF IInv
<1> QED BY Zenon, <1>1, <1>2

\* The inductive invariant holds always.
LEMMA Invariant == Spec => []IInv
BY InitInv, NextInv, PTL DEF Spec

-----------------------------------------------------------------------------

\* Every variable of memory_jobs.c, of its table and of its threads keeps its type.
THEOREM TypeCorrect == Spec => []TypeOK
<1>1. IInv => TypeOK
  BY Zenon DEF IInv
<1> QED BY <1>1, Invariant, PTL

\* Recovery by any number of runs never puts two workers on one job: a row
\* marked running is reset only when its pid is dead, and inside the read
\* transaction of the listing.
THEOREM WorkersExclusive == Spec => []OneWorker
<1>1. IInv => OneWorker
  BY Zenon DEF IInv
<1> QED BY <1>1, Invariant, PTL

\* Episode writes are idempotent per job, whatever crashes and recoveries.
THEOREM EpisodesOnce == Spec => []EpisodeOnce
<1>1. IInv => EpisodeOnce
  BY Zenon DEF IInv
<1> QED BY <1>1, Invariant, PTL

\* memory_job_complete writes completed only after the episode was stored.
THEOREM CompletedMeansStored == Spec => []CompletedStored
<1>1. IInv => CompletedStored
  BY Zenon DEF IInv
<1> QED BY <1>1, Invariant, PTL

\* The steps that do not write the state column.
LEMMA StateKept ==
  ASSUME NEW p \in Procs,
         \/ \E i \in Pids : Start(p, i)
         \/ Crash(p) \/ WorkerTakes(p) \/ WorkerExits(p) \/ ClaimedNothing(p) \/ ClaimFails(p)
         \/ memory_capture_llm_path(p) \/ CaptureFails(p) \/ ConsolidateEpisode(p)
         \/ EpisodeFails(p) \/ CompleteFails(p)
         \/ \E j \in Jobs : SubmitReads(p, j) \/ ResumeSkips(p, j) \/ ResumeQueued(p, j)
         \/ SubmitEnqueues(p) \/ SubmitFails(p) \/ ResumeLists(p) \/ ResumeEnds(p)
         \/ ShutdownStops(p) \/ ShutdownJoins(p)
  PROVE  state' = state
BY Zenon DEF Start, Crash, WorkerTakes, WorkerExits, ClaimedNothing, ClaimFails,
   memory_capture_llm_path, CaptureFails, ConsolidateEpisode, EpisodeFails, CompleteFails,
   SubmitReads, SubmitEnqueues, SubmitFails, ResumeLists, ResumeEnds, ResumeSkips, ResumeQueued,
   ShutdownStops, ShutdownJoins, Gone, rowvars

\* Cancelled and completed are final: no recovery, late completion or claim
\* brings such a job back.
THEOREM EndsAreFinal == Spec => [][EndsFinal]_vars
<1>1. IInv /\ [Next]_vars => [EndsFinal]_vars
  <2> SUFFICES ASSUME IInv, Next PROVE EndsFinal
    BY Zenon
  <2> USE DEF EndsFinal
  <2> PICK p \in Procs : (\E i \in Pids : Start(p, i)) \/ Crash(p) \/ Worker(p) \/ Input(p)
    BY Zenon DEF Next
  <2>1. CASE memory_job_claim(p)
    BY <2>1, Zenon DEF IInv, TypeOK, memory_job_claim
  <2>2. CASE memory_job_complete(p)
    BY <2>2, Zenon DEF IInv, TypeOK, memory_job_complete
  <2>3. CASE memory_job_record(p)
    BY <2>3, Zenon DEF IInv, TypeOK, JobsBound, Recording, memory_job_record
  <2>4. ASSUME NEW j \in Jobs, ResumeResets(p, j) PROVE EndsFinal
    <3>1. snap[p][1] = state
      BY <2>4, TableFacts, Zenon DEF ResumeResets
    <3>2. state[j] \in {"queued", "running", "failed"}
      BY <2>4, <3>1, Zenon DEF IInv, Listed, ResumeResets
    <3> QED BY <2>4, <3>2, Zenon DEF IInv, TypeOK, ResumeResets
  <2>5. CASE memory_clear(p)
    BY <2>5, Zenon DEF IInv, TypeOK, memory_clear
  <2>6. CASE state' = state
    BY Zenon, <2>6
  <2> QED BY <2>1, <2>2, <2>3, <2>4, <2>5, <2>6, StateKept, Zenon DEF Worker, Input
<1> QED BY <1>1, Invariant, PTL DEF Spec

\* A result that comes back after memory_clear stores nothing: each write
\* transaction begins by comparing the generation.
THEOREM ClearIsFinal == Spec => [][NothingReinserted]_vars
<1>1. IInv /\ [Next]_vars => [NothingReinserted]_vars
  <2> SUFFICES ASSUME IInv, Next PROVE NothingReinserted
    BY Zenon
  <2> USE DEF NothingReinserted
  <2> PICK p \in Procs : (\E i \in Pids : Start(p, i)) \/ Crash(p) \/ Worker(p) \/ Input(p)
    BY Zenon DEF Next
  <2>1. CASE memory_capture_llm_path(p)
    BY <2>1 DEF IInv, TypeOK, memory_capture_llm_path, Current
  <2>2. CASE ConsolidateEpisode(p)
    <3>1. candidates' = candidates /\ generation' = generation
      BY <2>2, Zenon DEF ConsolidateEpisode
    <3>2. CASE Current(p)
      <4>1. \A j \in Jobs : j # wjob[p] => episodes'[j] = episodes[j]
        BY <2>2, <3>2, Zenon DEF IInv, TypeOK, ConsolidateEpisode, memory_insert_episode
      <4>2. gen[wjob[p]] = generation
        BY <3>2, Zenon DEF Current
      <4>3. \A j \in Jobs : j # wjob[p] => ~(episodes'[j] > episodes[j])
        BY <4>1 DEF IInv, TypeOK
      <4> QED BY Zenon, <3>1, <4>2, <4>3
    <3>3. CASE ~Current(p)
      BY <2>2, <3>1, <3>3 DEF ConsolidateEpisode, IInv, TypeOK
    <3> QED BY Zenon, <3>2, <3>3
  <2>3. CASE memory_clear(p)
    BY <2>3 DEF IInv, TypeOK, memory_clear
  <2>4. CASE UNCHANGED <<candidates, episodes>>
    BY <2>4 DEF IInv, TypeOK
  <2>5. (\E i \in Pids : Start(p, i)) \/ Crash(p) => UNCHANGED <<candidates, episodes>>
    BY Zenon DEF Start, Crash, Gone, storevars
  <2>6. Worker(p) /\ ~memory_capture_llm_path(p) /\ ~ConsolidateEpisode(p)
          => UNCHANGED <<candidates, episodes>>
    BY Zenon DEF Worker, WorkerTakes, WorkerExits, memory_job_claim, ClaimedNothing, ClaimFails,
       CaptureFails, EpisodeFails, memory_job_complete, CompleteFails, storevars
  <2>7. Input(p) /\ ~memory_clear(p) => UNCHANGED <<candidates, episodes>>
    BY Zenon DEF Input, SubmitReads, memory_job_record, SubmitEnqueues, SubmitFails, ResumeLists,
       ResumeEnds, ResumeSkips, ResumeQueued, ResumeResets, ShutdownStops, ShutdownJoins, Gone,
       storevars
  <2> QED BY Zenon, <2>1, <2>2, <2>3, <2>4, <2>5, <2>6, <2>7
<1> QED BY <1>1, Invariant, PTL DEF Spec

\* As long as a new run never gets the pid of a dead worker, memory_async_resume
\* leaves no job of a dead worker alone.
THEOREM DeadAreRecovered ==
  ASSUME ReusePids = FALSE
  PROVE  Spec => [][DeadRecovered]_vars
<1>1. IInv /\ [Next]_vars => [DeadRecovered]_vars
  <2> SUFFICES ASSUME IInv, Next, NEW p \in Procs, NEW j \in Jobs,
                      fpc[p] = "resume", fpc'[p] = "resume", j \in todo[p], j \notin todo'[p],
                      snap[p] = Table, Orphaned(j)
               PROVE  state'[j] = "queued"
    BY Zenon DEF DeadRecovered
  <2>1. snap[p][1] = state /\ snap[p][3] = worker
    BY TableFacts, Zenon
  <2>2. ~Alive(worker[j]) /\ state[j] = "running"
    BY Zenon DEF Alive, Orphaned, IInv, Owned
  <2>3. ResumeResets(p, j)
    <3>1. PICK q \in Procs : (\E i \in Pids : Start(q, i)) \/ Crash(q) \/ Worker(q) \/ Input(q)
      BY Zenon DEF Next
    <3>2. todo' # todo
      BY Zenon
    <3>3. ~(\E i \in Pids : Start(q, i)) /\ ~Worker(q)
      BY <3>2, Zenon DEF Start, Worker, WorkerTakes, WorkerExits, memory_job_claim, ClaimedNothing,
         ClaimFails, memory_capture_llm_path, CaptureFails, ConsolidateEpisode, EpisodeFails,
         memory_job_complete, CompleteFails, inputvars
    <3>4. ~Crash(q) /\ ~ShutdownJoins(q) /\ ~ResumeEnds(q) /\ ~ResumeLists(q)
      <4>1. todo \in [Procs -> SUBSET Jobs] /\ fpc \in [Procs -> {"idle", "record", "enqueue", "resume", "join"}]
        BY Zenon DEF IInv, TypeOK
      <4>3. fpc' # [fpc EXCEPT ![q] = "idle"] \/ todo' # [todo EXCEPT ![q] = {}]
        BY <4>1, SMTT(20)
      <4>4. ~ResumeLists(q)
        BY <4>1, Zenon DEF ResumeLists
      <4> QED BY <4>3, <4>4, Zenon DEF Crash, ShutdownJoins, Gone, ResumeEnds
    <3>5. PICK k \in Jobs : ResumeSkips(q, k) \/ ResumeQueued(q, k) \/ ResumeResets(q, k)
      BY <3>1, <3>2, <3>3, <3>4, Zenon DEF Input, SubmitReads, memory_job_record, SubmitEnqueues,
         SubmitFails, memory_clear, ShutdownStops, inputvars
    <3>6. q = p /\ k = j
      <4>1. todo' = [todo EXCEPT ![q] = todo[q] \ {k}]
        BY <3>5, Zenon DEF ResumeSkips, ResumeQueued, ResumeResets
      <4>2. todo \in [Procs -> SUBSET Jobs]
        BY Zenon DEF IInv, TypeOK
      <4> QED BY Zenon, <4>1, <4>2
    <3> QED BY <2>1, <2>2, <3>5, <3>6, Zenon DEF ResumeSkips, ResumeQueued, SkipsLive
  <2> QED BY <2>3, Zenon DEF ResumeResets, IInv, TypeOK
<1> QED BY <1>1, Invariant, PTL DEF Spec

\* The invariant that the jobs keep, for any number of processes, jobs and
\* crashes.
THEOREM Sound == Spec => []JobsSound
<1>1. TypeOK /\ OneWorker /\ EpisodeOnce /\ CompletedStored => JobsSound
  BY Zenon DEF JobsSound
<1> QED BY <1>1, TypeCorrect, WorkersExclusive, EpisodesOnce, CompletedMeansStored, PTL

\* The three action properties together, where pids are not reused.
THEOREM Final ==
  ASSUME ReusePids = FALSE
  PROVE  Spec => JobsFinal
<1>1. [NothingReinserted]_vars /\ [EndsFinal]_vars /\ [DeadRecovered]_vars
        => [NothingReinserted /\ EndsFinal /\ DeadRecovered]_vars
  BY Zenon
<1> QED BY <1>1, ClearIsFinal, EndsAreFinal, DeadAreRecovered, PTL DEF JobsFinal
=============================================================================
