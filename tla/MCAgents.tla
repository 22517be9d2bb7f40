------------------------------ MODULE MCAgents ------------------------------
(***************************************************************************)
(* The agents, servers, programs and threads that work for a turn: a       *)
(* behaviour follows the sub-agents of one runtime, one MCP client, over   *)
(* stdio or over HTTP, the child processes of up to two concurrent calls,  *)
(* or the memory job that a run of the program left when it died.          *)
(***************************************************************************)
EXTENDS Integers, Sequences

VARIABLES
  which,
  task_count, tasks, rows, lost, depth, caller, overlapped, badjoin, runtime, reached,
  connected, connecting, lock, child, alive, forked, ready, inbox, outbox, next_req_id,
  registered, thread, stray, dropped, faults, raced,
  kindOf, at, process, status, holds, helper, request, out, err, got, answer,
  state, attempts, worker, gen, generation, candidates, episodes, up, pid, queue, running, stop,
  wpc, wjob, worst, fpc, fjob, fgen, snap, todo, clears, owner, written

Tools == {"c1", "c2"}
Agents == INSTANCE SubAgents WITH Callers <- Tools, Fan <- 2, TaskMax <- 2, MaxDepth <- 2,
                                  MaxCalls <- 1, MaxLost <- 1
Mcp(http) == INSTANCE McpClient WITH Threads <- {"t1"}, Http <- http, MaxForks <- 2,
                                     MaxFaults <- 1, MaxCalls <- 1, MaxRequests <- 3

(* One call of each kind, and a pair whose children may hold each other's pipes. *)
Kinds == {"ext", "dynamic", "bash_legacy", "bash_policy", "check"}
Pairs == {<<"ext", "check">>}
Child == INSTANCE ChildProcess WITH child <- process, Runs <- {1, 2}, PipeSize <- 1,
                   MaxChunks <- <<2, 1>>,
                   Mixes <- {<<k, "none">> : k \in Kinds} \cup Pairs \cup {<<"none", "none">>}

Procs == {"p0", "p1"}
Job == INSTANCE MemoryJobs WITH
  Jobs <- {"j1"}, Procs <- Procs, Pids <- {"i0", "i1"}, NoJob <- "no job", NoPid <- "no pid",
  NoProc <- "no process", MaxClears <- 0, MaxAttempts <- 4, ReusePids <- FALSE

agents == <<task_count, tasks, rows, lost, depth, caller, overlapped, badjoin, runtime, reached>>
mcp == <<connected, connecting, lock, child, alive, forked, ready, inbox, outbox, next_req_id,
         registered, thread, stray, dropped, faults, raced>>
programs == <<kindOf, at, process, status, holds, helper, request, out, err, got, answer>>
jobs == <<state, attempts, worker, gen, generation, candidates, episodes, up, pid, queue, running,
          stop, wpc, wjob, worst, fpc, fjob, fgen, snap, todo, clears, owner, written>>

\* The run p0 has submitted its job and crashed before or after its worker
\* claimed it: the state that the later run p1 recovers from.
CrashedInit ==
  \E claimed \in BOOLEAN :
  /\ state = [j \in {"j1"} |-> IF claimed THEN "running" ELSE "queued"]
  /\ attempts = [j \in {"j1"} |-> IF claimed THEN 1 ELSE 0]
  /\ worker = [j \in {"j1"} |-> IF claimed THEN "i0" ELSE "no pid"]
  /\ owner = [j \in {"j1"} |-> IF claimed THEN "p0" ELSE "no process"]
  /\ gen = [j \in {"j1"} |-> 0]
  /\ generation = 0 /\ candidates = {} /\ episodes = [j \in {"j1"} |-> 0]
  /\ up = [p \in Procs |-> IF p = "p0" THEN "down" ELSE "new"]
  /\ pid = [p \in Procs |-> IF p = "p0" THEN "i0" ELSE "no pid"]
  /\ queue = [p \in Procs |-> <<>>]
  /\ running = [p \in Procs |-> FALSE] /\ stop = [p \in Procs |-> FALSE]
  /\ wpc = [p \in Procs |-> "none"] /\ wjob = [p \in Procs |-> "no job"]
  /\ worst = [p \in Procs |-> "ok"]
  /\ fpc = [p \in Procs |-> "idle"] /\ fjob = [p \in Procs |-> "no job"]
  /\ fgen = [p \in Procs |-> 0] /\ snap = [p \in Procs |-> <<>>]
  /\ todo = [p \in Procs |-> {}]
  /\ clears = 0 /\ written = {}

\* The later run does not end.
LiveNext == Job!Next /\ up'["p1"] # "down" /\ fpc'["p1"] # "join"

Init ==
  /\ which \in {"agents", "stdio", "http", "programs", "jobs"}
  /\ Agents!Init /\ Mcp(FALSE)!Init
  /\ Child!Init /\ (which = "programs" <=> kindOf # <<"none", "none">>)
  /\ CrashedInit /\ (which # "jobs" => state["j1"] = "queued")

Next ==
  /\ UNCHANGED which
  /\ \/ which = "agents" /\ Agents!Next /\ UNCHANGED <<mcp, programs, jobs>>
     \/ which = "stdio" /\ Mcp(FALSE)!Next /\ UNCHANGED <<agents, programs, jobs>>
     \/ which = "http" /\ Mcp(TRUE)!Next /\ UNCHANGED <<agents, programs, jobs>>
     \/ which = "programs" /\ Child!ChildNext /\ UNCHANGED <<agents, mcp, jobs>>
     \/ which = "jobs" /\ LiveNext /\ UNCHANGED <<agents, mcp, programs>>

Followed(A) == which = "agents" /\ A /\ UNCHANGED <<which, mcp, programs, jobs>>
Running(A) == which = "programs" /\ A /\ UNCHANGED <<which, agents, mcp, jobs>>
Working(A) == which = "jobs" /\ A /\ UNCHANGED <<which, agents, mcp, programs>>
Fairness ==
  /\ \A c \in Tools : WF_agents(Followed(Agents!CallerReturns(c)))
  /\ \A i \in 1..2 : WF_agents(Followed(Agents!TaskStep(i)))
  /\ WF_agents(Followed(Agents!DestroyBegins)) /\ WF_agents(Followed(Agents!DestroyStep))
  /\ \A c \in {1, 2} :
       /\ WF_programs(Running(Child!Thread(c))) /\ WF_programs(Running(Child!SetsUp(c)))
       /\ WF_programs(Running(Child!Written(c))) /\ WF_programs(Running(Child!Exits(c)))
  (* The run p1 starts and goes on accepting input, its worker thread is scheduled, and *)
  (* a database error does not come back every time. *)
  /\ WF_jobs(Working(\E i \in {"i0", "i1"} : Job!Start("p1", i)))
  /\ WF_jobs(Working(Job!Worker("p1"))) /\ SF_jobs(Working(Job!memory_job_claim("p1")))
  /\ WF_jobs(Working(Job!memory_job_record("p1") \/ Job!SubmitEnqueues("p1")
                       \/ Job!SubmitFails("p1")))
  /\ SF_jobs(Working(Job!ResumeLists("p1"))) /\ WF_jobs(Working(Job!ResumeEnds("p1")))
  /\ SF_jobs(Working(Job!ResumeQueued("p1", "j1")))

Spec == Init /\ [][Next]_<<which, agents, mcp, programs, jobs>> /\ Fairness

\* The depth counts the fan-outs under way, and the threads and the rows of the
\* tasks are accounted for (SubAgents).
ThreadsAccounted == Agents!DepthCounts /\ Agents!ThreadsAccounted

\* Every call of a sub-agent tool returns and the runtime is freed (SubAgents); a
\* call that starts a program returns unless its program blocks it (ChildProcess);
\* the job of a dead run is taken up by a run that goes on (MemoryJobs).
AllReturn ==
  <>[](/\ which = "agents" => Agents!Returned
       /\ which = "programs" => Child!Answered
       /\ which = "jobs" => Job!Taken)

\* A request gets the answer to it, and no server is left behind (McpClient).
ServersAccounted == Mcp(FALSE)!AnswersMatch /\ Mcp(FALSE)!ServersAccounted

\* A program's answer is the whole of what it wrote, or says otherwise (ChildProcess).
AnswersAreWhole == Child!AnswersAreWhole
=============================================================================
