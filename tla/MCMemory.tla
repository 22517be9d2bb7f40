------------------------------ MODULE MCMemory ------------------------------
(***************************************************************************)
(* What a session keeps.  A behaviour follows the memory jobs of several   *)
(* processes, or the model history and the transcript of one session that  *)
(* one process has open, or several.                                       *)
(***************************************************************************)
EXTENDS MemoryJobs, TLC

CONSTANTS
  MaxRuns,  \* bound: the attempts of a job and the clears, taken together
  MaxTurns, MaxBatch, MaxCompactions, Ends

VARIABLES
  which,
  rows, messages, turn, pc, items, open, calls, compacted, manual, outcome, kept

CallsOf(w) == IF w = "shared" THEN 1 ELSE 2
ManualOf(w) == IF w = "shared" THEN 1 ELSE 0
History(w) == INSTANCE AgentHistory WITH
  MaxCalls <- CallsOf(w), MaxManual <- ManualOf(w), Shared <- w = "shared"

Histories == {"history", "shared"}
history == <<rows, messages, turn, pc, items, open, calls, compacted, manual, outcome, kept>>

Symmetry == Permutations(Procs) \cup Permutations(Pids)

\* The parts that are not followed rest in one of their initial states.
MemoryInit ==
  /\ which \in {"jobs"} \cup Histories
  /\ Init /\ History("shared")!Init

\* Every run of the program has ended.
JobsEnd == (\A p \in Procs : up[p] = "down") /\ UNCHANGED vars

\* Every turn that the bound allows has been made.
HistoryEnds == pc = "idle" /\ turn = MaxTurns /\ UNCHANGED history

MemoryNext ==
  /\ UNCHANGED which
  /\ \/ /\ which = "jobs" /\ (Next \/ JobsEnd) /\ UNCHANGED history
        /\ \A j \in Jobs : attempts'[j] + clears' <= MaxRuns
     \/ \E w \in Histories : which = w /\ History(w)!Next /\ UNCHANGED vars
     \/ which \in Histories /\ HistoryEnds /\ UNCHANGED vars

MemorySpec == MemoryInit /\ [][MemoryNext]_<<which, vars, history>>

\* The model is shown calls with their results, and the transcript agrees with
\* the history (AgentHistory).
HistoryPaired == \A w \in Histories : which = w => History(w)!HistoryPaired

\* What a turn that succeeded said is kept or summarised (AgentHistory).
Remembered == \A w \in Histories : which = w => History(w)!Remembered
=============================================================================
