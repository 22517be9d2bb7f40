------------------------------ MODULE MCTasks ------------------------------
(***************************************************************************)
(* Scheduled tasks and the command line whose turns they interleave with.  *)
(* A behaviour follows two schedulers that race for one task, or one       *)
(* scheduler that has two tasks to get to, or the threads of the CLI.      *)
(***************************************************************************)
EXTENDS MCScheduledTasks

CONSTANTS LiveTasks, LiveSchedulers, LiveTime,
          Modes, MaxLines, MaxEvents, MaxAsks, MaxTasks, MaxCancels, MaxTotal

VARIABLES
  which,
  rows, inbox, time, at, began, listed, item, outcome, changes, deaths, claims, lost,
  mode, running, owner, lines, job, prompts, task, execution_lock, pending, local, wake, calls,
  sigint, cancelled, told, spent

\* One scheduler with two tasks, an interval and a watch, and time for retries.
Live == INSTANCE ScheduledTasks WITH
  Tasks <- LiveTasks, Schedulers <- LiveSchedulers, Runnerless <- {}, Inputs <- MCLiveInputs,
  EditInputs <- {}, RetryAfters <- {0}, MaxTime <- LiveTime, MaxEdits <- 0,
  row <- rows, notifications <- inbox, clock <- time, pc <- at, now <- began, batch <- listed,
  cur <- item, result <- outcome, edits <- changes, aborts <- deaths, claimed_at <- claims,
  forfeited <- lost

Cli == INSTANCE CommandLine

live == <<rows, inbox, time, at, began, listed, item, outcome, changes, deaths, claims, lost>>
cli == <<mode, running, owner, lines, job, prompts, task, execution_lock, pending, local, wake,
         calls, sigint, cancelled, told, spent>>

\* The parts that are not followed rest in one of their initial states.
TasksInit ==
  /\ which \in {"race", "live", "cli"}
  /\ Init /\ Live!Init
  /\ Cli!CliInit /\ (which # "cli" => mode = "once")

\* The user may leave the keyboard, and the program is over once it is gone.
CliRests == UNCHANGED cli

TasksNext ==
  /\ UNCHANGED which
  /\ \/ which = "race" /\ Next /\ UNCHANGED <<live, cli>>
     \/ which = "live" /\ Live!Next /\ UNCHANGED <<vars, cli>>
     \/ which = "cli" /\ (Cli!CliNext \/ CliRests) /\ UNCHANGED <<vars, live>>

\* The worker loops, runners return and time passes.
TasksSpec ==
  /\ TasksInit /\ [][TasksNext]_<<which, vars, live, cli>>
  /\ WF_live(which = "live" /\ Live!Tick)
  /\ \A s \in LiveSchedulers : WF_live(which = "live" /\ Live!Collect(s))

\* No task waits for ever (ScheduledTasks).
TasksRecovered == which = "live" => Live!NobodyStarves

\* A line becomes a turn, and a turn is cancelled when the user means it
\* (CommandLine).
TurnsAsTyped == which = "cli" => Cli!TurnsAsTyped

\* The threads of the CLI go on, and the user answers what is asked.
CliFairness ==
  /\ WF_cli(which = "cli" /\ Cli!OwnerStep) /\ WF_cli(which = "cli" /\ Cli!JobStep)
  /\ WF_cli(which = "cli" /\ Cli!TaskStep)

\* Commands return and the program ends, if its threads go on and the user answers
\* (CommandLine).
CommandsReturn == which = "cli" /\ CliFairness => Cli!CommandsReturn
=============================================================================
