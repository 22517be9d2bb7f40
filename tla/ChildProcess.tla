---------------------------- MODULE ChildProcess ----------------------------
(***************************************************************************)
(* The programs tools run: bash_exec (agent/tools/bash_exec.c), dynamic    *)
(* tools and their source check (agent/tools/dynamic_tools.c) and          *)
(* executable extensions (ext/ext.c).  Each call makes pipes, forks,       *)
(* writes its request (not bash_exec and the check), reads the child's     *)
(* output and reaps it.  Calls run on tool threads side by side, and a     *)
(* fork copies every descriptor open in the process: a child of one call   *)
(* may hold the write ends of another call's pipes.                        *)
(*                                                                         *)
(* Output is counted in chunks of a pipe's capacity; a deadline may pass   *)
(* at any moment of a call that has one.                                   *)
(***************************************************************************)
EXTENDS Integers, FiniteSets

CONSTANTS
    Runs,       \* the tool calls
    Mixes,      \* which functions run the calls ("none": no call), as tried
    PipeSize,   \* chunks a pipe holds
    MaxChunks   \* call -> chunks its child writes to an output, or its request has

VARIABLES
    kindOf,     \* call -> which function runs it
    at,         \* call -> the step its thread has reached
    child,      \* call -> "none", "setup", "run", "prints", "complains" (in
                \* write), "hung", "zombie", "reaped"
    status,     \* call -> how the child ended: "ok", "failed" or "signal"
    holds,      \* call -> the processes holding the write ends of its pipes
    helper,     \* call -> a background process of the child that has its pipes
    request,    \* call -> chunks of the request: [left, piped]
    out, err,   \* call -> [wrote, piped]: chunks written, chunks in the pipe
    got,        \* call -> chunks of output the thread has taken
    answer      \* call -> what the tool returned

childVars == <<kindOf, at, child, status, holds, helper, request, out, err, got,
               answer>>

Timed(c) == kindOf[c] \in {"bash_legacy", "bash_policy", "dynamic"}
Asks(c) == kindOf[c] \in {"dynamic", "ext"}
OneOutput(c) == kindOf[c] = "check"
Alive == {"setup", "run", "prints", "complains", "hung"}

(* The steps during which the thread has its copies of the write ends of   *)
(* its output pipes.                                                       *)
HasWriteEnds(c) == at[c] \in {"piped", "forked"}
ReadsOut(c) == at[c] \in {"piped", "forked", "write", "buffers", "read"}
ReadsErr(c) == ReadsOut(c) \/ at[c] = "readerr"

(* No process can write to the call's outputs any more. *)
Closed(c) == ~HasWriteEnds(c) /\ holds[c] = {} /\ helper[c] = "none"

Init ==
    /\ kindOf \in Mixes
    /\ at = [c \in Runs |-> "idle"]
    /\ child = [c \in Runs |-> "none"]
    /\ status = [c \in Runs |-> "none"]
    /\ holds = [c \in Runs |-> {}]
    /\ helper = [c \in Runs |-> "none"]
    /\ request = [c \in Runs |-> [left |-> 0, piped |-> 0]]
    /\ out = [c \in Runs |-> [wrote |-> 0, piped |-> 0]]
    /\ err = [c \in Runs |-> [wrote |-> 0, piped |-> 0]]
    /\ got = [c \in Runs |-> 0]
    /\ answer = [c \in Runs |-> "none"]

Goes(c, step) == at' = [at EXCEPT ![c] = step]

(* The process ends and lets go of every pipe it holds. *)
Gone(c) ==
    /\ child' = [child EXCEPT ![c] = "zombie"]
    /\ holds' = [d \in Runs |-> holds[d] \ {c}]

-----------------------------------------------------------------------------
(* The calling thread.                                                     *)

Refused(c) ==
    /\ Goes(c, "done")
    /\ answer' = [answer EXCEPT ![c] = "refused"]
    /\ UNCHANGED <<kindOf, child, status, holds, helper, request, out, err, got>>

(* The pipes are made; the request of a call that has one is n chunks. *)
Prepares(c, n) ==
    /\ Goes(c, "piped")
    /\ request' = [request EXCEPT ![c].left = n]
    /\ UNCHANGED <<kindOf, child, status, holds, helper, out, err, got, answer>>

(* bash_exec, the older policy: no arguments, a blocked command or a path  *)
(* outside the allowed ones that the user does not grant end the call.     *)
bash_exec_run_legacy(c) ==
    /\ at[c] = "idle" /\ kindOf[c] = "bash_legacy"
    /\ Refused(c) \/ Prepares(c, 0)

(* bash_exec, the capability policy: the verdict on the command, then each *)
(* path to write and to delete must be within the policy or granted.       *)
bash_exec_run_policy(c) ==
    /\ at[c] = "idle" /\ kindOf[c] = "bash_policy"
    /\ Refused(c) \/ Prepares(c, 0)

dynamic_tool_exec(c) ==
    /\ at[c] = "idle" /\ kindOf[c] = "dynamic"
    /\ \E n \in 1..MaxChunks[c] : Prepares(c, n)

(* Only an enabled, executable extension is run. *)
ext_run(c) ==
    /\ at[c] = "idle" /\ kindOf[c] = "ext"
    /\ Refused(c) \/ \E n \in 1..MaxChunks[c] : Prepares(c, n)

check_js_source(c) ==
    /\ at[c] = "idle" /\ kindOf[c] = "check"
    /\ Prepares(c, 0)

Calls(c) == bash_exec_run_legacy(c) \/ bash_exec_run_policy(c)
            \/ dynamic_tool_exec(c) \/ ext_run(c) \/ check_js_source(c)

(* The child starts with a copy of every write end open at this moment. *)
Forks(c) ==
    /\ at[c] = "piped"
    /\ Goes(c, "forked")
    /\ child' = [child EXCEPT ![c] = "setup"]
    /\ holds' = [d \in Runs |-> IF HasWriteEnds(d) THEN holds[d] \cup {c}
                                ELSE holds[d]]
    /\ UNCHANGED <<kindOf, status, helper, request, out, err, got, answer>>

(* The thread closes the child's ends of the pipes. *)
ClosesEnds(c) ==
    /\ at[c] = "forked"
    /\ Goes(c, IF Asks(c) THEN "write" ELSE "buffers")
    /\ UNCHANGED <<kindOf, child, status, holds, helper, request, out, err, got,
                   answer>>

(* The request is written as the pipe takes it; a write to a child that is *)
(* gone fails.  A dynamic tool's call goes on to read, an extension's ends.*)
WritesRequest(c) ==
    /\ at[c] = "write"
    /\ \/ /\ request[c].left > 0 /\ child[c] \in Alive
          /\ request[c].piped < PipeSize
          /\ request' = [request EXCEPT ![c] = [left |-> @.left - 1,
                                                piped |-> @.piped + 1]]
          /\ UNCHANGED <<at, answer>>
       \/ /\ request[c].left = 0
          /\ Goes(c, "buffers")
          /\ UNCHANGED <<request, answer>>
       \/ /\ request[c].left > 0 /\ child[c] \notin Alive
          /\ Goes(c, IF kindOf[c] = "ext" THEN "wait" ELSE "buffers")
          /\ answer' = [answer EXCEPT ![c] = IF kindOf[c] = "ext" THEN "error"
                                             ELSE @]
          /\ UNCHANGED request
    /\ UNCHANGED <<kindOf, child, status, holds, helper, out, err, got>>

(* The output buffers; without memory the older bash_exec returns at once, *)
(* the newer one kills its child, and the others wait for theirs to end.   *)
Buffers(c) ==
    /\ at[c] = "buffers"
    /\ \/ /\ Goes(c, "read")
          /\ UNCHANGED answer
       \/ /\ Goes(c, CASE kindOf[c] = "bash_legacy" -> "done"
                       [] kindOf[c] = "bash_policy" -> "kill"
                       [] OTHER -> "wait")
          /\ answer' = [answer EXCEPT ![c] = "nomem"]
    /\ UNCHANGED <<kindOf, child, status, holds, helper, request, out, err, got>>

(* The select loop of the timed calls, and the reads of an extension's     *)
(* standard output or of the check's only pipe.                            *)
TakesOutput(c) ==
    /\ at[c] = "read" /\ out[c].piped > 0
    /\ got' = [got EXCEPT ![c] = @ + out[c].piped]
    /\ out' = [out EXCEPT ![c].piped = 0]
    /\ UNCHANGED <<kindOf, at, child, status, holds, helper, request, err, answer>>

(* Standard error: in the select loop, or after standard output. *)
TakesErrors(c) ==
    /\ at[c] = (IF Timed(c) THEN "read" ELSE "readerr") /\ err[c].piped > 0
    /\ err' = [err EXCEPT ![c].piped = 0]
    /\ UNCHANGED <<kindOf, at, child, status, holds, helper, request, out, got,
                   answer>>

(* A loop that stops at the end of either output. *)
ReadEnds_either(c) ==
    /\ at[c] = "read" /\ Closed(c) /\ (out[c].piped = 0 \/ err[c].piped = 0)
    /\ Goes(c, "wait")
    /\ UNCHANGED <<kindOf, child, status, holds, helper, request, out, err, got,
                   answer>>

(* End of file on every output of the call. *)
ReadEnds(c) ==
    /\ \/ /\ at[c] = "read" /\ Closed(c) /\ out[c].piped = 0
          /\ Timed(c) => err[c].piped = 0
          /\ Goes(c, IF kindOf[c] = "ext" THEN "readerr" ELSE "wait")
       \/ /\ at[c] = "readerr" /\ Closed(c) /\ err[c].piped = 0
          /\ Goes(c, "wait")
    /\ UNCHANGED <<kindOf, child, status, holds, helper, request, out, err, got,
                   answer>>

(* The deadline passes first: the pipes are closed, the child is killed.   *)
TimesOut(c) ==
    /\ at[c] = "read" /\ Timed(c)
    /\ Goes(c, "kill")
    /\ answer' = [answer EXCEPT ![c] = "timeout"]
    /\ UNCHANGED <<kindOf, child, status, holds, helper, request, out, err, got>>

(* Only the child itself is signalled; a process it left behind goes on. *)
Kills(c) ==
    /\ at[c] = "kill"
    /\ Goes(c, "wait")
    /\ IF child[c] \in Alive THEN /\ Gone(c)
                                  /\ status' = [status EXCEPT ![c] = "signal"]
                             ELSE UNCHANGED <<child, holds, status>>
    /\ UNCHANGED <<kindOf, helper, request, out, err, got, answer>>

(* The child is reaped; an error met before is what the call reports. *)
Reaps(c, found) ==
    /\ at[c] = "wait" /\ child[c] = "zombie"
    /\ child' = [child EXCEPT ![c] = "reaped"]
    /\ Goes(c, "done")
    /\ answer' = [answer EXCEPT ![c] = IF @ # "none" THEN @ ELSE found]
    /\ UNCHANGED <<kindOf, status, holds, helper, request, out, err, got>>

(* bash_exec reports the output with the exit code or the signal. *)
LegacyReports(c) == kindOf[c] = "bash_legacy" /\ Reaps(c, "output")
PolicyReports(c) == kindOf[c] = "bash_policy" /\ Reaps(c, "output")

(* What was read must be a reply of the protocol. *)
Replies(c) == IF got[c] > 0 THEN {"output", "badreply"} ELSE {"badreply"}

ExtReports(c) ==
    /\ kindOf[c] = "ext"
    /\ \E found \in IF status[c] = "signal" THEN {"terminated"} ELSE Replies(c) :
          Reaps(c, found)

DynamicReports(c) ==
    /\ kindOf[c] = "dynamic"
    /\ \E found \in IF status[c] = "signal" THEN {"terminated"}
                     ELSE IF status[c] = "failed" /\ got[c] = 0 THEN {"error"}
                     ELSE Replies(c) :
          Reaps(c, found)

CheckReports(c) ==
    /\ kindOf[c] = "check"
    /\ Reaps(c, IF status[c] = "ok" THEN "accepted" ELSE "rejected")

Reports(c) == LegacyReports(c) \/ PolicyReports(c) \/ ExtReports(c)
              \/ DynamicReports(c) \/ CheckReports(c)

-----------------------------------------------------------------------------
(* The child.                                                              *)

(* The child of the steps below runs its program with the write ends       *)
(* "kept", or fails before.                                                *)
Starts(c, kept) ==
    /\ child[c] = "setup"
    /\ \/ /\ child' = [child EXCEPT ![c] = "run"]
          /\ holds' = kept
          /\ UNCHANGED status
       \/ /\ Gone(c)
          /\ status' = [status EXCEPT ![c] = "failed"]
    /\ UNCHANGED <<kindOf, at, helper, request, out, err, got, answer>>

OwnOnly(c) == [d \in Runs |-> IF d = c THEN holds[d] ELSE holds[d] \ {c}]

(* bash_exec's and an extension's child start a session, close what they   *)
(* inherited, collect the paths they may use and enter the sandbox.        *)
LegacyStarts(c) == kindOf[c] = "bash_legacy" /\ Starts(c, OwnOnly(c))
PolicyStarts(c) == kindOf[c] = "bash_policy" /\ Starts(c, OwnOnly(c))
ExtStarts(c) == kindOf[c] = "ext" /\ Starts(c, OwnOnly(c))

(* The JavaScript runner's child sets its environment and directory and    *)
(* keeps every descriptor it inherited.                                    *)
set_child_env(c) == kindOf[c] \in {"dynamic", "check"} /\ Starts(c, holds)

SetsUp(c) == LegacyStarts(c) \/ PolicyStarts(c) \/ ExtStarts(c) \/ set_child_env(c)

TakesRequest(c) ==
    /\ child[c] = "run" /\ request[c].piped > 0
    /\ request' = [request EXCEPT ![c].piped = @ - 1]
    /\ UNCHANGED <<kindOf, at, child, status, holds, helper, out, err, got, answer>>

(* The child starts a write; a full pipe makes it wait there, a pipe nobody *)
(* reads kills it.                                                         *)
Writes(c) ==
    /\ child[c] = "run" /\ c \in holds[c]
    /\ \/ /\ out[c].wrote < MaxChunks[c]
          /\ child' = [child EXCEPT ![c] = "prints"]
       \/ /\ err[c].wrote < MaxChunks[c] /\ ~OneOutput(c)
          /\ child' = [child EXCEPT ![c] = "complains"]
    /\ UNCHANGED <<kindOf, at, status, holds, helper, request, out, err, got, answer>>

Put(pipe, c) == [pipe EXCEPT ![c] = [wrote |-> @.wrote + 1, piped |-> @.piped + 1]]

Written(c) ==
    /\ \/ /\ child[c] = "prints" /\ ReadsOut(c) /\ out[c].piped < PipeSize
          /\ out' = Put(out, c)
          /\ child' = [child EXCEPT ![c] = "run"]
          /\ UNCHANGED <<err, holds, status>>
       \/ /\ child[c] = "complains" /\ ReadsErr(c) /\ err[c].piped < PipeSize
          /\ err' = Put(err, c)
          /\ child' = [child EXCEPT ![c] = "run"]
          /\ UNCHANGED <<out, holds, status>>
       \/ /\ \/ child[c] = "prints" /\ ~ReadsOut(c)
             \/ child[c] = "complains" /\ ~ReadsErr(c)
          /\ Gone(c)
          /\ status' = [status EXCEPT ![c] = "signal"]
          /\ UNCHANGED <<out, err>>
    /\ UNCHANGED <<kindOf, at, helper, request, got, answer>>

(* The program closes its outputs and goes on. *)
ClosesOutputs(c) ==
    /\ child[c] = "run" /\ c \in holds[c]
    /\ kindOf[c] \in {"bash_legacy", "bash_policy", "ext"}
    /\ holds' = [holds EXCEPT ![c] = @ \ {c}]
    /\ UNCHANGED <<kindOf, at, child, status, helper, request, out, err, got, answer>>

(* A background process, with the outputs of the program that starts it. *)
StartsHelper(c) ==
    /\ child[c] = "run" /\ c \in holds[c] /\ helper[c] = "none"
    /\ kindOf[c] \in {"bash_legacy", "bash_policy"}
    /\ helper' = [helper EXCEPT ![c] = "run"]
    /\ UNCHANGED <<kindOf, at, child, status, holds, request, out, err, got, answer>>

HelperEnds(c) ==
    /\ helper[c] = "run"
    /\ helper' = [helper EXCEPT ![c] = "none"]
    /\ UNCHANGED <<kindOf, at, child, status, holds, request, out, err, got, answer>>

Hangs(c) ==
    /\ child[c] = "run"
    /\ child' = [child EXCEPT ![c] = "hung"]
    /\ UNCHANGED <<kindOf, at, status, holds, helper, request, out, err, got, answer>>

Exits(c) ==
    /\ child[c] = "run"
    /\ Gone(c)
    /\ \E s \in {"ok", "failed"} : status' = [status EXCEPT ![c] = s]
    /\ UNCHANGED <<kindOf, at, helper, request, out, err, got, answer>>

-----------------------------------------------------------------------------
(* What a thread does, what a child does when it does not hang.            *)

Thread(c) ==
    \/ Forks(c) \/ ClosesEnds(c) \/ WritesRequest(c) \/ Buffers(c)
    \/ TakesOutput(c) \/ TakesErrors(c) \/ ReadEnds(c) \/ TimesOut(c)
    \/ Kills(c) \/ Reports(c)

Program(c) ==
    \/ SetsUp(c) \/ TakesRequest(c) \/ Writes(c) \/ Written(c)
    \/ ClosesOutputs(c) \/ StartsHelper(c) \/ Hangs(c)

ChildNext == \E c \in Runs : Calls(c) \/ Thread(c) \/ Program(c)
                              \/ Exits(c) \/ HelperEnds(c)

-----------------------------------------------------------------------------
(* A call that answers has reaped its child (but for the older bash_exec   *)
(* without memory for its buffers).  What it reports as output is all the  *)
(* child printed, and an extension or a dynamic tool that a signal ended   *)
(* never gets its output reported.  A source is accepted only when the     *)
(* check ran to its end and found no error.                                *)
AnswersAreWhole ==
    \A c \in Runs : at[c] = "done" /\ answer[c] # "refused" =>
        /\ child[c] = "reaped" \/ (kindOf[c] = "bash_legacy" /\ answer[c] = "nomem")
        /\ answer[c] = "output" =>
              /\ got[c] = out[c].wrote
              /\ Asks(c) => status[c] # "signal"
        /\ answer[c] = "accepted" => status[c] = "ok"

(* A process that will do nothing more by itself. *)
Stuck(c) ==
    \/ child[c] = "hung"
    \/ child[c] = "prints" /\ out[c].piped = PipeSize
    \/ child[c] = "complains" /\ err[c].piped = PipeSize

(* The only situations in which a call waits without end: its request does *)
(* not fit the pipe and the child does not read it, because it hangs or    *)
(* waits for the thread to read; the child let go of its outputs and       *)
(* hangs; or a call without a deadline reads one output while a process    *)
(* that holds it hangs or waits for the other one to be read.              *)
Blocked(c) ==
    \/ at[c] = "write" /\ request[c].left > 0 /\ Stuck(c)
    \/ at[c] = "wait" /\ child[c] = "hung" /\ answer[c] # "timeout"
    \/ at[c] \in {"read", "readerr"} /\ ~Timed(c) /\ \E d \in holds[c] : Stuck(d)

(* Every call that started has answered, unless it is Blocked: where every behaviour ends. *)
Answered == \A c \in Runs : at[c] \in {"idle", "done"} \/ Blocked(c)
=============================================================================
