---------------------------- MODULE ToolCallsProofs ----------------------------
(***************************************************************************)
(* Theorems about a batch of tool calls, for any number of calls and       *)
(* whatever happens to it.                                                 *)
(***************************************************************************)
EXTENDS ToolCalls, TLAPS

\* Where the joining thread is.
Starting == {"hitl", "start", "release"}
Joining == {"join", "wait", "joining", "collect"}
Leaving == {"cleanup", "cleanup_detach", "returned"}

\* A slot stands for a worker; while the joining thread has not passed a call the
\* slot tells whether there is one.  A denied call has none.
SlotsAgree ==
  /\ \A c \in Calls : slot[c] => wpc[c] # "none" /\ ~denied[c]
  /\ mpc = "hitl" => \A c \in Calls : wpc[c] = "none"
  /\ mpc = "start" => \A c \in Calls : c >= i => wpc[c] = "none"
  /\ mpc \in Starting => \A c \in Calls : wpc[c] # "none" => slot[c]
  /\ mpc \in Joining => \A c \in Calls : c >= i /\ wpc[c] # "none" => slot[c]
  /\ mpc \in {"wait", "joining", "collect"} => i \in Calls /\ slot[i]

\* The calls passed by the joining thread have a result, or the turn is over.
Answered(c) == denied[c] \/ wpc[c] # "none" => recorded[c] # "none"
Passed ==
  /\ mpc \in Joining => \A c \in Calls : c < i => Answered(c)
  /\ mpc \in Leaving => over \/ \A c \in Calls : Answered(c)

\* A worker completes once; what it found then stays in the struct unless the call
\* had been cancelled.
Completed == {"emit", "check", "free", "exited"}
Completion ==
  \A c \in Calls :
    /\ flags[c].completed = TRUE <=> wpc[c] \in Completed
    /\ flags[c].completed = TRUE /\ flags[c].cancelled = FALSE =>
         flags[c].rc = tool[c] /\ tool[c] # "none"

\* A call that is recorded as late was cancelled before it completed.
Late ==
  "disabled" \notin events => \A c \in Calls :
    recorded[c] \in {"timeout", "cancelled"} => flags[c].cancelled = TRUE /\ wpc[c] # "emit"

\* Of an undisturbed batch: nobody asks to stop.
Calm ==
  /\ ctx.cancelled = FALSE /\ ctx.sigint = FALSE
  /\ \A c \in Calls : flags[c].cancelled = flags[c].detached

\* Every struct has one owner: the joining thread while the slot points to it,
\* the worker once the call is detached.
OwnedCall(c) ==
  /\ slot[c] => mem[c] = "live" /\ flags[c].detached = FALSE
  /\ Running(c) => mem[c] = "live" /\ (slot[c] \/ flags[c].detached = TRUE)
  /\ wpc[c] = "none" => mem[c] # "live" /\ flags[c].detached = FALSE
  /\ wpc[c] = "exited" => slot[c] \/ mem[c] = "freed"
  /\ wpc[c] = "free" => flags[c].detached = TRUE
Owned == \A c \in Calls : OwnedCall(c)

\* A slot that was passed belongs to a worker that has exited, and the cleanup
\* empties them all.
Swept ==
  /\ mpc \in Joining => \A c \in Calls : c < i /\ slot[c] => wpc[c] = "exited"
  /\ mpc = "collect" => wpc[i] = "exited"
  /\ mpc = "cleanup" => \A c \in Calls : slot[c] => wpc[c] = "exited" /\ c >= i
  /\ mpc # "cleanup_detach"
  /\ mpc = "returned" => \A c \in Calls : ~slot[c]

\* A result is recorded after the worker has exited.
Faithful ==
  \A c \in Calls : recorded[c] \in {"ok", "error"} => wpc[c] = "exited" /\ recorded[c] = tool[c]

Quiet == Undisturbed => Calm /\ Owned /\ Swept /\ Faithful
IInv == TypeOK /\ SlotsAgree /\ Passed /\ Completion /\ Late /\ Quiet

\* TypeOK by kinds of value.
Indices == mpc \in MainSteps /\ i \in 1..(N + 1)
Marks ==
  /\ mem \in [Calls -> {"none", "live", "freed"}]
  /\ tool \in [Calls -> Returned]
  /\ wpc \in [Calls -> WorkerSteps]
  /\ recorded \in [Calls -> Results]
Bits ==
  /\ slot \in [Calls -> BOOLEAN] /\ started \in [Calls -> BOOLEAN]
  /\ denied \in [Calls -> BOOLEAN] /\ over \in BOOLEAN
Requests == ctx \in [cancelled : BOOLEAN, sigint : BOOLEAN]
Structs == flags \in [Calls -> Struct]

-----------------------------------------------------------------------------
(* What a step leaves alone. *)

\* Who writes the flags of a struct.
LEMMA FlagsFrame ==
  ASSUME Next
  PROVE  \/ UNCHANGED flags
         \/ Release \/ JoinCall \/ WaitTimedOut \/ WaitCancelled \/ GiveUp \/ CleanupDetach
         \/ \E w \in Calls : WorkerDisabled(w) \/ WorkerCompletes(w)
BY Zenon DEF Next, Main, Worker, WorkerProceeds, react_check_hitl_approvals, hitl_denied, StartDenied,
       StartCall,
   StartFails, StartsDone, TakeSigint, JoinDenied, JoinNothing, WaitCompleted, JoinThread,
   Collect, JoinsDone, CleanupNothing, CleanupSeesRunning, CleanupDestroy, Drain,
   react_cancel, react_sigint, WorkerReleased, WorkerEmits, WorkerChecks, WorkerFrees, threads

\* Who moves a worker.
LEMMA CallFrame ==
  ASSUME Next
  PROVE  \/ UNCHANGED <<wpc, tool>>
         \/ StartCall
         \/ \E w \in Calls : Worker(w)
BY Zenon DEF Next, Main, react_check_hitl_approvals, hitl_denied, StartDenied, StartFails, StartsDone,
       Release,
   TakeSigint, JoinDenied, JoinNothing, JoinCall, WaitCompleted, WaitTimedOut, WaitCancelled,
   JoinThread, Collect, GiveUp, JoinsDone, CleanupNothing, CleanupSeesRunning, CleanupDetach,
   CleanupDestroy, Drain, react_cancel, react_sigint, threads

\* Who allocates and frees.
LEMMA MemFrame ==
  ASSUME Next
  PROVE  \/ UNCHANGED mem
         \/ StartCall \/ StartFails \/ GiveUp \/ CleanupDestroy
         \/ \E w \in Calls : WorkerFrees(w)
BY Zenon DEF Next, Main, Worker, WorkerProceeds, react_check_hitl_approvals, hitl_denied, StartDenied,
   StartsDone, Release, TakeSigint, JoinDenied, JoinNothing, JoinCall, WaitCompleted,
   WaitTimedOut, WaitCancelled, JoinThread, Collect, JoinsDone, CleanupNothing,
   CleanupSeesRunning, CleanupDetach, Drain, react_cancel, react_sigint, WorkerReleased,
   WorkerDisabled, WorkerCompletes, tool_exec, WorkerEmits, WorkerChecks, threads

\* Who writes the slots.
LEMMA SlotFrame ==
  ASSUME Next
  PROVE  \/ UNCHANGED <<slot, started>>
         \/ StartCall \/ WaitTimedOut \/ WaitCancelled \/ JoinThread \/ GiveUp \/
            CleanupDetach \/ CleanupDestroy
BY Zenon DEF Next, Main, Worker, WorkerProceeds, react_check_hitl_approvals, hitl_denied, StartDenied,
   StartFails, StartsDone, Release, TakeSigint, JoinDenied, JoinNothing, JoinCall,
   WaitCompleted, Collect, JoinsDone, CleanupNothing, CleanupSeesRunning, Drain, react_cancel,
   react_sigint, WorkerReleased, WorkerDisabled, WorkerCompletes, tool_exec, WorkerEmits,
   WorkerChecks,
   WorkerFrees, main, slots

\* Who records a result, and who ends the turn.
LEMMA RecordFrame ==
  ASSUME Next
  PROVE  \/ UNCHANGED <<over, recorded, denied>>
         \/ react_check_hitl_approvals \/ StartFails \/ JoinDenied \/ WaitTimedOut \/
            WaitCancelled \/ JoinThread \/ Collect \/ GiveUp \/ Drain
BY Zenon DEF Next, Main, Worker, WorkerProceeds, StartDenied, StartCall, StartsDone, Release,
   TakeSigint, JoinNothing, JoinCall, WaitCompleted, JoinsDone, CleanupNothing,
   CleanupSeesRunning, CleanupDetach, CleanupDestroy, react_cancel, react_sigint,
   WorkerReleased, WorkerDisabled, WorkerCompletes, tool_exec, WorkerEmits, WorkerChecks,
   WorkerFrees,
   main, slots

\* Who asks to stop, and who takes the request.
LEMMA RequestFrame ==
  ASSUME Next
  PROVE  \/ UNCHANGED ctx
         \/ TakeSigint \/ WaitCancelled \/ Drain \/ react_cancel \/ react_sigint
BY Zenon DEF Next, Main, Worker, WorkerProceeds, react_check_hitl_approvals, hitl_denied, StartDenied,
       StartCall,
   StartFails, StartsDone, Release, JoinDenied, JoinNothing, JoinCall, WaitCompleted,
   WaitTimedOut, JoinThread, Collect, GiveUp, JoinsDone, CleanupNothing, CleanupSeesRunning,
   CleanupDetach, CleanupDestroy, WorkerReleased, WorkerDisabled, WorkerCompletes, tool_exec,
   WorkerEmits, WorkerChecks, WorkerFrees, main, slots

\* Who passes a struct on.
LEMMA OwnerFrame ==
  ASSUME Next
  PROVE  \/ UNCHANGED <<slot, mem, flags, wpc>>
         \/ StartCall \/ StartFails \/ Release \/ JoinCall \/ WaitTimedOut \/ WaitCancelled \/
            GiveUp \/ CleanupDetach \/ CleanupDestroy
         \/ \E w \in Calls : Worker(w)
BY Zenon DEF Next, Main, react_check_hitl_approvals, hitl_denied, StartDenied, StartsDone, TakeSigint,
   JoinDenied, JoinNothing, WaitCompleted, JoinThread, Collect, JoinsDone, CleanupNothing,
   CleanupSeesRunning, Drain, react_cancel, react_sigint, main, slots, threads

-----------------------------------------------------------------------------
(* The types. *)

\* The loops of the joining thread, one call after the other.
LEMMA Index ==
  ASSUME Indices, NEW c \in Calls
  PROVE  /\ c < i + 1 <=> c < i \/ c = i
         /\ c >= i + 1 <=> c >= i /\ c # i
         /\ c >= 1 /\ ~(c < 1)
         /\ c >= i <=> ~(c < i)
         /\ i = N + 1 => c < i
         /\ i <= N => i \in Calls
         /\ ~(i < i) /\ i >= i
BY BatchAssumption DEF Indices, Calls

\* The index of a loop is a call.
LEMMA InLoop ==
  ASSUME Indices, i <= N
  PROVE  i \in Calls
BY BatchAssumption DEF Indices, Calls

\* The joining thread stays in its loops.
LEMMA IndicesStep ==
  ASSUME Indices, Next
  PROVE  Indices'
<1> USE BatchAssumption DEF Indices, MainSteps, GoTo, At, AfterLoop
<1>1. CASE StartDenied \/ StartCall \/ StartFails \/ StartsDone \/ Release
  BY <1>1 DEF StartDenied, StartCall, StartFails, StartsDone, Release
<1>2. CASE TakeSigint \/ JoinDenied \/ JoinNothing \/ JoinCall \/ WaitCompleted
  BY <1>2 DEF TakeSigint, JoinDenied, JoinNothing, JoinCall, WaitCompleted, HistoryFails
<1>3. CASE WaitTimedOut \/ WaitCancelled \/ JoinThread
  BY <1>3 DEF WaitTimedOut, WaitCancelled, JoinThread, HistoryFails, Deadline
<1>4. CASE Collect \/ GiveUp \/ JoinsDone
  BY <1>4 DEF Collect, GiveUp, JoinsDone, HistoryFails
<1>5. CASE CleanupNothing \/ CleanupSeesRunning \/ CleanupDetach \/ CleanupDestroy \/ Drain
  BY <1>5 DEF CleanupNothing, CleanupSeesRunning, CleanupDetach, CleanupDestroy, Drain
<1>6. CASE react_cancel \/ react_sigint \/ \E w \in Calls : Worker(w)
  BY <1>6, ZenonT(60) DEF Worker, WorkerProceeds, react_cancel, react_sigint, WorkerReleased,
       WorkerDisabled, WorkerCompletes, tool_exec, WorkerEmits, WorkerChecks, WorkerFrees, main
<1>7. CASE react_check_hitl_approvals BY <1>7 DEF react_check_hitl_approvals, hitl_denied
<1> QED BY <1>1, <1>2, <1>3, <1>4, <1>5, <1>6, <1>7, Zenon DEF Next, Main

\* The marks: memory, workers, what the tools said and what is recorded of it.
LEMMA MarksStep ==
  ASSUME Indices, Marks, Next
  PROVE  Marks'
<1>1. mem' \in [Calls -> {"none", "live", "freed"}]
  <2> USE DEF Marks
  <2>1. CASE StartCall \/ StartFails BY <2>1, Zenon DEF StartCall, StartFails, Free
  <2>2. CASE GiveUp BY <2>2, Zenon DEF GiveUp
  <2>3. CASE CleanupDestroy BY <2>3, Zenon DEF CleanupDestroy, Free
  <2>4. CASE \E w \in Calls : WorkerFrees(w) BY <2>4, Zenon DEF WorkerFrees, Free
  <2> QED BY <2>1, <2>2, <2>3, <2>4, MemFrame, Zenon
<1>2. wpc' \in [Calls -> WorkerSteps] /\ tool' \in [Calls -> Returned]
  <2>1. CASE StartCall BY <2>1, Zenon DEF StartCall, Marks, WorkerSteps
  <2>2. ASSUME NEW w \in Calls, WorkerDisabled(w) \/ WorkerCompletes(w)
        PROVE  wpc' \in [Calls -> WorkerSteps]
    BY <2>2, Zenon DEF WorkerDisabled, WorkerCompletes, tool_exec, WorkerStep, Marks, WorkerSteps
  <2>3. ASSUME NEW w \in Calls, WorkerDisabled(w) \/ WorkerCompletes(w)
        PROVE  tool' \in [Calls -> Returned]
    BY <2>3, Zenon DEF WorkerDisabled, WorkerCompletes, tool_exec, Marks, Returned
  <2>4. ASSUME NEW w \in Calls, WorkerProceeds(w)
        PROVE  wpc' \in [Calls -> WorkerSteps] /\ tool' = tool
    BY <2>4, Zenon DEF WorkerProceeds, WorkerReleased, WorkerEmits, WorkerChecks, WorkerFrees,
         WorkerStep, Marks, WorkerSteps
  <2> QED BY <2>1, <2>2, <2>3, <2>4, CallFrame, Zenon DEF Worker, Marks
<1>3. recorded' \in [Calls -> Results]
  <2> USE DEF Marks, Results, Record, HistoryFails
  <2>1. CASE react_check_hitl_approvals \/ StartFails \/ JoinThread \/ Drain
    BY <2>1, Zenon DEF react_check_hitl_approvals, hitl_denied, StartFails, JoinThread, Drain
  <2>2. CASE JoinDenied BY <2>2, Zenon DEF JoinDenied
  <2>3. CASE WaitTimedOut BY <2>3, Zenon DEF WaitTimedOut
  <2>4. CASE WaitCancelled BY <2>4, Zenon DEF WaitCancelled
  <2>5. CASE Collect
    <3>1. Collected(i) \in Results BY Zenon DEF Collected, Returned
    <3> QED BY <2>5, <3>1, Zenon DEF Collect
  <2>6. CASE GiveUp BY <2>6, Zenon DEF GiveUp, Returned
  <2> QED BY <2>1, <2>2, <2>3, <2>4, <2>5, <2>6, RecordFrame, Zenon
<1> QED BY <1>1, <1>2, <1>3, Zenon DEF Marks

\* The Boolean fields of the slots.
LEMMA BitsStep ==
  ASSUME Bits, Next
  PROVE  Bits'
<1>1. slot' \in [Calls -> BOOLEAN] /\ started' \in [Calls -> BOOLEAN]
  <2> USE DEF Bits, DropSlot
  <2>1. CASE StartCall BY <2>1, Zenon DEF StartCall
  <2>2. CASE WaitTimedOut BY <2>2, Zenon DEF WaitTimedOut
  <2>3. CASE WaitCancelled BY <2>3, Zenon DEF WaitCancelled
  <2>4. CASE JoinThread BY <2>4, Zenon DEF JoinThread
  <2>5. CASE GiveUp BY <2>5, Zenon DEF GiveUp
  <2>6. CASE CleanupDetach BY <2>6, Zenon DEF CleanupDetach
  <2>7. CASE CleanupDestroy BY <2>7, Zenon DEF CleanupDestroy
  <2> QED BY <2>1, <2>2, <2>3, <2>4, <2>5, <2>6, <2>7, SlotFrame, Zenon
<1>2. denied' \in [Calls -> BOOLEAN] /\ over' \in BOOLEAN
  <2> USE DEF Bits
  <2>1. CASE react_check_hitl_approvals
    <3>1. denied' \in [Calls -> BOOLEAN]
      BY <2>1, Zenon DEF react_check_hitl_approvals, hitl_denied
    <3> QED BY <2>1, <3>1, Zenon DEF react_check_hitl_approvals, hitl_denied
  <2>2. CASE StartFails \/ JoinThread BY <2>2, Zenon DEF StartFails, JoinThread, slots
  <2>3. CASE JoinDenied BY <2>3, Zenon DEF JoinDenied, HistoryFails, slots
  <2>4. CASE WaitTimedOut BY <2>4, Zenon DEF WaitTimedOut, HistoryFails
  <2>5. CASE WaitCancelled \/ GiveUp BY <2>5, Zenon DEF WaitCancelled, GiveUp
  <2>6. CASE Collect BY <2>6, Zenon DEF Collect, HistoryFails, slots
  <2>7. CASE Drain BY <2>7, Zenon DEF Drain, slots
  <2> QED BY <2>1, <2>2, <2>3, <2>4, <2>5, <2>6, <2>7, RecordFrame, Zenon
<1> QED BY <1>1, <1>2, Zenon DEF Bits

\* The requests to stop.
LEMMA RequestsStep ==
  ASSUME Requests, Next
  PROVE  Requests'
<1>1. CASE TakeSigint \/ Drain
  <2>1. ctx' = [cancelled |-> ctx.cancelled \/ ctx.sigint, sigint |-> FALSE]
    BY <1>1, Zenon DEF TakeSigint, Drain
  <2> QED BY <2>1, Zenon DEF Requests
<1>2. CASE WaitCancelled BY <1>2, Zenon DEF WaitCancelled, Requests
<1>3. CASE react_cancel \/ react_sigint BY <1>3, Zenon DEF react_cancel, react_sigint, Requests
<1> QED BY <1>1, <1>2, <1>3, RequestFrame, Zenon DEF Requests

\* The structs.
LEMMA StructsStep ==
  ASSUME Indices, Bits, Requests, Structs, Next
  PROVE  Structs'
<1> DEFINE Kept(C) == [c \in Calls |->
  IF c \in C THEN [flags[c] EXCEPT !.cancelled = TRUE, !.detached = TRUE] ELSE flags[c]]
<1>1. ASSUME NEW C PROVE Kept(C) \in [Calls -> Struct]
  <2>1. ASSUME NEW c \in Calls
        PROVE  [flags[c] EXCEPT !.cancelled = TRUE, !.detached = TRUE] \in Struct
    BY Zenon DEF Structs, Struct
  <2> QED BY <2>1, Zenon DEF Structs
<1>2. CASE WaitTimedOut BY <1>2, <1>1, Zenon DEF WaitTimedOut, Detach, Structs
<1>3. CASE WaitCancelled BY <1>3, <1>1, Zenon DEF WaitCancelled, Detach, Structs
<1>4. CASE GiveUp BY <1>4, <1>1, Zenon DEF GiveUp, Detach, Structs
<1>5. CASE CleanupDetach BY <1>5, <1>1, Zenon DEF CleanupDetach, Detach, Structs
<1>6. CASE Release
  <2>1. i \in Calls BY <1>6, InLoop, Zenon DEF Release, At
  <2>2. [flags[i] EXCEPT !.released = started[i]] \in Struct BY <2>1, Zenon DEF Structs, Struct, Bits
  <2> QED BY <1>6, <2>1, <2>2, Zenon DEF Release, Structs
<1>7. CASE JoinCall
  <2>1. i \in Calls BY <1>7, InLoop, Zenon DEF JoinCall, At
  <2>2. [flags[i] EXCEPT !.cancelled = flags[i].cancelled \/ ctx.cancelled] \in Struct BY <2>1, Zenon
       DEF Structs, Struct
  <2> QED BY <1>7, <2>1, <2>2, Zenon DEF JoinCall, Structs
<1>8. ASSUME NEW w \in Calls, WorkerDisabled(w) PROVE Structs'
  <2>1. [flags[w] EXCEPT !.completed = TRUE, !.rc = "error"] \in Struct BY Zenon DEF Structs, Struct,
       Returned
  <2> QED BY <1>8, <2>1, Zenon DEF WorkerDisabled, Structs
<1>9. ASSUME NEW w \in Calls, WorkerCompletes(w) PROVE Structs'
  <2>1. PICK r \in {"ok", "error"} :
          flags' = [flags EXCEPT ![w].completed = TRUE,
                                 ![w].rc = IF flags[w].cancelled THEN @ ELSE r]
    BY <1>9, Zenon DEF WorkerCompletes, tool_exec
  <2>2. [flags[w] EXCEPT !.completed = TRUE,
                         !.rc = IF flags[w].cancelled THEN flags[w].rc ELSE r] \in Struct
    BY Zenon DEF Structs, Struct, Returned
  <2> QED BY <2>1, <2>2, Zenon DEF Structs
<1> QED BY <1>2, <1>3, <1>4, <1>5, <1>6, <1>7, <1>8, <1>9, FlagsFrame, Zenon DEF Structs

-----------------------------------------------------------------------------
(* What a step does to one call. *)

\* A worker touches its own call.
LEMMA WorkerEffect ==
  ASSUME Marks, Structs, NEW w \in Calls, Worker(w)
  PROVE  /\ UNCHANGED <<mpc, i, slot, started, denied, over, recorded, ctx>>
         /\ wpc[w] \notin {"none", "exited"} /\ wpc'[w] # "none"
         /\ \A c \in Calls : c # w => /\ wpc'[c] = wpc[c] /\ tool'[c] = tool[c]
                                      /\ mem'[c] = mem[c] /\ flags'[c] = flags[c]
<1> USE DEF Marks, WorkerStep, main, slots
<1>1. CASE WorkerReleased(w) BY <1>1, Zenon DEF WorkerReleased
<1>2. CASE WorkerDisabled(w)
  <2>1. \A c \in Calls : c # w => wpc'[c] = wpc[c] /\ tool'[c] = tool[c] /\ flags'[c] = flags[c]
    BY <1>2, Zenon DEF WorkerDisabled, Structs
  <2>2. wpc[w] = "exec" /\ wpc'[w] \in {"check", "emit"} BY <1>2, Zenon DEF WorkerDisabled
  <2> QED BY <1>2, <2>1, <2>2, Zenon DEF WorkerDisabled
<1>3. CASE WorkerCompletes(w)
  <2>1. \A c \in Calls : c # w => wpc'[c] = wpc[c] /\ tool'[c] = tool[c] /\ flags'[c] = flags[c]
    BY <1>3, Zenon DEF WorkerCompletes, tool_exec, Structs
  <2>2. wpc[w] = "exec" /\ wpc'[w] \in {"check", "emit"} BY <1>3, Zenon DEF WorkerCompletes, tool_exec
  <2> QED BY <1>3, <2>1, <2>2, Zenon DEF WorkerCompletes, tool_exec
<1>4. CASE WorkerEmits(w) BY <1>4, Zenon DEF WorkerEmits
<1>5. CASE WorkerChecks(w) BY <1>5, Zenon DEF WorkerChecks
<1>6. CASE WorkerFrees(w) BY <1>6, Zenon DEF WorkerFrees, Free
<1> QED BY <1>1, <1>2, <1>3, <1>4, <1>5, <1>6, Zenon DEF Worker, WorkerProceeds

\* Detaching a call leaves what its worker has found.
LEMMA DetachEffect ==
  ASSUME Structs, NEW C, Detach(C), NEW c \in Calls
  PROVE  /\ flags'[c].completed = flags[c].completed
         /\ flags'[c].rc = flags[c].rc
         /\ c \in C => flags'[c].cancelled = TRUE /\ flags'[c].detached = TRUE
         /\ c \notin C => flags'[c] = flags[c]
<1>1. flags[c] \in Struct BY Zenon DEF Structs
<1>2. CASE c \in C
  <2>1. flags'[c] = [flags[c] EXCEPT !.cancelled = TRUE, !.detached = TRUE]
    BY <1>2, Zenon DEF Detach
  <2> QED BY <2>1, <1>1, <1>2, Zenon DEF Struct
<1>3. CASE c \notin C
  <2>1. flags'[c] = flags[c] BY <1>3, Zenon DEF Detach
  <2> QED BY <2>1, <1>3, Zenon
<1> QED BY <1>2, <1>3, Zenon

\* The release of the workers and the cancel flag that a call is given before the
\* wait leave the rest of its struct.
LEMMA HandedEffect ==
  ASSUME Structs, Release \/ JoinCall, NEW c \in Calls
  PROVE  /\ flags'[c].completed = flags[c].completed /\ flags'[c].rc = flags[c].rc
         /\ flags'[c].detached = flags[c].detached
         /\ flags[c].cancelled = TRUE => flags'[c].cancelled = TRUE
         /\ ctx.cancelled = FALSE => flags'[c].cancelled = flags[c].cancelled
<1>0. flags[c] \in Struct BY Zenon DEF Structs
<1>1. CASE Release
  <2>1. flags'[c] = IF c = i THEN [flags[c] EXCEPT !.released = started[c]] ELSE flags[c]
    BY <1>1, Zenon DEF Release, Structs
  <2> QED BY <2>1, <1>0, Zenon DEF Struct
<1>2. CASE JoinCall
  <2>1. flags'[c] = IF c = i
                    THEN [flags[c] EXCEPT !.cancelled = flags[c].cancelled \/ ctx.cancelled]
                    ELSE flags[c]
    BY <1>2, Zenon DEF JoinCall, Structs
  <2> QED BY <2>1, <1>0, Zenon DEF Struct
<1> QED BY <1>1, <1>2, Zenon

\* The completion of a call is its worker's doing; a cancelled call stays one.
LEMMA FlagsEffect ==
  ASSUME Indices, Structs, Next, NEW c \in Calls
  PROVE  \/ /\ flags'[c].completed = flags[c].completed /\ flags'[c].rc = flags[c].rc
            /\ flags[c].cancelled = TRUE => flags'[c].cancelled = TRUE
         \/ WorkerDisabled(c)
         \/ WorkerCompletes(c)
<1>0. flags[c] \in Struct BY Zenon DEF Structs
<1>1. CASE WaitTimedOut BY <1>1, DetachEffect, Zenon DEF WaitTimedOut
<1>2. CASE WaitCancelled BY <1>2, DetachEffect, Zenon DEF WaitCancelled
<1>3. CASE GiveUp BY <1>3, DetachEffect, Zenon DEF GiveUp
<1>4. CASE CleanupDetach BY <1>4, DetachEffect, Zenon DEF CleanupDetach
<1>5. CASE Release \/ JoinCall BY <1>5, HandedEffect, Zenon
<1>7. ASSUME NEW w \in Calls, w # c, WorkerDisabled(w) \/ WorkerCompletes(w)
      PROVE  flags'[c] = flags[c]
  BY <1>7, Zenon DEF WorkerDisabled, WorkerCompletes, tool_exec, Structs
<1> QED BY <1>1, <1>2, <1>3, <1>4, <1>5, <1>7, FlagsFrame, Zenon

\* A call is moved by the start of its worker and by its worker.
LEMMA CallEffect ==
  ASSUME Marks, Structs, Next, NEW c \in Calls
  PROVE  \/ wpc'[c] = wpc[c] /\ tool'[c] = tool[c]
         \/ StartCall /\ c = i /\ wpc'[c] = "waiting" /\ tool'[c] = tool[c]
         \/ Worker(c)
<1>1. CASE StartCall BY <1>1, Zenon DEF StartCall, Marks
<1>2. CASE \E w \in Calls : Worker(w) BY <1>2, WorkerEffect, Zenon
<1> QED BY <1>1, <1>2, CallFrame, Zenon

\* A call whose tool returned: what was found is in the struct, unless the call
\* had been cancelled.
LEMMA CompletesEffect ==
  ASSUME Marks, Structs, NEW c \in Calls, WorkerCompletes(c)
  PROVE  /\ wpc[c] = "exec"
         /\ flags'[c].completed = TRUE
         /\ flags'[c].cancelled = flags[c].cancelled /\ flags'[c].detached = flags[c].detached
         /\ flags[c].cancelled = TRUE => wpc'[c] = "check"
         /\ flags[c].cancelled = FALSE => /\ wpc'[c] = "emit" 
                                   /\ flags'[c].rc = tool'[c] /\ tool'[c] # "none"
<1>0. flags[c] \in Struct BY Zenon DEF Structs
<1>1. PICK r \in {"ok", "error"} :
        /\ WorkerStep(c, "exec", IF flags[c].cancelled THEN "check" ELSE "emit")
        /\ flags' = [flags EXCEPT ![c].completed = TRUE,
                                  ![c].rc = IF flags[c].cancelled THEN @ ELSE r]
        /\ tool' = [tool EXCEPT ![c] = r]
  BY Zenon DEF WorkerCompletes, tool_exec
<1>2. flags'[c] = [flags[c] EXCEPT !.completed = TRUE,
                                   !.rc = IF flags[c].cancelled THEN flags[c].rc ELSE r]
  BY <1>1, Zenon DEF Structs
<1>3. tool'[c] = r BY <1>1, Zenon DEF Marks
<1>4. wpc[c] = "exec" /\ wpc'[c] = IF flags[c].cancelled THEN "check" ELSE "emit"
  BY <1>1, Zenon DEF Marks, WorkerStep
<1> QED BY <1>0, <1>2, <1>3, <1>4, Zenon DEF Struct

\* A call of a disabled tool is an error at once.
LEMMA DisabledEffect ==
  ASSUME Marks, Structs, NEW c \in Calls, WorkerDisabled(c)
  PROVE  /\ "disabled" \in events /\ wpc[c] = "exec" /\ wpc'[c] = "emit"
         /\ flags'[c].completed = TRUE /\ flags'[c].detached = flags[c].detached
         /\ flags'[c].cancelled = flags[c].cancelled
         /\ flags'[c].rc = "error" /\ tool'[c] = "error"
<1>0. flags[c] \in Struct BY Zenon DEF Structs
<1>1. flags'[c] = [flags[c] EXCEPT !.completed = TRUE, !.rc = "error"]
  BY Zenon DEF WorkerDisabled, Structs
<1>2. tool'[c] = "error" BY Zenon DEF WorkerDisabled, Marks
<1>3. wpc[c] = "exec" /\ wpc'[c] = "emit" BY Zenon DEF WorkerDisabled, Marks, WorkerStep
<1>4. "disabled" \in events BY Zenon DEF WorkerDisabled
<1> QED BY <1>0, <1>1, <1>2, <1>3, <1>4, Zenon DEF Struct

-----------------------------------------------------------------------------
(* The inductive invariant. *)

\* A worker completes once.
LEMMA CompletionStep ==
  ASSUME Indices, Marks, Structs, SlotsAgree, Completion, Next
  PROVE  Completion'
<1> SUFFICES ASSUME NEW c \in Calls
             PROVE  /\ flags'[c].completed = TRUE <=> wpc'[c] \in Completed
                    /\ flags'[c].completed = TRUE /\ flags'[c].cancelled = FALSE =>
                         flags'[c].rc = tool'[c] /\ tool'[c] # "none"
  BY Zenon DEF Completion, Completed
<1> USE DEF Completed
<1>0. /\ flags[c].completed = TRUE <=> wpc[c] \in Completed
      /\ flags[c].completed = TRUE /\ flags[c].cancelled = FALSE =>
           flags[c].rc = tool[c] /\ tool[c] # "none"
  BY Zenon DEF Completion
<1>1. CASE WorkerDisabled(c) BY <1>1, DisabledEffect, Zenon
<1>2. CASE WorkerCompletes(c) BY <1>2, CompletesEffect, Zenon DEF Structs, Struct
<1>3. CASE /\ flags'[c].completed = flags[c].completed /\ flags'[c].rc = flags[c].rc
           /\ flags[c].cancelled = TRUE => flags'[c].cancelled = TRUE
  <2>1. CASE StartCall /\ c = i /\ wpc'[c] = "waiting" /\ tool'[c] = tool[c]
    <3>1. wpc[c] = "none" BY <2>1, Index, Zenon DEF StartCall, At, SlotsAgree
    <3> QED BY <3>1, <2>1, <1>0, <1>3, Zenon
  <2>2. CASE WorkerProceeds(c)
    <3>1. \/ wpc[c] = "waiting" /\ wpc'[c] = "exec"
          \/ wpc[c] = "emit" /\ wpc'[c] = "check"
          \/ wpc[c] = "check" /\ wpc'[c] \in {"free", "exited"}
          \/ wpc[c] = "free" /\ wpc'[c] = "exited"
      BY <2>2, Zenon DEF WorkerProceeds, WorkerReleased, WorkerEmits, WorkerChecks, WorkerFrees,
           WorkerStep, Marks
    <3>2. tool' = tool
      BY <2>2, Zenon DEF WorkerProceeds, WorkerReleased, WorkerEmits, WorkerChecks, WorkerFrees
    <3> QED BY <3>1, <3>2, <1>0, <1>3
  <2>3. CASE wpc'[c] = wpc[c] /\ tool'[c] = tool[c] BY <2>3, <1>0, <1>3
  <2> QED BY <2>1, <2>2, <2>3, <1>1, <1>2, CallEffect, Zenon DEF Worker
<1> QED BY <1>1, <1>2, <1>3, FlagsEffect, Zenon

\* A result is recorded as late of a call that has not completed and is cancelled
\* by the same step.
LEMMA RecordEffect ==
  ASSUME Indices, Marks, Structs, Next, NEW c \in Calls
  PROVE  \/ recorded'[c] = recorded[c]
         \/ recorded'[c] \notin {"timeout", "cancelled"}
         \/ /\ flags[c].completed # TRUE /\ flags'[c].cancelled = TRUE /\ wpc' = wpc
<1> USE DEF Marks, Record, HistoryFails
<1>1. CASE react_check_hitl_approvals \/ StartFails \/ JoinThread \/ Drain
  BY <1>1, Zenon DEF react_check_hitl_approvals, hitl_denied, StartFails, JoinThread, Drain
<1>2. CASE JoinDenied BY <1>2, Zenon DEF JoinDenied
<1>3. CASE WaitTimedOut
  <2>1. CASE c = i BY <1>3, <2>1, DetachEffect, Zenon DEF WaitTimedOut, Deadline
  <2>2. CASE c # i BY <1>3, <2>2, Zenon DEF WaitTimedOut
  <2> QED BY <2>1, <2>2, Zenon
<1>4. CASE WaitCancelled
  <2>1. CASE c = i BY <1>4, <2>1, DetachEffect, Zenon DEF WaitCancelled
  <2>2. CASE c # i BY <1>4, <2>2, Zenon DEF WaitCancelled
  <2> QED BY <2>1, <2>2, Zenon
<1>5. CASE Collect
  <2>1. Collected(i) \notin {"timeout", "cancelled"} BY Zenon DEF Collected
  <2> QED BY <1>5, <2>1, Zenon DEF Collect
<1>6. CASE GiveUp BY <1>6, Zenon DEF GiveUp
<1> QED BY <1>1, <1>2, <1>3, <1>4, <1>5, <1>6, RecordFrame, Zenon

\* A late answer finds its call cancelled.
LEMMA LateStep ==
  ASSUME Indices, Marks, Structs, Completion, Late, Next
  PROVE  Late'
<1> SUFFICES ASSUME "disabled" \notin events, NEW c \in Calls, recorded'[c] \in {"timeout",
                    "cancelled"}
             PROVE  flags'[c].cancelled = TRUE /\ wpc'[c] # "emit"
  BY Zenon DEF Late, Next
<1>1. CASE recorded'[c] = recorded[c]
  <2>0. flags[c].cancelled = TRUE /\ wpc[c] # "emit" BY <1>1, Zenon DEF Late
  <2>1. ~WorkerDisabled(c) BY Zenon DEF WorkerDisabled
  <2>2. flags'[c].cancelled = TRUE BY <2>0, <2>1, FlagsEffect, CompletesEffect, Zenon
  <2>3. wpc'[c] # "emit"
    <3>1. CASE WorkerCompletes(c) BY <3>1, <2>0, CompletesEffect, Zenon
    <3>2. CASE WorkerProceeds(c)
      BY <3>2, Zenon DEF WorkerProceeds, WorkerReleased, WorkerEmits, WorkerChecks, WorkerFrees,
           WorkerStep, Marks
    <3> QED BY <3>1, <3>2, <2>0, <2>1, CallEffect, Zenon DEF Worker
  <2> QED BY <2>2, <2>3, Zenon
<1>2. CASE flags[c].completed # TRUE /\ flags'[c].cancelled = TRUE /\ wpc' = wpc
  BY <1>2, Zenon DEF Completion, Completed
<1> QED BY <1>1, <1>2, RecordEffect, Zenon

\* A slot stands for a worker.
LEMMA SlotsStep ==
  ASSUME Indices, Marks, Bits, Structs, SlotsAgree, Next
  PROVE  SlotsAgree'
<1> USE Index, InLoop DEF SlotsAgree, Starting, Joining, Marks, Bits, At, AfterLoop, GoTo,
     slots, threads
<1>1. CASE react_check_hitl_approvals BY <1>1, Zenon DEF react_check_hitl_approvals, hitl_denied
<1>2. CASE StartDenied BY <1>2, Zenon DEF StartDenied
<1>3. CASE StartCall BY <1>3, Zenon DEF StartCall
<1>4. CASE StartFails BY <1>4, Zenon DEF StartFails
<1>5. CASE StartsDone BY <1>5, Zenon DEF StartsDone
<1>6. CASE Release BY <1>6, Zenon DEF Release
<1>7. CASE TakeSigint BY <1>7, Zenon DEF TakeSigint
<1>8. CASE JoinDenied BY <1>8, Zenon DEF JoinDenied, HistoryFails
<1>9. CASE JoinNothing BY <1>9, Zenon DEF JoinNothing
<1>10. CASE JoinCall BY <1>10, Zenon DEF JoinCall
<1>11. CASE WaitCompleted BY <1>11, Zenon DEF WaitCompleted
<1>12. CASE WaitTimedOut BY <1>12, ZenonT(60) DEF WaitTimedOut, Deadline, DropSlot, HistoryFails
<1>13. CASE WaitCancelled BY <1>13, Zenon DEF WaitCancelled, DropSlot
<1>14. CASE JoinThread BY <1>14, Zenon DEF JoinThread
<1>15. CASE Collect BY <1>15, Zenon DEF Collect, HistoryFails
<1>16. CASE GiveUp BY <1>16, Zenon DEF GiveUp
<1>17. CASE JoinsDone BY <1>17, Zenon DEF JoinsDone
<1>18. CASE CleanupNothing BY <1>18, Zenon DEF CleanupNothing
<1>19. CASE CleanupSeesRunning BY <1>19, Zenon DEF CleanupSeesRunning
<1>20. CASE CleanupDetach BY <1>20, Zenon DEF CleanupDetach, DropSlot
<1>21. CASE CleanupDestroy BY <1>21, Zenon DEF CleanupDestroy, DropSlot
<1>22. CASE Drain BY <1>22, Zenon DEF Drain
<1>23. CASE react_cancel \/ react_sigint BY <1>23, ZenonT(60) DEF react_cancel, react_sigint, main,
     slots, threads
<1>24. ASSUME NEW w \in Calls, Worker(w) PROVE SlotsAgree'
  <2>1. \A c \in Calls : wpc'[c] # "none" <=> wpc[c] # "none" BY <1>24, WorkerEffect, Zenon
  <2>2. UNCHANGED <<mpc, i, slot, started, denied, over, recorded>> BY <1>24, WorkerEffect, Zenon
  <2> QED BY <2>1, <2>2, Zenon
<1> QED BY <1>1, <1>2, <1>3, <1>4, <1>5, <1>6, <1>7, <1>8, <1>9, <1>10, <1>11, <1>12, <1>13,
     <1>14, <1>15, <1>16, <1>17, <1>18, <1>19, <1>20, <1>21, <1>22, <1>23, <1>24, Zenon DEF
     Next, Main

\* The calls that the joining thread has passed have their results.
LEMMA PassedStep ==
  ASSUME Indices, Marks, Bits, Structs, SlotsAgree, Passed, Next
  PROVE  Passed'
<1> USE Index, InLoop DEF SlotsAgree, Passed, Answered, Joining, Leaving, Marks, Bits, At,
     AfterLoop, GoTo, slots, threads
<1>1. CASE react_check_hitl_approvals BY <1>1, Zenon DEF react_check_hitl_approvals, hitl_denied
<1>2. CASE StartDenied BY <1>2, Zenon DEF StartDenied
<1>3. CASE StartCall BY <1>3, Zenon DEF StartCall
<1>4. CASE StartFails BY <1>4, Zenon DEF StartFails
<1>5. CASE StartsDone BY <1>5, Zenon DEF StartsDone
<1>6. CASE Release BY <1>6, Zenon DEF Release
<1>7. CASE TakeSigint BY <1>7, Zenon DEF TakeSigint
<1>8. CASE JoinDenied BY <1>8, ZenonT(60) DEF JoinDenied, Record, HistoryFails
<1>9. CASE JoinNothing BY <1>9, Zenon DEF JoinNothing
<1>10. CASE JoinCall BY <1>10, Zenon DEF JoinCall
<1>11. CASE WaitCompleted BY <1>11, Zenon DEF WaitCompleted
<1>12. CASE WaitTimedOut BY <1>12, ZenonT(60) DEF WaitTimedOut, Deadline, Record, DropSlot,
     HistoryFails
<1>13. CASE WaitCancelled BY <1>13, Zenon DEF WaitCancelled, Record, DropSlot
<1>14. CASE JoinThread BY <1>14, Zenon DEF JoinThread
<1>15. CASE Collect
  <2>1. Collected(i) # "none" BY Zenon DEF Collected
  <2>2. CASE Record(i, Collected(i)) /\ GoTo("join", i + 1) /\ UNCHANGED over
    BY <1>15, <2>1, <2>2, Zenon DEF Collect, Record
  <2>3. CASE HistoryFails(i, Collected(i)) BY <2>3, Zenon DEF HistoryFails
  <2> QED BY <1>15, <2>2, <2>3, Zenon DEF Collect
<1>16. CASE GiveUp BY <1>16, Zenon DEF GiveUp, Record
<1>17. CASE JoinsDone BY <1>17, Zenon DEF JoinsDone
<1>18. CASE CleanupNothing BY <1>18, Zenon DEF CleanupNothing
<1>19. CASE CleanupSeesRunning BY <1>19, Zenon DEF CleanupSeesRunning
<1>20. CASE CleanupDetach BY <1>20, Zenon DEF CleanupDetach, DropSlot
<1>21. CASE CleanupDestroy BY <1>21, Zenon DEF CleanupDestroy, DropSlot
<1>22. CASE Drain BY <1>22, Zenon DEF Drain
<1>23. CASE react_cancel \/ react_sigint BY <1>23, Zenon DEF react_cancel, react_sigint, main,
     slots, threads
<1>24. ASSUME NEW w \in Calls, Worker(w) PROVE Passed'
  <2>1. \A c \in Calls : wpc'[c] # "none" <=> wpc[c] # "none" BY <1>24, WorkerEffect, Zenon
  <2>2. UNCHANGED <<mpc, i, slot, started, denied, over, recorded>> BY <1>24, WorkerEffect, Zenon
  <2> QED BY <2>1, <2>2, Zenon
<1> QED BY <1>1, <1>2, <1>3, <1>4, <1>5, <1>6, <1>7, <1>8, <1>9, <1>10, <1>11, <1>12, <1>13,
     <1>14, <1>15, <1>16, <1>17, <1>18, <1>19, <1>20, <1>21, <1>22, <1>23, <1>24, Zenon DEF
     Next, Main

-----------------------------------------------------------------------------
(* A batch that nobody disturbs. *)

\* What cannot happen then.  The cleanup, which looks at completed without the
\* mutex, finds only calls that have completed.
LEMMA Undisturbedly ==
  ASSUME Undisturbed, SlotsAgree, Completion, Calm, Swept, Indices
  PROVE  /\ ~WaitCancelled /\ ~GiveUp /\ ~react_cancel /\ ~react_sigint
         /\ ~CleanupSeesRunning /\ ~CleanupDetach
         /\ \A c, r : ~HistoryFails(c, r)
<1>1. /\ "cancel" \notin events /\ "sigint" \notin events
      /\ "give_up" \notin events /\ "no_history" \notin events
  BY Zenon DEF Undisturbed
<1>2. ~WaitCancelled BY Zenon DEF WaitCancelled, Interrupted, Calm
<1>3. ~CleanupDetach BY Zenon DEF CleanupDetach, At, Swept
<1>4. ~CleanupSeesRunning
  <2> SUFFICES ASSUME CleanupSeesRunning PROVE FALSE BY Zenon
  <2>1. i \in Calls /\ slot[i] /\ mpc = "cleanup" BY InLoop, Zenon DEF CleanupSeesRunning, At
  <2>2. wpc[i] = "exited" BY <2>1, Zenon DEF Swept
  <2>3. flags[i].completed = TRUE BY <2>1, <2>2, Zenon DEF Completion, Completed
  <2> QED BY <2>3, Zenon DEF CleanupSeesRunning
<1> QED BY <1>1, <1>2, <1>3, <1>4, Zenon DEF GiveUp, react_cancel, react_sigint, HistoryFails

\* No request to stop comes up, and a call is cancelled when it is detached.
LEMMA CalmStep ==
  ASSUME Undisturbed, Indices, Marks, Bits, Structs, Requests, SlotsAgree, Completion, Calm,
         Swept, Next
  PROVE  Calm'
<1>1. ctx'.cancelled = FALSE /\ ctx'.sigint = FALSE
  <2>1. CASE TakeSigint \/ Drain
    <3>1. ctx' = [cancelled |-> ctx.cancelled \/ ctx.sigint, sigint |-> FALSE]
      BY <2>1, Zenon DEF TakeSigint, Drain
    <3> QED BY <3>1, Zenon DEF Calm
  <2> QED BY <2>1, RequestFrame, Undisturbedly, Zenon DEF Calm
<1>2. ASSUME NEW c \in Calls PROVE flags'[c].cancelled = flags'[c].detached
  <2>0. flags[c] \in Struct /\ flags[c].cancelled = flags[c].detached BY Zenon DEF Structs, Calm
  <2>1. CASE WaitTimedOut BY <2>0, <2>1, DetachEffect, ZenonT(60) DEF WaitTimedOut
  <2>2. CASE Release \/ JoinCall BY <2>0, <2>2, HandedEffect, Zenon DEF Calm
  <2>4. ASSUME NEW w \in Calls, WorkerDisabled(w) \/ WorkerCompletes(w)
        PROVE  flags'[c].cancelled = flags'[c].detached
    <3>1. CASE c = w BY <2>4, <3>1, <2>0, DisabledEffect, CompletesEffect, Zenon
    <3>2. CASE c # w BY <2>4, <3>2, <2>0, WorkerEffect, Zenon DEF Worker
    <3> QED BY <3>1, <3>2, Zenon
  <2> QED BY <2>0, <2>1, <2>2, <2>4, FlagsFrame, Undisturbedly, Zenon
<1> QED BY <1>1, <1>2, Zenon DEF Calm

\* What the joining thread has passed has exited.
LEMMA SweptStep ==
  ASSUME Undisturbed, Indices, Marks, Bits, Structs, SlotsAgree, Completion, Calm, Swept, Next
  PROVE  Swept'
<1> USE Index, InLoop, Undisturbedly DEF SlotsAgree, Swept, Joining, Marks, Bits, At, AfterLoop,
     GoTo, slots, threads
<1>1. CASE react_check_hitl_approvals BY <1>1, Zenon DEF react_check_hitl_approvals, hitl_denied
<1>2. CASE StartDenied BY <1>2, Zenon DEF StartDenied
<1>3. CASE StartCall BY <1>3, Zenon DEF StartCall
<1>4. CASE StartFails BY <1>4, Zenon DEF StartFails
<1>5. CASE StartsDone BY <1>5, Zenon DEF StartsDone
<1>6. CASE Release BY <1>6, Zenon DEF Release
<1>7. CASE TakeSigint BY <1>7, Zenon DEF TakeSigint
<1>8. CASE JoinDenied BY <1>8, Zenon DEF JoinDenied
<1>9. CASE JoinNothing BY <1>9, Zenon DEF JoinNothing
<1>10. CASE JoinCall BY <1>10, Zenon DEF JoinCall
<1>11. CASE WaitCompleted BY <1>11, Zenon DEF WaitCompleted
<1>12. CASE WaitTimedOut BY <1>12, Zenon DEF WaitTimedOut, Deadline, DropSlot
<1>13. CASE WaitCancelled BY <1>13, Zenon DEF WaitCancelled, DropSlot
<1>14. CASE JoinThread BY <1>14, Zenon DEF JoinThread
<1>15. CASE Collect BY <1>15, Zenon DEF Collect
<1>16. CASE GiveUp BY <1>16, Zenon DEF GiveUp
<1>17. CASE JoinsDone BY <1>17, Zenon DEF JoinsDone
<1>18. CASE CleanupNothing BY <1>18, Zenon DEF CleanupNothing
<1>19. CASE CleanupSeesRunning BY <1>19, Zenon DEF CleanupSeesRunning
<1>20. CASE CleanupDetach BY <1>20, Zenon DEF CleanupDetach, DropSlot
<1>21. CASE CleanupDestroy BY <1>21, Zenon DEF CleanupDestroy, DropSlot
<1>22. CASE Drain BY <1>22, Zenon DEF Drain
<1>23. CASE react_cancel \/ react_sigint BY <1>23, Zenon DEF react_cancel, react_sigint, main,
     slots, threads
<1>24. ASSUME NEW w \in Calls, Worker(w) PROVE Swept'
  <2>1. \A c \in Calls : wpc[c] = "exited" => wpc'[c] = "exited" BY <1>24, WorkerEffect, Zenon
  <2>2. UNCHANGED <<mpc, i, slot>> BY <1>24, WorkerEffect, Zenon
  <2> QED BY <2>1, <2>2, Zenon
<1> QED BY <1>1, <1>2, <1>3, <1>4, <1>5, <1>6, <1>7, <1>8, <1>9, <1>10, <1>11, <1>12, <1>13,
     <1>14, <1>15, <1>16, <1>17, <1>18, <1>19, <1>20, <1>21, <1>22, <1>23, <1>24, Zenon DEF
     Next, Main

\* A struct passes from the joining thread to the worker when the call is detached,
\* and is freed by the one that owns it.
LEMMA OwnedStep ==
  ASSUME Undisturbed, Indices, Marks, Bits, Structs, SlotsAgree, Completion, Calm, Swept,
         Owned, Next
  PROVE  Owned'
<1> SUFFICES ASSUME NEW c \in Calls PROVE OwnedCall(c)' BY Zenon DEF Owned
<1>0. OwnedCall(c) /\ (slot[c] => wpc[c] # "none") BY Zenon DEF Owned, SlotsAgree
<1> USE DEF OwnedCall, Running
<1>1. CASE StartCall
  <2>1. i \in Calls /\ wpc[i] = "none" BY <1>1, InLoop, Index, Zenon DEF StartCall, At, SlotsAgree
  <2>2. flags[i].detached = FALSE BY <2>1, Zenon DEF Owned
  <2>3. CASE c = i
    <3>1. slot'[c] /\ mem'[c] = "live" /\ wpc'[c] = "waiting" BY <1>1, <2>3, Zenon DEF
         StartCall, Bits, Marks
    <3> QED BY <3>1, <2>2, <2>3, <1>1, Zenon DEF StartCall
  <2>4. CASE c # i BY <1>1, <2>4, <1>0, Zenon DEF StartCall, Bits, Marks
  <2> QED BY <2>3, <2>4, Zenon
<1>2. CASE StartFails
  <2>1. wpc[i] = "none" BY <1>2, InLoop, Index, Zenon DEF StartFails, At, SlotsAgree
  <2>2. UNCHANGED <<slot, wpc, flags>> BY <1>2, Zenon DEF StartFails, slots
  <2>3. mem'[c] = mem[c] \/ (mem'[c] = "freed" /\ c = i)
    BY <1>2, Zenon DEF StartFails, Free, Marks
  <2> QED BY <2>1, <2>2, <2>3, <1>0, Zenon
<1>3. CASE Release \/ JoinCall
  <2>1. UNCHANGED <<slot, wpc, mem>> BY <1>3, Zenon DEF Release, JoinCall, slots
  <2>2. flags'[c].detached = flags[c].detached BY <1>3, HandedEffect, Zenon
  <2> QED BY <2>1, <2>2, <1>0, Zenon
<1>4. CASE WaitTimedOut
  <2>1. i \in Calls /\ flags[i].completed # TRUE /\ slot[i] BY <1>4, Zenon DEF WaitTimedOut,
       Deadline, At, SlotsAgree
  <2>2. wpc[i] \in {"waiting", "exec"} BY <2>1, Zenon DEF Completion, Completed, SlotsAgree, Marks,
       WorkerSteps
  <2>3. UNCHANGED <<wpc, mem>> /\ Detach({i}) /\ DropSlot(i) BY <1>4, Undisturbedly, Zenon DEF
       WaitTimedOut
  <2>4. CASE c = i
    <3>1. flags'[c].detached = TRUE /\ ~slot'[c] BY <2>3, <2>4, DetachEffect, Zenon DEF
         DropSlot, Bits
    <3> QED BY <3>1, <2>2, <2>3, <2>4, <1>0, Zenon
  <2>5. CASE c # i
    <3>0. c \notin {i} BY <2>5, Zenon
    <3>1. flags'[c] = flags[c] /\ slot'[c] = slot[c] BY <3>0, <2>3, <2>5, DetachEffect, Zenon
         DEF DropSlot, Bits
    <3> QED BY <3>1, <2>3, <1>0, Zenon
  <2> QED BY <2>4, <2>5, Zenon
<1>5. CASE CleanupDestroy
  <2>1. i \in Calls /\ wpc[i] = "exited" BY <1>5, InLoop, Zenon DEF CleanupDestroy, At, Swept
  <2>2. UNCHANGED <<wpc, flags>> /\ Free(i) /\ DropSlot(i) BY <1>5, Zenon DEF CleanupDestroy
  <2>3. CASE c = i
    <3>1. mem'[c] = "freed" /\ ~slot'[c] BY <2>2, <2>3, Zenon DEF Free, DropSlot, Bits, Marks
    <3> QED BY <3>1, <2>1, <2>2, <2>3, Zenon
  <2>4. CASE c # i
    <3>1. mem'[c] = mem[c] /\ slot'[c] = slot[c] BY <2>2, <2>4, Zenon DEF Free, DropSlot, Bits,
         Marks
    <3> QED BY <3>1, <2>2, <1>0, Zenon
  <2> QED BY <2>3, <2>4, Zenon
<1>6. ASSUME NEW w \in Calls, Worker(w) PROVE OwnedCall(c)'
  <2>1. slot' = slot /\ wpc[w] \notin {"none", "exited"} /\ wpc'[w] # "none" BY <1>6,
       WorkerEffect, Zenon
  <2>2. CASE c # w
    <3>1. wpc'[c] = wpc[c] /\ mem'[c] = mem[c] /\ flags'[c] = flags[c] BY <1>6, <2>2,
         WorkerEffect, Zenon
    <3> QED BY <3>1, <2>1, <1>0, Zenon
  <2>3. CASE c = w
    <3>1. CASE WorkerReleased(c) \/ WorkerEmits(c)
      BY <3>1, <1>0, <2>1, Zenon DEF WorkerReleased, WorkerEmits, WorkerStep, Marks
    <3>2. CASE WorkerDisabled(c) \/ WorkerCompletes(c)
      <4>1. /\ flags'[c].detached = flags[c].detached
            /\ wpc[c] = "exec" /\ wpc'[c] \in {"check", "emit"}
        BY <3>2, DisabledEffect, CompletesEffect, Zenon DEF Structs, Struct
      <4>2. mem' = mem BY <3>2, Zenon DEF WorkerDisabled, WorkerCompletes, tool_exec
      <4> QED BY <4>1, <4>2, <2>1, <1>0, Zenon
    <3>3. CASE WorkerChecks(c)
      <4>1. UNCHANGED <<mem, flags>> BY <3>3, Zenon DEF WorkerChecks
      <4>2. wpc[c] = "check" /\ wpc'[c] = IF flags[c].detached THEN "free" ELSE "exited" BY <3>3, Zenon
           DEF WorkerChecks, WorkerStep, Marks
      <4>3. flags[c].detached \in BOOLEAN BY Zenon DEF Structs, Struct
      <4> QED BY <4>1, <4>2, <4>3, <2>1, <1>0, Zenon
    <3>4. CASE WorkerFrees(c)
      <4>1. wpc[c] = "free" /\ wpc'[c] = "exited" /\ mem'[c] = "freed" /\ flags' = flags
        BY <3>4, Zenon DEF WorkerFrees, WorkerStep, Free, Marks
      <4> QED BY <4>1, <2>1, <1>0, Zenon
    <3> QED BY <1>6, <2>3, <3>1, <3>2, <3>3, <3>4, Zenon DEF Worker, WorkerProceeds
  <2> QED BY <2>2, <2>3, Zenon
<1>7. CASE UNCHANGED <<slot, mem, flags, wpc>> BY <1>7, <1>0, Zenon
<1> QED BY <1>1, <1>2, <1>3, <1>4, <1>5, <1>6, <1>7, OwnerFrame, Undisturbedly, Zenon

\* What is recorded of a call that was joined is what its tool returned.
LEMMA FaithfulStep ==
  ASSUME Undisturbed, Indices, Marks, Bits, Structs, SlotsAgree, Completion, Calm, Swept,
         Owned, Faithful, Next
  PROVE  Faithful'
<1> SUFFICES ASSUME NEW c \in Calls, recorded'[c] \in {"ok", "error"}
             PROVE  wpc'[c] = "exited" /\ recorded'[c] = tool'[c]
  BY Zenon DEF Faithful
<1>1. CASE Collect
  <2>1. i \in Calls /\ slot[i] /\ wpc[i] = "exited" BY <1>1, Zenon DEF Collect, At, SlotsAgree,
       Swept
  <2>2. flags[i].completed = TRUE BY <2>1, Zenon DEF Completion, Completed
  <2>3. flags[i].cancelled = FALSE BY <2>1, Zenon DEF Owned, OwnedCall, Calm
  <2>4. flags[i].rc = tool[i] /\ tool[i] # "none" BY <2>1, <2>2, <2>3, Zenon DEF Completion
  <2>5. Collected(i) = tool[i] BY <2>1, <2>4, Zenon DEF Collected, Marks, Returned
  <2>6. recorded' = [recorded EXCEPT ![i] = tool[i]] /\ UNCHANGED <<wpc, tool>>
    BY <1>1, <2>5, Undisturbedly, Zenon DEF Collect, Record, threads
  <2> QED BY <2>1, <2>6, Zenon DEF Marks, Faithful
<1>2. CASE recorded'[c] = recorded[c]
  <2>1. wpc[c] = "exited" /\ recorded[c] = tool[c] BY <1>2, Zenon DEF Faithful
  <2>2. ~Worker(c) BY <2>1, WorkerEffect, Zenon
  <2>3. ~(StartCall /\ c = i) BY <2>1, Index, Zenon DEF StartCall, At, SlotsAgree
  <2> QED BY <1>2, <2>1, <2>2, <2>3, CallEffect, Zenon
<1>3. recorded'[c] = recorded[c] \/ Collect
  <2> USE DEF Marks, Record
  <2>1. CASE JoinDenied BY <2>1, Undisturbedly, Zenon DEF JoinDenied
  <2>2. CASE WaitTimedOut BY <2>2, Undisturbedly, Zenon DEF WaitTimedOut
  <2>3. CASE react_check_hitl_approvals \/ StartFails \/ JoinThread \/ Drain
    BY <2>3, Zenon DEF react_check_hitl_approvals, hitl_denied, StartFails, JoinThread, Drain
  <2> QED BY <2>1, <2>2, <2>3, RecordFrame, Undisturbedly, Zenon
<1> QED BY <1>1, <1>2, <1>3, Zenon

-----------------------------------------------------------------------------
(* The theorems. *)

\* TypeOK, by kinds of value.
LEMMA Kinds == TypeOK <=> events \in Scenarios /\ Indices /\ Marks /\ Bits /\ Requests /\ Structs
BY Zenon DEF TypeOK, Indices, Marks, Bits, Requests, Structs

\* The invariant holds when react_start_tool_calls begins.
LEMMA InitIInv == ASSUME Init PROVE IInv
<1>1. Indices BY BatchAssumption DEF Init, Indices, MainSteps
<1>2. Marks BY Zenon DEF Init, Marks, Returned, Results, WorkerSteps
<1>3. Bits BY Zenon DEF Init, Bits
<1>4. Requests BY Zenon DEF Init, Requests
<1>5. /\ NoFlags \in Struct /\ NoFlags.completed = FALSE
      /\ NoFlags.cancelled = FALSE /\ NoFlags.detached = FALSE
  BY Zenon DEF NoFlags, Struct, Returned
<1>6. Structs BY <1>5, Zenon DEF Init, Structs
<1>7. /\ \A c \in Calls : wpc[c] = "none" /\ recorded[c] = "none" /\ mem[c] = "none" /\ ~slot[c]
      /\ \A c \in Calls : flags[c] = NoFlags
      /\ mpc = "hitl" /\ ctx.cancelled = FALSE /\ ctx.sigint = FALSE
  BY Zenon DEF Init
<1>8. SlotsAgree BY <1>7, Zenon DEF SlotsAgree, Starting, Joining
<1>9. Passed BY <1>7, Zenon DEF Passed, Joining, Leaving
<1>10. Completion BY <1>5, <1>7, Zenon DEF Completion, Completed
<1>11. Late BY <1>7, Zenon DEF Late
<1>12. Calm /\ Swept /\ Faithful BY <1>5, <1>7, Zenon DEF Calm, Swept, Faithful, Joining
<1>13. Owned BY <1>5, <1>7, Zenon DEF Owned, OwnedCall, Running
<1> QED BY <1>1, <1>2, <1>3, <1>4, <1>6, <1>8, <1>9, <1>10, <1>11, <1>12, <1>13, Kinds, Zenon
     DEF IInv, Quiet, Init

\* Every step of the two kinds of thread keeps it.
LEMMA StepIInv == ASSUME IInv, [Next]_vars PROVE IInv'
<1>1. CASE Next
  <2>1. events' = events BY <1>1, Zenon DEF Next
  <2>2. Indices /\ Marks /\ Bits /\ Requests /\ Structs BY Kinds, Zenon DEF IInv
  <2>3. TypeOK'
    <3>1. events' \in Scenarios BY <2>1, Zenon DEF IInv, TypeOK
    <3>2. Indices' /\ Marks' /\ Bits' /\ Requests' /\ Structs'
      BY <1>1, <2>2, IndicesStep, MarksStep, BitsStep, RequestsStep, StructsStep, Zenon
    <3> QED BY <3>1, <3>2, Zenon DEF TypeOK, Indices, Marks, Bits, Requests, Structs
  <2>4. SlotsAgree' /\ Passed' /\ Completion' /\ Late'
    BY <1>1, <2>2, SlotsStep, PassedStep, CompletionStep, LateStep, Zenon DEF IInv
  <2>5. Quiet'
    <3> SUFFICES ASSUME Undisturbed'
                 PROVE  Calm' /\ Owned' /\ Swept' /\ Faithful' BY Zenon DEF Quiet
    <3>1. Undisturbed BY <2>1, Zenon DEF Undisturbed
    <3> QED BY <3>1, <1>1, <2>2, CalmStep, OwnedStep, SweptStep, FaithfulStep, Zenon DEF IInv,
         Quiet
  <2> QED BY <2>3, <2>4, <2>5, Zenon DEF IInv
<1>2. CASE UNCHANGED vars
  <2> USE DEF vars, main, slots, threads
  <2>1. TypeOK' BY <1>2, Zenon DEF IInv, TypeOK
  <2>2. SlotsAgree' BY <1>2, Zenon DEF IInv, SlotsAgree
  <2>3. Passed' BY <1>2, Zenon DEF IInv, Passed, Answered
  <2>4. Completion' BY <1>2, Zenon DEF IInv, Completion
  <2>5. Late' BY <1>2, Zenon DEF IInv, Late
  <2>6. Undisturbed' => Undisturbed BY <1>2, Zenon DEF Undisturbed
  <2>7. Calm => Calm' BY <1>2, Zenon DEF Calm
  <2>8. Owned => Owned' BY <1>2, Zenon DEF Owned, OwnedCall, Running
  <2>9. Swept => Swept' BY <1>2, Zenon DEF Swept
  <2>10. Faithful => Faithful' BY <1>2, Zenon DEF Faithful
  <2> QED BY <2>1, <2>2, <2>3, <2>4, <2>5, <2>6, <2>7, <2>8, <2>9, <2>10, Zenon DEF IInv, Quiet
<1> QED BY <1>1, <1>2, Zenon

\* Of any number of calls, in an undisturbed batch: no thread uses a struct after it
\* was freed, and when the batch is over every struct has been freed, by the joining
\* thread or, of a call that timed out, by its worker.
THEOREM Accounted == Spec => []MemoryAccounted
<1>1. IInv => MemoryAccounted
  <2> SUFFICES ASSUME IInv PROVE MemoryAccounted BY Zenon
  <2>1. ASSUME Undisturbed, NEW c \in Calls
        PROVE  OwnedCall(c) BY <2>1, Zenon DEF IInv, Quiet, Owned
  <2>2. MemorySafe BY <2>1, Zenon DEF MemorySafe, IInv, OwnedCall
  <2>3. ASSUME Undisturbed, Over, NEW c \in Calls PROVE mem[c] # "live"
    <3>1. ~slot[c] BY <2>3, Zenon DEF IInv, Quiet, Swept, Over
    <3>2. ~Running(c) BY <2>3, Zenon DEF Over
    <3> QED BY <2>1, <2>3, <3>1, <3>2, Zenon DEF OwnedCall, Running
  <2> QED BY <2>2, <2>3, Zenon DEF MemoryAccounted, NoLeak
<1> QED BY <1>1, InitIInv, StepIInv, PTL DEF Spec

\* Of any number of calls, whatever happens to the batch: the model is asked again
\* only with a result for every call, and a late answer is silent; and what is
\* recorded in an undisturbed batch is what the tools returned.
THEOREM Right == Spec => []ResultsRight
<1>1. IInv => ResultsRight
  <2> SUFFICES ASSUME IInv PROVE ResultsRight BY Zenon
  <2>1. PairedResults BY Zenon DEF PairedResults, IInv, Passed, Answered, Leaving
  <2>2. RecordsTheAnswer BY Zenon DEF RecordsTheAnswer, IInv, Quiet, Faithful
  <2>3. LateAnswerSilent BY Zenon DEF LateAnswerSilent, IInv, Late
  <2> QED BY <2>1, <2>2, <2>3, Zenon DEF ResultsRight
<1> QED BY <1>1, InitIInv, StepIInv, PTL DEF Spec
================================================================================
