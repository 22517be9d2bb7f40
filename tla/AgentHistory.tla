---------------------------- MODULE AgentHistory ----------------------------
(***************************************************************************)
(* The model history of one session: the rows of model_history_items and   *)
(* of messages as a turn writes them (src/agent/turn.c, src/agent/         *)
(* history.c, src/session.c), with writes that fail, a process that dies   *)
(* between any two of them, the repair that the next load makes, the       *)
(* compactions that replace rows by a summary, and the deactivation of the *)
(* rows of a turn that failed.                                             *)
(*                                                                         *)
(* A row's position in the table is its sequence_no.  Its content is the   *)
(* set of tool call ids it names and, for a summary, the rows it stands    *)
(* for.  Token budgets are abstracted to the choices they can lead to.     *)
(***************************************************************************)
EXTENDS Naturals, Sequences, FiniteSets, SequencesExt

CONSTANTS
  MaxTurns,        \* bound: turns begun
  MaxCalls,        \* bound: tool calls made
  MaxBatch,        \* bound: calls of one response
  MaxCompactions,  \* bound: compactions of one turn
  MaxManual,       \* bound: manual compactions
  Ends,            \* how react_run may end
  Shared           \* another process may load the session too

Calls == 1..MaxCalls

VARIABLES
  rows,      \* model_history_items, in sequence_no order
  messages,  \* the messages table: <<turn, role>>
  turn,      \* turn ids given out
  pc,
  items,     \* ctx->history_items: the rows the next request is built from
  open,      \* calls of the batch that have no recorded result yet
  calls,     \* tool call ids given out
  compacted, \* ctx->in_turn_compaction_count
  manual,    \* manual compactions so far
  outcome,   \* how react_run ended
  kept       \* history: turns that finished with success

table == <<rows, messages>>
memory == <<items, open, compacted, outcome>>
counters == <<turn, calls, manual>>
vars == <<table, pc, memory, counters, kept>>

Row(t, kind, key, ids, status, covers) ==
  [turn |-> t, kind |-> kind, key |-> key, ids |-> ids, status |-> status,
   active |-> TRUE, covers |-> covers]

TypeOK ==
  /\ \A i \in DOMAIN rows :
       /\ rows[i].turn \in 0..turn /\ rows[i].ids \subseteq 1..calls
       /\ rows[i].kind \in {"user", "assistant", "calls", "result", "summary"}
       /\ rows[i].covers \subseteq 1..i /\ rows[i].active \in BOOLEAN
  /\ messages \subseteq (1..turn) \X {"user", "assistant"}
  /\ pc \in {"idle", "loaded", "ready", "saved", "running", "tools", "ended", "persist"}
  /\ items \subseteq DOMAIN rows
  /\ open \subseteq 1..calls /\ (open # {} <=> pc = "tools")
  /\ compacted \in 0..MaxCompactions /\ outcome \in Ends \cup {"none"}
  /\ turn \in 0..MaxTurns /\ calls \in 0..MaxCalls
  /\ manual \in 0..MaxManual
  /\ kept \subseteq 1..turn

Init ==
  /\ rows = <<>> /\ messages = {} /\ turn = 0 /\ pc = "idle"
  /\ items = {} /\ open = {} /\ calls = 0 /\ compacted = 0 /\ manual = 0
  /\ outcome = "none" /\ kept = {}

-----------------------------------------------------------------------------
(* The table. *)

model_history_list(r) == {i \in DOMAIN r : r[i].active}

\* INSERT OR IGNORE, unique on the idempotency key.
model_history_add(r, row) ==
  IF \E i \in DOMAIN r : r[i].key = row.key THEN r ELSE Append(r, row)

Deactivate(r, S) == [i \in DOMAIN r |-> [r[i] EXCEPT !.active = @ /\ i \notin S]]

\* model_history_deactivate_turn and its _except_user form.
deactivate_turn(r, t, kinds) ==
  Deactivate(r, {i \in DOMAIN r : r[i].turn = t /\ r[i].kind \in kinds})

AllKinds == {"user", "assistant", "calls", "result", "summary"}

ResultIds(r, S) == UNION {r[i].ids : i \in {j \in S : r[j].kind = "result"}}
CallIds(r, S) == UNION {r[i].ids : i \in {j \in S : r[j].kind = "calls"}}
CallTurn(r, c) == r[CHOOSE i \in DOMAIN r : r[i].kind = "calls" /\ c \in r[i].ids].turn

\* A result for every active call that has none, in the order of the calls.
agent_history_repair_interrupted(r) ==
  LET active == model_history_list(r)
      dangling == CallIds(r, active) \ ResultIds(r, active)
      Add(acc, c) == model_history_add(acc,
        Row(CallTurn(r, c), "result", <<"result", c>>, {c}, "interrupted", {}))
  IN FoldLeft(Add, r, SelectSeq([c \in Calls |-> c], LAMBDA c : c \in dangling))

\* ... and no active result without its call.
agent_history_repair(r) ==
  LET fixed == agent_history_repair_interrupted(r)
      active == model_history_list(fixed)
  IN Deactivate(fixed, {i \in active : /\ fixed[i].kind = "result"
                                       /\ ~(fixed[i].ids \subseteq CallIds(fixed, active))})

\* The mutant: the recent budget cuts anywhere.
RecentPreserved_cut(r) ==
  LET recent == {i \in model_history_list(r) : r[i].kind \notin {"user", "summary"}}
  IN {{i \in recent : i >= k} : k \in 1..Len(r) + 1}

\* The newest rows that the recent budget preserves: a result is never the
\* oldest of them while its calls are left out.
RecentPreserved(r) ==
  LET recent == {i \in model_history_list(r) : r[i].kind \notin {"user", "summary"}}
      Suffix(k) == {i \in recent : i >= k}
      Closed(S) == \A i \in S : r[i].kind = "result" =>
                     \E j \in S : j < i /\ r[j].kind = "calls"
  IN {S \in {Suffix(k) : k \in 1..Len(r) + 1} : S = recent \/ Closed(S)}

\* The newest turns that the fallback preserves whole, none or one of them.
RoundsPreserved(r) ==
  LET active == model_history_list(r)
      newest == {i \in active : r[i].turn = r[Max(active)].turn}
  IN {{}, newest}

\* The user messages that fit their budget.
UsersPreserved(r) == SUBSET {i \in model_history_list(r) : r[i].kind = "user"}

\* The mutant: every compaction of a turn has the same key.
CompactionKey_turn(t, trigger) == <<"compaction", t>>

CompactionKey(t, trigger) == <<"compaction", t, trigger>>

\* A trigger is 0 (the threshold) or the number of an in-turn compaction.
\* model_history_compact: everything active gives way to the preserved rows
\* and a summary, in one transaction.
Compacted(r, t, trigger, preserved) ==
  LET active == model_history_list(r)
      covers == active \cup UNION {r[i].covers : i \in active}
  IN model_history_add(Deactivate(r, active \ preserved),
       Row(t, "summary", CompactionKey(t, trigger), {}, "none", covers))

model_history_compact(t, trigger) ==
  \E S \in RecentPreserved(rows), U \in UsersPreserved(rows), R \in RoundsPreserved(rows) :
    /\ rows' = Compacted(rows, t, trigger, S \cup U \cup R)
    /\ items' = model_history_list(rows')

\* In a turn max_history_rounds is 0.
model_history_compact_in_turn(t, trigger) ==
  \E S \in RecentPreserved(rows), U \in UsersPreserved(rows) :
    /\ rows' = Compacted(rows, t, trigger, S \cup U)
    /\ items' = model_history_list(rows')

-----------------------------------------------------------------------------
(* agent_turn_begin. *)

Go(from, to) == pc = from /\ pc' = to

\* The memory of a turn that is over is not read again.
Forget == items' = {} /\ open' = {} /\ compacted' = 0
Leave == Forget /\ outcome' = "none"

\* A turn that does not begin leaves what it has written.
GiveUp(from) ==
  /\ Go(from, "idle") /\ Leave
  /\ UNCHANGED <<table, counters, kept>>

agent_session_load_history ==
  /\ Go("idle", "loaded")
  /\ turn < MaxTurns /\ turn' = turn + 1
  /\ rows' = agent_history_repair(rows)
  /\ items' = model_history_list(rows')
  /\ open' = {} /\ compacted' = 0 /\ outcome' = "none"
  /\ UNCHANGED <<messages, calls, manual, kept>>

agent_history_maybe_compact ==
  /\ Go("loaded", "ready")
  /\ items # {}
  /\ model_history_compact(turn, 0)
  /\ UNCHANGED <<messages, open, compacted, outcome, counters, kept>>

\* Below the threshold, or the summary failed below the hard limit.
CompactNothing ==
  /\ Go("loaded", "ready")
  /\ UNCHANGED <<table, memory, counters, kept>>

\* A row of the transcript.
message_add(m, t, role) == m \cup {<<t, role>>}

\* The prompt, in both tables, in one transaction.
SaveUser ==
  /\ Go("ready", "saved")
  /\ rows' = model_history_add(rows, Row(turn, "user", <<"user", turn>>, {}, "none", {}))
  /\ messages' = message_add(messages, turn, "user")
  /\ UNCHANGED <<memory, counters, kept>>

TurnBegun ==
  /\ Go("saved", "running")
  /\ UNCHANGED <<table, memory, counters, kept>>

BeginFails == GiveUp("loaded") \/ GiveUp("ready") \/ GiveUp("saved")

-----------------------------------------------------------------------------
(* react_run. *)

agent_history_record_tool_calls(n) ==
  LET batch == calls + 1 .. calls + n
  IN /\ Go("running", "tools")
     /\ calls + n <= MaxCalls
     /\ rows' = model_history_add(rows,
          Row(turn, "calls", <<"calls", calls + 1>>, batch, "none", {}))
     /\ open' = batch /\ calls' = calls + n
     /\ UNCHANGED <<messages, items, compacted, outcome, turn, manual, kept>>

agent_history_record_tool_result(c) ==
  /\ pc = "tools" /\ c \in open
  /\ rows' = model_history_add(rows,
       Row(turn, "result", <<"result", c>>, {c}, "done", {}))
  /\ open' = open \ {c}
  /\ pc' = IF open' = {} THEN "running" ELSE "tools"
  /\ UNCHANGED <<messages, items, compacted, outcome, counters, kept>>

\* react_maybe_compact_active_window, before a request and between batches.
react_maybe_compact_active_window ==
  /\ pc = "running" /\ compacted < MaxCompactions
  /\ compacted' = compacted + 1
  /\ model_history_compact_in_turn(turn, compacted + 1)
  /\ UNCHANGED <<messages, pc, open, outcome, counters, kept>>

\* A write of the history failed: the loop stops.
RecordFails ==
  /\ "error" \in Ends
  /\ pc \in {"running", "tools"} /\ pc' = "ended"
  /\ outcome' = "error" /\ Forget
  /\ UNCHANGED <<table, counters, kept>>

ReactEnds(o) ==
  /\ Go("running", "ended")
  /\ outcome' = o /\ Forget
  /\ UNCHANGED <<table, counters, kept>>

-----------------------------------------------------------------------------
(* agent_turn_finish. *)

turn_model_history_succeeded == outcome = "success"
turn_should_keep_complete_history == outcome = "not_configured"
turn_should_keep_user_history == outcome = "llm_error"

\* The rows of a turn that failed are taken out of the active history.
FinishRows ==
  /\ Go("ended", "persist")
  /\ rows' = IF turn_model_history_succeeded \/ turn_should_keep_complete_history
             THEN rows
             ELSE IF turn_should_keep_user_history
             THEN deactivate_turn(rows, turn, AllKinds \ {"user"})
             ELSE deactivate_turn(rows, turn, AllKinds)
  /\ UNCHANGED <<messages, memory, counters, kept>>

\* The statement fails: finish goes on.
FinishRowsFails ==
  /\ Go("ended", "persist")
  /\ UNCHANGED <<table, memory, counters, kept>>

\* The transcript, and after a success the answer's row, in one transaction.
FinishMessages ==
  /\ Go("persist", "idle") /\ Leave
  /\ messages' = message_add(message_add(messages, turn, "user"), turn, "assistant")
  /\ rows' = IF turn_model_history_succeeded
             THEN model_history_add(rows,
                    Row(turn, "assistant", <<"assistant", turn>>, {}, "none", {}))
             ELSE rows
  /\ kept' = IF turn_model_history_succeeded THEN kept \cup {turn} ELSE kept
  /\ UNCHANGED counters

FinishMessagesFails == GiveUp("persist")

-----------------------------------------------------------------------------
(* Between and around the turns. *)

\* runtime_session_compress: load, repair, then a forced compaction under an
\* id of its own (0 stands for it: no turn has it).
runtime_session_compress ==
  /\ pc = "idle" /\ manual < MaxManual
  /\ manual' = manual + 1
  /\ LET fixed == agent_history_repair(rows)
     IN /\ model_history_list(fixed) # {}
        /\ \E S \in RecentPreserved(fixed), U \in UsersPreserved(fixed) :
             rows' = Compacted(fixed, 0, manual + 1, S \cup U)
  /\ UNCHANGED <<messages, pc, memory, turn, calls, kept>>

Crash ==
  /\ pc # "idle" /\ pc' = "idle" /\ Leave
  /\ UNCHANGED <<table, counters, kept>>

\* Another process opens the session and repairs it.
OtherProcessLoads ==
  /\ Shared
  /\ rows' = agent_history_repair(rows)
  /\ UNCHANGED <<messages, pc, memory, counters, kept>>

Next ==
  \/ agent_session_load_history \/ agent_history_maybe_compact \/ CompactNothing
  \/ SaveUser \/ TurnBegun \/ BeginFails
  \/ \E n \in 1..MaxBatch : agent_history_record_tool_calls(n)
  \/ \E c \in Calls : agent_history_record_tool_result(c)
  \/ react_maybe_compact_active_window \/ RecordFails
  \/ \E o \in Ends : ReactEnds(o)
  \/ FinishRows \/ FinishRowsFails \/ FinishMessages \/ FinishMessagesFails
  \/ runtime_session_compress \/ Crash \/ OtherProcessLoads

Spec == Init /\ [][Next]_vars

-----------------------------------------------------------------------------
(* Properties. *)

\* What the model is shown is paired: an active result has its call and an
\* active call its result, after any crash, failed write, failed turn and
\* compaction before it.  Every variable keeps its type.
InputPaired ==
  /\ TypeOK
  /\ pc # "idle" => CallIds(rows, items) = ResultIds(rows, items)

\* The transcript and the model history agree on what was said: a prompt is
\* in both or in neither, and an answer in the history is in the transcript
\* with its prompt.
TranscriptAgrees ==
  /\ \A t \in 1..turn : <<t, "user">> \in messages =>
       \E i \in DOMAIN rows : rows[i].kind = "user" /\ rows[i].turn = t
  /\ \A i \in DOMAIN rows : rows[i].kind \in {"user", "assistant"} =>
       /\ <<rows[i].turn, "user">> \in messages
       /\ rows[i].kind = "assistant" => <<rows[i].turn, "assistant">> \in messages

\* The model is shown calls with their results, and the transcript agrees with
\* the history.
HistoryPaired == InputPaired /\ TranscriptAgrees

StandsFor(j, i) == rows[j].kind = "summary" /\ i \in rows[j].covers

\* No row of a turn that succeeded is dropped silently: it is active, or a
\* summary stands for it that is active or was made by a turn that did not
\* succeed.  Crashes, repairs and repeated compactions lose nothing.
Remembered ==
  \A i \in DOMAIN rows : rows[i].turn \in kept /\ rows[i].kind # "summary" =>
    \/ rows[i].active
    \/ \E j \in DOMAIN rows :
         StandsFor(j, i) /\ (rows[j].active \/ rows[j].turn \notin kept \cup {0})

\* docs/model-history-design.zh-CN.md: compacted context must not be deleted
\* silently.  Violated: a turn that compacts and then fails takes the summary
\* of all earlier turns with it.
NeverDropped ==
  \A i \in DOMAIN rows : rows[i].turn \in kept /\ rows[i].kind # "summary" =>
    rows[i].active \/ \E j \in model_history_list(rows) : StandsFor(j, i)
=============================================================================
