---------------------------- MODULE DynamicTools ----------------------------
(***************************************************************************)
(* Tools that the model writes (src/agent/tools/dynamic_tools.c) in the    *)
(* tool registry (src/agent/tool.c): create, update, promote, delete, roll *)
(* back, and what is loaded when a session is bound or the program starts. *)
(*                                                                         *)
(* One tool name is followed.  It may have files in the directory of each  *)
(* session and in the persistent one; a registry entry points to one of    *)
(* these directories, holds the metadata it was loaded with, and runs the  *)
(* source that is in the directory at that time.  A version is a number:   *)
(* 0 is no file, -1 one that was not written to its end.  An update keeps  *)
(* what it replaces as a checkpoint in the directory of the session.       *)
(* Files are written in place: a crash may come between any two steps.     *)
(***************************************************************************)
EXTENDS Integers, FiniteSets, FiniteSetsExt

CONSTANTS
  Sessions,
  MaxVersion,   \* bound on the versions written
  MaxFaults,    \* bound on the crashes and on the file operations that fail
  HistoryLimit  \* DYN_TOOL_HISTORY_LIMIT

VARIABLES
  entry,        \* the registry entry of the name
  files,        \* directory -> versions of tool.js and tool.json
  hist,         \* session -> its checkpoints
  pdir,         \* the persistent directory of the name exists
  session,      \* the session that is bound
  kind,         \* version -> what is wrong with it
  op,           \* the tool call under way
  faults, crashed, skewed  \* history: how many, and of which consequence

vars == <<entry, files, hist, pdir, session, kind, op, faults, crashed, skewed>>

Persistent == "persistent"
Dirs == Sessions \cup {Persistent}
Versions == 1..MaxVersion
Nothing == [src |-> 0, meta |-> 0]
NoEntry == [dir |-> "", meta |-> 0]
NoOp == [name |-> "", pc |-> "idle", v |-> 0, cp |-> 0, ok |-> FALSE, was |-> Nothing, before |-> {}]

Init ==
  /\ entry = NoEntry /\ files = [d \in Dirs |-> Nothing] /\ hist = [s \in Sessions |-> {}]
  /\ pdir = FALSE /\ session \in Sessions /\ kind = [v \in Versions |-> ""]
  /\ op = NoOp /\ faults = 0 /\ crashed = FALSE /\ skewed = FALSE

\* What a call of the tool does: the source it runs and the schema it shows.
Means == IF entry = NoEntry THEN Nothing
         ELSE [src |-> files[entry.dir].src, meta |-> entry.meta]

At(name, pc) == op.name = name /\ op.pc = pc
Goes(pc) == op' = [op EXCEPT !.pc = pc]
Ends(ok) == op' = [op EXCEPT !.pc = "end", !.ok = ok]
Fault == faults < MaxFaults /\ faults' = faults + 1
Calls(name) == [NoOp EXCEPT !.name = name, !.pc = "begin", !.was = Means, !.before = hist[session]]

\* What the runner says of a source.
Passes(src) == IF src > 0 THEN kind[src] # "badjs" ELSE FALSE

\* tool_register checks the schemas and whether there is room, replacing an entry
\* does neither.
tool_register(dir, meta) == entry = NoEntry => kind[meta] # "badschema"

\* load_tool_from_dir: both files must be there and the metadata readable; the
\* source is not checked.
load_tool_from_dir(e, f, dir) ==
  IF f[dir].meta > 0 /\ f[dir].src # 0 /\ (e = NoEntry => kind[f[dir].meta] # "badschema")
  THEN [dir |-> dir, meta |-> f[dir].meta] ELSE e

----------------------------------------------------------------------------
(* Checkpoints. *)

Latest(s) == Max({0} \cup {c.id : c \in hist[s]})

\* prune_checkpoint_history: the oldest go.
prune_checkpoint_history(cs) ==
  {c \in cs : Cardinality({d \in cs : d.id > c.id}) < HistoryLimit}

WithId(s, id) == CHOOSE c \in hist[s] : c.id = id
remove_checkpoint_ids_from(s, id) == {c \in hist[s] : c.id < id}

----------------------------------------------------------------------------
(* tool_create_exec. *)

\* The arguments, the name and the consent are in order.
tool_create_exec ==
  /\ op = NoOp
  /\ \E v \in Versions, k \in {"good", "badjs", "badschema"} :
       /\ \A w \in Versions : kind[w] # "" <=> w < v
       /\ kind' = [kind EXCEPT ![v] = k]
       /\ op' = [Calls("create") EXCEPT !.v = v]
  /\ UNCHANGED <<entry, files, hist, pdir, session, faults, crashed, skewed>>

\* create_tool_checkpoint makes the directory ...
CheckpointMade ==
  /\ At("create", "begin")
  /\ LET id == Latest(session) + 1 IN
       /\ hist' = [hist EXCEPT ![session] = @ \cup {[id |-> id, done |-> FALSE, before |-> "absent",
                                                    src |-> 0, meta |-> 0, was |-> op.was]}]
       /\ op' = [op EXCEPT !.pc = "copy", !.cp = id]
  /\ UNCHANGED <<entry, files, pdir, session, kind, faults, crashed, skewed>>

\* ... copies the files of the entry, if there is one, and describes itself; what
\* cannot be copied ends the call.
CheckpointDone ==
  /\ At("create", "copy")
  /\ LET old == WithId(session, op.cp)
         f == IF entry = NoEntry THEN Nothing ELSE files[entry.dir] IN
     IF entry # NoEntry /\ (f.src = 0 \/ f.meta = 0)
     THEN hist' = [hist EXCEPT ![session] = @ \ {old}] /\ Ends(FALSE)
     ELSE /\ hist' = [hist EXCEPT ![session] = (@ \ {old}) \cup
                       {[old EXCEPT !.done = TRUE, !.src = f.src, !.meta = f.meta,
                                    !.before = IF entry = NoEntry THEN "absent" ELSE "present"]}]
          /\ Goes("source")
  /\ UNCHANGED <<entry, files, pdir, session, kind, faults, crashed, skewed>>

\* write_tool_files: the source, then the metadata; each may fail half-way.
WritesSource ==
  /\ At("create", "source")
  /\ \/ files' = [files EXCEPT ![session].src = op.v] /\ Goes("metadata") /\ UNCHANGED faults
     \/ Fault /\ files' = [files EXCEPT ![session].src = -1] /\ Goes("restore")
  /\ UNCHANGED <<entry, hist, pdir, session, kind, crashed, skewed>>

WritesMetadata ==
  /\ At("create", "metadata")
  /\ \/ files' = [files EXCEPT ![session].meta = op.v] /\ Goes("check") /\ UNCHANGED faults
     \/ Fault /\ files' = [files EXCEPT ![session].meta = -1] /\ Goes("restore")
  /\ UNCHANGED <<entry, hist, pdir, session, kind, crashed, skewed>>

\* check_js_source: the runner parses it; it may also not be started.
check_js_source ==
  /\ At("create", "check")
  /\ \/ Goes(IF Passes(op.v) THEN "register" ELSE "restore") /\ UNCHANGED faults
     \/ Fault /\ Goes("restore")
  /\ UNCHANGED <<entry, files, hist, pdir, session, kind, crashed, skewed>>

\* register_dynamic_tool; only a new entry prunes the history.
register_dynamic_tool ==
  /\ At("create", "register")
  /\ IF tool_register(session, op.v)
     THEN /\ entry' = [dir |-> session, meta |-> op.v]
          /\ hist' = IF entry = NoEntry
                     THEN [hist EXCEPT ![session] = prune_checkpoint_history(@)] ELSE hist
          /\ Ends(TRUE)
     ELSE Goes("restore") /\ UNCHANGED <<entry, hist>>
  /\ UNCHANGED <<files, pdir, session, kind, faults, crashed, skewed>>

\* restore_tool_checkpoint; a failure of it is not looked at.
restore_tool_checkpoint ==
  /\ At("create", "restore")
  /\ LET c == WithId(session, op.cp) IN
     \/ /\ c.before = "absent"
        /\ files' = [files EXCEPT ![session] = Nothing]
        /\ hist' = [hist EXCEPT ![session] = {}]
        /\ UNCHANGED <<faults, skewed>>
     \/ /\ c.before = "present"
        /\ files' = [files EXCEPT ![session] = [src |-> c.src, meta |-> c.meta]]
        /\ UNCHANGED <<hist, faults, skewed>>
     \/ Fault /\ skewed' = TRUE /\ UNCHANGED <<files, hist>>
  /\ Goes("drop")
  /\ UNCHANGED <<entry, pdir, session, kind, crashed>>

\* Mutant: the checkpoint of a create that failed is kept.
DropsCheckpoint_kept ==
  /\ At("create", "drop") /\ Ends(FALSE)
  /\ UNCHANGED <<entry, files, hist, pdir, session, kind, faults, crashed, skewed>>

DropsCheckpoint ==
  /\ At("create", "drop")
  /\ hist' = [hist EXCEPT ![session] = {c \in @ : c.id # op.cp}]
  /\ Ends(FALSE)
  /\ UNCHANGED <<entry, files, pdir, session, kind, faults, crashed, skewed>>

----------------------------------------------------------------------------
(* tool_promote_exec. *)

tool_promote_exec ==
  /\ op = NoOp
  /\ IF pdir THEN op' = [Calls("promote") EXCEPT !.pc = "end"] /\ UNCHANGED pdir
             ELSE op' = [Calls("promote") EXCEPT !.pc = "metadata"] /\ pdir' = TRUE
  /\ UNCHANGED <<entry, files, hist, session, kind, faults, crashed, skewed>>

\* Copying a file that the session does not have ends the call, and the directory
\* stays.
PromotesMetadata ==
  /\ At("promote", "metadata")
  /\ IF files[session].meta = 0
     THEN Ends(FALSE) /\ UNCHANGED files
     ELSE files' = [files EXCEPT ![Persistent].meta = files[session].meta] /\ Goes("source")
  /\ UNCHANGED <<entry, hist, pdir, session, kind, faults, crashed, skewed>>

PromotesSource ==
  /\ At("promote", "source")
  /\ IF files[session].src = 0
     THEN Ends(FALSE) /\ UNCHANGED files
     ELSE files' = [files EXCEPT ![Persistent].src = files[session].src] /\ Goes("load")
  /\ UNCHANGED <<entry, hist, pdir, session, kind, faults, crashed, skewed>>

PromoteLoads ==
  /\ At("promote", "load")
  /\ entry' = load_tool_from_dir(entry, files, Persistent)
  /\ Ends(entry'.dir = Persistent)
  /\ UNCHANGED <<files, hist, pdir, session, kind, faults, crashed, skewed>>

----------------------------------------------------------------------------
(* tool_delete_exec. *)

\* remove_tree of a directory of the name.
Removed(dir) ==
  /\ files' = [files EXCEPT ![dir] = Nothing]
  /\ hist' = IF dir = Persistent THEN hist ELSE [hist EXCEPT ![dir] = {}]
  /\ pdir' = (pdir /\ dir # Persistent)

\* The entry may come from another session.
dynamic_tool_delete_path_allowed == entry.dir \in {session, Persistent}

tool_delete_exec ==
  /\ op = NoOp /\ dynamic_tool_delete_path_allowed
  /\ Removed(entry.dir)
  /\ op' = [Calls("delete") EXCEPT !.pc = "unregister"]
  /\ UNCHANGED <<entry, session, kind, faults, crashed, skewed>>

\* The files cannot all be removed: the entry stays.
DeleteFails ==
  /\ op = NoOp /\ dynamic_tool_delete_path_allowed /\ Fault
  /\ files' = [files EXCEPT ![entry.dir].src = 0]
  /\ skewed' = TRUE
  /\ op' = [Calls("delete") EXCEPT !.pc = "end"]
  /\ UNCHANGED <<entry, hist, pdir, session, kind, crashed>>

\* tool_unregister; behind a tool of the session its persistent version comes back.
tool_unregister ==
  /\ At("delete", "unregister")
  /\ entry' = IF entry.dir = Persistent THEN NoEntry ELSE load_tool_from_dir(NoEntry, files, Persistent)
  /\ Ends(TRUE)
  /\ UNCHANGED <<files, hist, pdir, session, kind, faults, crashed, skewed>>

----------------------------------------------------------------------------
(* tool_rollback_exec: to a checkpoint in the directory of the entry. *)

tool_rollback_exec ==
  /\ op = NoOp /\ entry.dir \in Sessions
  /\ \E c \in hist[entry.dir] :
       /\ c.done
       /\ IF c.before = "absent"
          THEN Removed(entry.dir) /\ op' = [Calls("rollback") EXCEPT !.pc = "absent", !.cp = c.id]
          ELSE /\ files' = [files EXCEPT ![entry.dir].meta = c.meta]
               /\ op' = [Calls("rollback") EXCEPT !.pc = "source", !.cp = c.id]
               /\ UNCHANGED <<hist, pdir>>
  /\ UNCHANGED <<entry, session, kind, faults, crashed, skewed>>

\* The tool was created by this step: reload_persistent_if_present.
reload_persistent_if_present ==
  /\ At("rollback", "absent")
  /\ entry' = load_tool_from_dir(NoEntry, files, Persistent)
  /\ Ends(TRUE)
  /\ UNCHANGED <<files, hist, pdir, session, kind, faults, crashed, skewed>>

RestoresSource ==
  /\ At("rollback", "source")
  /\ files' = [files EXCEPT ![entry.dir].src = WithId(entry.dir, op.cp).src]
  /\ Goes("check")
  /\ UNCHANGED <<entry, hist, pdir, session, kind, faults, crashed, skewed>>

\* Checked and registered again, and what came after it is forgotten; when it does
\* not pass the check, files and entry go apart.
RollbackLoads ==
  /\ At("rollback", "check")
  /\ \/ /\ Passes(files[entry.dir].src)
        /\ entry' = load_tool_from_dir(entry, files, entry.dir)
        /\ hist' = [hist EXCEPT ![entry.dir] = remove_checkpoint_ids_from(entry.dir, op.cp)]
        /\ Ends(TRUE) /\ UNCHANGED <<faults, skewed>>
     \/ /\ ~Passes(files[entry.dir].src)
        /\ skewed' = TRUE /\ Ends(FALSE) /\ UNCHANGED <<entry, hist, faults>>
     \/ Fault /\ skewed' = TRUE /\ Ends(FALSE) /\ UNCHANGED <<entry, hist>>
  /\ UNCHANGED <<files, pdir, session, kind, crashed>>

----------------------------------------------------------------------------
(* The program. *)

Returns ==
  /\ op.pc = "end" /\ op' = NoOp
  /\ UNCHANGED <<entry, files, hist, pdir, session, kind, faults, crashed, skewed>>

\* dynamic_tools_set_session_id: what the session has replaces an entry, what the
\* one before had stays.
dynamic_tools_set_session_id ==
  /\ op = NoOp
  /\ \E s \in Sessions : session' = s /\ entry' = load_tool_from_dir(entry, files, s)
  /\ UNCHANGED <<files, hist, pdir, kind, op, faults, crashed, skewed>>

\* What a crash leaves of a file that is being written.
Torn == IF op.name # "create" THEN files
        ELSE CASE op.pc = "source" -> [files EXCEPT ![session].src = -1]
               [] op.pc = "metadata" -> [files EXCEPT ![session].meta = -1]
               [] OTHER -> files

\* The program dies and is started again: dynamic_tools_init loads what is persistent,
\* then what the session has.
dynamic_tools_init ==
  /\ Fault /\ crashed' = (crashed \/ op # NoOp)
  /\ files' \in {files, Torn}
  /\ \E s \in Sessions :
       /\ session' = s
       /\ entry' = load_tool_from_dir(load_tool_from_dir(NoEntry, files', Persistent), files', s)
  /\ op' = NoOp
  /\ UNCHANGED <<hist, pdir, kind, skewed>>

Next ==
  \/ tool_create_exec \/ CheckpointMade \/ CheckpointDone \/ WritesSource \/ WritesMetadata
  \/ check_js_source \/ register_dynamic_tool \/ restore_tool_checkpoint \/ DropsCheckpoint
  \/ tool_promote_exec \/ PromotesMetadata \/ PromotesSource \/ PromoteLoads
  \/ tool_delete_exec \/ DeleteFails \/ tool_unregister
  \/ tool_rollback_exec \/ reload_persistent_if_present \/ RestoresSource \/ RollbackLoads
  \/ Returns \/ dynamic_tools_set_session_id \/ dynamic_tools_init

Spec == Init /\ [][Next]_vars
----------------------------------------------------------------------------
(* Properties. *)

\* A create that fails leaves the tool as it was, and its history too unless the name
\* was not registered (what an earlier session tool left behind is then removed).
FailsCleanly ==
  op.name = "create" /\ op.pc = "end" /\ ~op.ok /\ ~crashed /\ ~skewed =>
    Means = op.was /\ (op.was # Nothing => hist[session] = op.before)

\* A complete checkpoint holds the tool as it was before the step it belongs to,
\* crashes included, and going back to it brings just that back.
HistoryFaithful ==
  ~skewed =>
    /\ \A s \in Sessions : \A c \in hist[s] :
         c.done => [src |-> c.src, meta |-> c.meta] = c.was
    /\ \A s \in Sessions : \A c, d \in hist[s] : c.id = d.id => c = d

\* Without crashes a registered tool runs a source that passed the check, with the
\* metadata that belongs to it.
RegisteredChecked ==
  op.pc \in {"idle", "end"} /\ entry # NoEntry /\ ~crashed /\ ~skewed =>
    /\ Means = files[entry.dir] /\ Means.src = Means.meta
    /\ Passes(Means.src)

\* The steps of the tools that change tools: a failed create changes nothing, every
\* checkpoint holds what it replaced, and what is registered was checked.
ChangesUndoable == FailsCleanly /\ HistoryFaithful /\ RegisteredChecked
=============================================================================
