----------------------------- MODULE Permissions -----------------------------
(***************************************************************************)
(* What the user has allowed, and what the tools may do because of it:     *)
(* agent/tool_context.c (the grants a runtime holds in memory),            *)
(* db/permission_grant.c (the rows "always" leaves behind),                *)
(* runtime/permissions_service.c (listing and revoking them),              *)
(* agent/tools/request_permissions.c and agent/tools/bash_exec.c (the two  *)
(* tools that ask for directories).                                        *)
(*                                                                         *)
(* Paths are a small tree: Above[p] is p and every directory above it.     *)
(* A command is the program it starts, which is also its principal; the    *)
(* parse of compound commands is not modelled.  mode is "none" while no    *)
(* bash_exec_mode is configured (bash_exec_run_legacy), "local" or         *)
(* "server" afterwards (bash_exec_run_policy).                             *)
(*                                                                         *)
(* consents is a history variable: what the user said yes to, for how      *)
(* long.  "once" ends with the call, "turn" with the next react_run of the *)
(* runtime, "session" with the process, "always" with a revocation.        *)
(***************************************************************************)
EXTENDS Naturals, FiniteSets, Sequences, SequencesExt

CONSTANTS
    Paths, Above, Parent,   \* the tree of paths
    Subjects,               \* the programs a command may start
    Work,                   \* workdir and output_dir
    CliDir,                 \* Subjects -> the directory discover_cli_dirs finds
    ProfileDirs,            \* directories the permission profile opens
    ServerDirs,             \* read, write and delete paths of the server policy
    ServerCommands,         \* bash_exec_allowed_commands
    MaxConsents             \* bound on what the user has said yes to

VARIABLES
    mode,                   \* bash_exec_mode
    read_allowed_dirs, write_allowed_dirs, allowed_commands, exec_allowed_dirs,
    scoped_grants,          \* struct tool_scoped_grant of this process
    persistent_grants,      \* the rows as last loaded or added
    table,                  \* permission_grants of this project
    call,                   \* the bash_exec call under way
    consents                \* history: what the user has agreed to

tctx == <<read_allowed_dirs, write_allowed_dirs, allowed_commands, exec_allowed_dirs>>
vars == <<mode, tctx, scoped_grants, persistent_grants, table, call, consents>>

Idle == [stage |-> "idle", subject |-> "", cwd |-> "", todo |-> <<>>,
         approved |-> {}, sandbox |-> {}]
Consent(kind, subject, path, life) ==
    [kind |-> kind, subject |-> subject, path |-> path, life |-> life]
Grant(kind, subject, path, turn_only) ==
    [kind |-> kind, subject |-> subject, path |-> path, turn_only |-> turn_only]
Row(subject, kind, resource) ==
    [subject |-> subject, kind |-> kind, resource |-> resource]

path_is_within(p, d) == d \in Above[p]
InAny(p, dirs) == \E d \in dirs : path_is_within(p, d)

Init ==
    /\ mode \in {"none", "local", "server"}
    /\ read_allowed_dirs = {} /\ write_allowed_dirs = {}
    /\ allowed_commands = (IF mode = "none" THEN {} ELSE ServerCommands)
    /\ exec_allowed_dirs = {}
    /\ scoped_grants = {} /\ persistent_grants = {} /\ table = {}
    /\ call = Idle
    /\ consents = {}

-----------------------------------------------------------------------------
(* What is let through without asking.                                     *)

persistent_path_is_allowed(kind, p) ==
    \E g \in persistent_grants : g.kind = kind /\ path_is_within(p, g.resource)

authorize_path_silent(kind, p) ==
    \/ path_is_within(p, Work)
    \/ InAny(p, IF kind = "read_path" THEN read_allowed_dirs ELSE write_allowed_dirs)
    \/ persistent_path_is_allowed(kind, p)

scoped_is_allowed(kind, subject, p) ==
    \/ \E g \in scoped_grants :
           g.kind = kind /\ g.subject = subject /\ path_is_within(p, g.path)
    \/ /\ kind = "write" /\ mode = "none"
       /\ \E g \in persistent_grants :
              g.kind = "write_path" /\ g.subject = subject /\ path_is_within(p, g.resource)

command_is_allowed(subject) ==
    \/ subject \in allowed_commands
    \/ /\ mode # "server"
       /\ \E g \in persistent_grants : g.kind = "command" /\ g.resource = subject

command_scope_is_allowed(cwd) ==
    cwd # "" => InAny(cwd, exec_allowed_dirs) \/ persistent_path_is_allowed("command_cwd", cwd)

path_in_local_defaults(p) ==
    path_is_within(p, Work) \/ path_is_within(p, "/tmp") \/ InAny(p, ProfileDirs)

-----------------------------------------------------------------------------
(* Recording a grant.                                                      *)

add_scoped_path_grant(kind, subject, p, turn_only) ==
    LET same == {g \in scoped_grants : g.kind = kind /\ g.subject = subject /\ g.path = p}
    IN  IF same = {} THEN scoped_grants \cup {Grant(kind, subject, p, turn_only)}
        ELSE {IF g \in same /\ ~turn_only THEN Grant(kind, subject, p, FALSE) ELSE g :
                 g \in scoped_grants}

\* INSERT OR IGNORE first; a row that could not be written is not remembered either.
save_grant(rows, saved) ==
    /\ table' = (IF saved THEN table \cup rows ELSE table)
    /\ persistent_grants' = (IF saved THEN persistent_grants \cup rows ELSE persistent_grants)

Agree(new) == consents' = consents \cup new
MayAsk == Cardinality(consents) < MaxConsents

\* The row "always" leaves for a consent.
RowOf(c) == Row(IF c.subject = "" THEN "tool:*" ELSE c.subject,
                IF c.kind = "write" THEN "write_path" ELSE c.kind,
                IF c.kind = "command" THEN c.subject ELSE c.path)

-----------------------------------------------------------------------------
(* File and image tools: tool_context_authorize_path asks for one path and *)
(* keeps its directory.  A denial, or a yes for this once, keeps nothing.  *)

tool_context_authorize_path ==
    /\ call = Idle /\ MayAsk
    /\ \E kind \in {"read_path", "tool_write_path"}, p \in Paths, v \in {"session", "always"} :
        LET dir == IF v = "always" /\ Parent[p] = "/" THEN p ELSE Parent[p]
            c == Consent(kind, "", dir, v)
        IN
        /\ ~authorize_path_silent(kind, p)
        /\ read_allowed_dirs' = IF v = "session" /\ kind = "read_path"
                                THEN read_allowed_dirs \cup {dir} ELSE read_allowed_dirs
        /\ write_allowed_dirs' = IF v = "session" /\ kind # "read_path"
                                 THEN write_allowed_dirs \cup {dir} ELSE write_allowed_dirs
        /\ save_grant({RowOf(c)}, v = "always")
        /\ Agree({c})
        /\ UNCHANGED <<mode, allowed_commands, exec_allowed_dirs, scoped_grants, call>>

(* request_permissions: ask for a directory for one program before the     *)
(* command that will use it; the grant lasts as long as the request says.  *)
tool_context_request_scoped_access(kind, s, p, session_scope) ==
    /\ ~path_in_local_defaults(p) /\ ~scoped_is_allowed(kind, s, p)
    /\ MayAsk       \* a denial leaves everything as it was
    /\ scoped_grants' = add_scoped_path_grant(kind, s, p, ~session_scope)
    /\ Agree({Consent(kind, s, p, IF session_scope THEN "session" ELSE "turn")})

request_permissions_run ==
    /\ call = Idle /\ mode = "local"
    /\ \E kind \in {"write", "delete"}, s \in Subjects, p \in Paths, session_scope \in BOOLEAN :
        /\ tool_context_request_scoped_access(kind, s, p, session_scope)
        /\ UNCHANGED <<mode, tctx, persistent_grants, table, call>>

-----------------------------------------------------------------------------
(* bash_exec: the command, then each directory it declares, then the run.  *)

\* A call waits for the user at every question; nothing else of this runtime runs meanwhile.
Ask(s, cwd, todo, approved) ==
    call' = [Idle EXCEPT !.stage = "asking", !.subject = s, !.cwd = cwd,
                         !.todo = todo, !.approved = approved]

Declared == {<<>>} \cup {<<[kind |-> k, path |-> p]>> : k \in {"write", "delete"}, p \in Paths}

\* A yes to a directory, for the session or for good; a yes for this once leaves no grant.
\* rows are what else is saved with it.
tool_context_grant_write_access(s, p, v, rows, saved) ==
    /\ scoped_grants' = IF v = "session" THEN add_scoped_path_grant("write", s, p, FALSE)
                                         ELSE scoped_grants
    /\ save_grant({Row(s, "write_path", p)} \cup rows, v = "always" /\ saved)

\* How long a yes lasts.
Life(v) == IF v = "allow" THEN "once" ELSE v

\* The program and its cwd are known, or the user is asked for them and for the program's own
\* directory; a directory that cannot be made ends the call and leaves nothing.
check_command_operation(s, cwd, todo) ==
    LET cmd_ok == command_is_allowed(s)
        cwd_ok == command_scope_is_allowed(cwd)
    IN  \/ /\ cmd_ok /\ cwd_ok
           /\ Ask(s, cwd, todo, {})
           /\ UNCHANGED <<allowed_commands, exec_allowed_dirs, scoped_grants,
                          persistent_grants, table, consents>>
        \/ /\ ~(cmd_ok /\ cwd_ok) /\ MayAsk
           /\ \E v \in {"allow", "session", "always"} :
                LET new == (IF cmd_ok THEN {} ELSE {Consent("command", s, "", Life(v))})
                           \cup (IF cwd_ok THEN {} ELSE {Consent("command_cwd", s, cwd, Life(v))})
                IN
                /\ tool_context_grant_write_access(s, CliDir[s], v, {RowOf(c) : c \in new}, TRUE)
                /\ allowed_commands' = IF v = "session" /\ ~cmd_ok
                                       THEN allowed_commands \cup {s} ELSE allowed_commands
                /\ exec_allowed_dirs' = IF v = "session" /\ ~cwd_ok
                                        THEN exec_allowed_dirs \cup {cwd} ELSE exec_allowed_dirs
                /\ Ask(s, cwd, todo, {[kind |-> "write", path |-> CliDir[s]]})
                /\ Agree(new \cup {Consent("write", s, CliDir[s], Life(v))})

bash_exec_run_legacy ==
    /\ mode = "none" /\ call = Idle
    /\ \E s \in Subjects, cwd \in {"", "/ext"}, todo \in Declared :
        /\ \A i \in DOMAIN todo : todo[i].kind = "write"
        /\ check_command_operation(s, cwd, todo)
        /\ UNCHANGED <<mode, read_allowed_dirs, write_allowed_dirs>>

\* The local policy runs any program, the server policy those on its list.
bash_exec_run_policy ==
    /\ mode # "none" /\ call = Idle
    /\ \E s \in Subjects, todo \in Declared, escalate \in BOOLEAN :
        /\ mode = "server" => command_is_allowed(s) /\ ~escalate
        /\ Ask(s, "", IF escalate
                      THEN <<[kind |-> "write", path |-> "/"], [kind |-> "delete", path |-> "/"]>>
                      ELSE todo, {})
        /\ UNCHANGED <<mode, tctx, scoped_grants, persistent_grants, table, consents>>

\* The call is over, and with it what was allowed for this once.
EndCall ==
    /\ call' = Idle
    /\ consents' = {c \in consents : c.life # "once"}

Approved(d) == call' = [call EXCEPT !.todo = Tail(@), !.approved = @ \cup {d}]

\* A policy mode keeps no path for good: "always" is taken for "session".
tool_context_request_write_access(d) ==
    \E v \in {"allow", "session", "always"}, saved \in BOOLEAN :
        LET w == IF mode # "none" /\ v = "always" THEN "session" ELSE v IN
        /\ tool_context_grant_write_access(call.subject, d.path, w, {}, saved)
        /\ IF w = "always" /\ ~saved THEN EndCall
           ELSE Approved(d) /\ Agree({Consent("write", call.subject, d.path, Life(w))})

tool_context_request_delete_access(d) ==
    \E v \in {"allow", "session", "always"} :
        LET w == IF v = "always" THEN "session" ELSE v IN
        /\ scoped_grants' = IF w = "session"
                            THEN add_scoped_path_grant("delete", call.subject, d.path, FALSE)
                            ELSE scoped_grants
        /\ Approved(d)
        /\ Agree({Consent("delete", call.subject, d.path, Life(w))})
        /\ UNCHANGED <<persistent_grants, table>>

\* One declared directory: open already, refused by policy or by the user, or agreed to.
Known(d) ==
    CASE mode = "none" -> \/ path_is_within(d.path, Work) \/ InAny(d.path, {a.path : a \in call.approved})
                          \/ scoped_is_allowed("write", call.subject, d.path)
      [] mode = "local" -> path_in_local_defaults(d.path) \/ scoped_is_allowed(d.kind, call.subject, d.path)
      [] mode = "server" -> InAny(d.path, ServerDirs)

prepare_policy_paths ==
    /\ call.stage = "asking" /\ call.todo # <<>>
    /\ LET d == Head(call.todo) IN
       \/ /\ Known(d) /\ Approved(d)
          /\ UNCHANGED <<scoped_grants, persistent_grants, table, consents>>
       \/ /\ ~Known(d) /\ EndCall
          /\ UNCHANGED <<scoped_grants, persistent_grants, table>>
       \/ /\ ~Known(d) /\ mode # "server" /\ MayAsk
          /\ IF d.kind = "write" THEN tool_context_request_write_access(d)
                                 ELSE tool_context_request_delete_access(d)
    /\ UNCHANGED <<mode, tctx>>

\* What the child is given: sandbox_enter's write and delete paths.
collect_grants ==
    {[kind |-> g.kind, path |-> g.path] :
        g \in {h \in scoped_grants : h.subject = call.subject /\ (mode = "none" => h.kind = "write")}}
    \cup (IF mode # "none" THEN {}
          ELSE {[kind |-> "write", path |-> g.resource] :
                   g \in {h \in persistent_grants : h.kind = "write_path" /\ h.subject = call.subject}})

Defaults ==
    CASE mode = "none" -> {Work} \cup ({call.cwd} \ {""})
      [] mode = "local" -> {Work, "/tmp"} \cup ProfileDirs
      [] mode = "server" -> ServerDirs

Fork ==
    /\ call.stage = "asking" /\ call.todo = <<>>
    /\ call' = [call EXCEPT !.stage = "running",
                            !.sandbox = [kind : {"write", "delete"}, path : Defaults]
                                        \cup (IF mode = "server" THEN {}
                                              ELSE call.approved \cup collect_grants)]
    /\ UNCHANGED <<mode, tctx, scoped_grants, persistent_grants, table, consents>>

Exits ==
    /\ call.stage = "running"
    /\ EndCall
    /\ UNCHANGED <<mode, tctx, scoped_grants, persistent_grants, table>>

-----------------------------------------------------------------------------
(* The end of grants.                                                      *)

tool_context_clear_turn_grants ==
    scoped_grants' = {g \in scoped_grants : ~g.turn_only}

\* The next react_run of this runtime ...
NextTurn ==
    /\ call = Idle
    /\ tool_context_clear_turn_grants
    /\ consents' = {c \in consents : c.life # "turn"}
    /\ UNCHANGED <<mode, tctx, persistent_grants, table, call>>

\* ... and that of a sub-agent within the turn, whose registry holds the same tool context.
SubAgentTurn ==
    /\ call = Idle
    /\ tool_context_clear_turn_grants
    /\ UNCHANGED <<mode, tctx, persistent_grants, table, call, consents>>

\* mutant: the rows are deleted and the loaded grants kept
Revoked_kept(rows) ==
    /\ table' = table \ rows
    /\ consents' = {c \in consents : rows # {} /\ c.life = "always" => RowOf(c) \in table'}
    /\ UNCHANGED <<mode, tctx, scoped_grants, persistent_grants, call>>

\* reload_after_delete: the grants in memory are loaded anew when rows were deleted.
Revoked(rows) ==
    /\ table' = table \ rows
    /\ persistent_grants' = IF rows # {} THEN table \ rows ELSE persistent_grants
    /\ consents' = {c \in consents : rows # {} /\ c.life = "always" => RowOf(c) \in table'}
    /\ UNCHANGED <<mode, tctx, scoped_grants, call>>

runtime_permission_revoke ==
    /\ call = Idle
    /\ \/ \E r \in table : Revoked({r})
       \/ \E s \in Subjects \cup {"tool:*"} : Revoked({r \in table : r.subject = s})
       \/ Revoked(table)

\* Another process of the same project clears its rows; this one keeps what it has loaded.
OtherProcessClears ==
    /\ table # {} /\ table' = {}
    /\ UNCHANGED <<mode, tctx, scoped_grants, persistent_grants, call, consents>>

\* The process ends and is started again: only the rows are left.
Restart ==
    /\ call = Idle
    /\ read_allowed_dirs' = {} /\ write_allowed_dirs' = {} /\ exec_allowed_dirs' = {}
    /\ allowed_commands' = (IF mode = "none" THEN {} ELSE ServerCommands)
    /\ scoped_grants' = {}
    /\ persistent_grants' = table
    /\ consents' = {c \in consents : c.life = "always" /\ RowOf(c) \in table}
    /\ UNCHANGED <<mode, table, call>>

Next ==
    \/ tool_context_authorize_path \/ request_permissions_run
    \/ bash_exec_run_legacy \/ bash_exec_run_policy \/ prepare_policy_paths \/ Fork \/ Exits
    \/ NextTurn \/ SubAgentTurn \/ runtime_permission_revoke \/ OtherProcessClears \/ Restart

Spec == Init /\ [][Next]_vars

-----------------------------------------------------------------------------
\* c speaks of this kind of operation, for this program and this path.
Covers(c, kind, subject, p) ==
    /\ c.kind = kind
    /\ c.subject \in {subject, ""} \/ kind = "command_cwd"
    /\ kind = "command" \/ path_is_within(p, c.path)

\* Nothing is let through that the user has not agreed to: every path, command
\* and directory the grants in memory would let pass unasked, and every
\* directory a running command's sandbox is open to, is one that is open to
\* everyone or one the user said yes to, for that program, and for a time
\* that is not over (this call, this turn, this process, or until revoked).
OnlyWhatWasAgreed ==
    LET Lasting(kind, s, p) == \E c \in consents : c.life # "once" /\ Covers(c, kind, s, p)
    IN
    /\ \A kind \in {"read_path", "tool_write_path"}, p \in Paths :
          authorize_path_silent(kind, p) => path_is_within(p, Work) \/ Lasting(kind, "", p)
    /\ \A kind \in {"write", "delete"}, s \in Subjects, p \in Paths :
          scoped_is_allowed(kind, s, p) => Lasting(kind, s, p)
    /\ mode = "none" => \A s \in Subjects : command_is_allowed(s) => Lasting("command", s, "")
    /\ \A d \in call.sandbox :
          \/ d.path \in {Work, "/tmp"} \cup ProfileDirs \cup ServerDirs
          \/ \E c \in consents : Covers(c, d.kind, call.subject, d.path)
          \/ d.path = call.cwd /\ \E c \in consents : Covers(c, "command_cwd", "", d.path)

\* What the user has allowed for the session, or for good, is not asked again:
\* it is let through for as long as it was promised.
AgreedIsRemembered ==
    \A c \in consents : c.life \in {"session", "always"} =>
        CASE c.kind \in {"read_path", "tool_write_path"} -> authorize_path_silent(c.kind, c.path)
          [] c.kind \in {"write", "delete"} -> scoped_is_allowed(c.kind, c.subject, c.path)
          [] c.kind = "command" -> command_is_allowed(c.subject)
          [] c.kind = "command_cwd" -> command_scope_is_allowed(c.path)

=============================================================================
