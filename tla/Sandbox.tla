------------------------------- MODULE Sandbox -------------------------------
(***************************************************************************)
(* src/sandbox/sandbox.c: the confinement a forked child puts on itself    *)
(* before it executes an extension or a shell command.  sandbox_enter      *)
(* applies four layers in order (environment, resource limits, file        *)
(* system, system calls); the child executes the program only when all of  *)
(* them succeeded and exits with status 126 otherwise.                     *)
(*                                                                         *)
(* The model chooses a configuration, a platform and a kernel, applies the *)
(* layers as the code does and compares what the program can then do with  *)
(* what docs/sandbox.md says of that configuration.  The kernel's landlock *)
(* rules and the macOS profile are sets of rights on a few places.         *)
(***************************************************************************)
EXTENDS Integers, FiniteSets

CONSTANTS
    Configs,    \* the struct sandbox_config values tried
    Kernels     \* the landlock ABI versions tried; 0 is a kernel without it,
                \* and "darwin" stands beside them as macos = TRUE

VARIABLES
    sbcfg,      \* the configuration
    kernel,     \* [macos |-> BOOLEAN, abi |-> ABI version]
    layer,      \* the layer applied next; "run" or "exit" at the end
    env,        \* kinds of environment variable the child still has
    limits,     \* the resource limits in force
    fs,         \* [ok, handled, rules]: the file system rules in force
    calls,      \* the system calls the filter lets through
    unmatched   \* what the filter does with any other call

sandboxVars == <<sbcfg, kernel, layer, env, limits, fs, calls, unmatched>>

-----------------------------------------------------------------------------
(* Places, and rights on them.                                             *)

Places == {"ws", "other", "tmp", "sys", "devnull", "pts", "tty", "shm",
           "proc", "self", "cpuinfo", "pid"}

(* The places of the fixed list of system paths, and of /proc. *)
SystemPaths == {"sys", "dev"}

Above == [p \in Places \cup {"dev"} |->
            CASE p \in {"devnull", "pts", "tty", "shm"} -> {p, "dev"}
              [] p \in {"self", "cpuinfo", "pid"}       -> {p, "proc"}
              [] OTHER                                  -> {p}]

Files == {"devnull", "cpuinfo", "tty"}

ReadAccess == {"read_file", "read_dir", "execute"}
(* The write rights with deletion among them, as the older policy has it. *)
WriteAccess_with_remove(abi) == {"write_file", "make", "remove", "truncate"}
WriteAccess(abi) == {"write_file", "make"} \cup
                    (IF abi >= 3 THEN {"truncate"} ELSE {})
DeleteAccess(abi) == {"remove"} \cup (IF abi >= 2 THEN {"refer"} ELSE {})
IoctlAccess(abi) == IF abi >= 5 THEN {"ioctl"} ELSE {}

(* The rights that mean something for a directory only. *)
DirectoryAccess == {"read_dir", "make", "remove", "refer"}

Rule(p, access) == [place |-> p, access |-> access]

(* The kernel refuses a rule whose rights the ruleset does not handle, and *)
(* one that gives a file the rights of a directory.                        *)
ll_add_rule(handled, r) ==
    /\ r.access \subseteq handled
    /\ r.place \in Files => r.access \cap DirectoryAccess = {}

(* A ruleset from the rules whose failure is fatal and the rules whose     *)
(* failure is only logged.                                                 *)
Ruleset(handled, strict, lenient) ==
    [ok |-> \A r \in strict : ll_add_rule(handled, r),
     handled |-> handled,
     rules |-> {r \in strict \cup lenient : ll_add_rule(handled, r)}]

Lets(ruleset, p, right) ==
    \/ right \notin ruleset.handled
    \/ \E r \in ruleset.rules : r.place \in Above[p] /\ right \in r.access

When(condition, rules) == IF condition THEN rules ELSE {}

-----------------------------------------------------------------------------
(* The permissions the layers are given: a path policy states them one by  *)
(* one, otherwise they are the extension's own.                            *)
EffectivePermissions(c) ==
    IF ~c.policy THEN c.perms
    ELSE (c.perms \ {"filesys", "env"}) \cup
         When(c.write # {} \/ c.delete # {}, {"filesys"})

sandbox_add_landlock_pty(access) == {Rule("pts", access)}
sandbox_add_landlock_temp(access) == {Rule("tmp", access)}
sandbox_add_landlock_ipc(access) == {Rule("shm", access)}
sandbox_add_landlock_runtime_proc(access, info) ==
    {Rule(p, access) : p \in IF info THEN {"proc"} ELSE {"self", "cpuinfo"}}

DevNull(abi, handled) ==
    {Rule("devnull", {"write_file"} \cup (handled \cap {"truncate"}))}

(* Linux, an extension's permissions: writes are open when it asked for    *)
(* the file system and named no path.                                      *)
sandbox_apply_fs(c, abi) ==
    LET write   == WriteAccess(abi) \cup DeleteAccess(abi)
        open    == "filesys" \in c.perms /\ c.allowed = {}
        handled == (ReadAccess \cup IoctlAccess(abi)) \cup When(~open, write)
        path    == ReadAccess \cup When("filesys" \in c.perms /\ ~open, write)
        both    == handled \cap (write \cup ReadAccess)
    IN Ruleset(handled,
         When("pty" \in c.perms, sandbox_add_landlock_pty(
                (handled \cap {"read_file", "write_file"}) \cup IoctlAccess(abi)))
         \cup When("temp" \in c.perms, sandbox_add_landlock_temp(both))
         \cup When("ipc" \in c.perms, sandbox_add_landlock_ipc(both))
         \cup When(handled \cap write # {}, DevNull(abi, handled))
         \cup When("exec" \in c.perms, sandbox_add_landlock_runtime_proc(
                ReadAccess, "process_info" \in c.perms)),
         {Rule(p, path) : p \in c.allowed}
         \cup When("exec" \in c.perms, {Rule(p, ReadAccess) : p \in SystemPaths}))

sandbox_add_landlock_paths(paths, access) == {Rule(p, access) : p \in paths}

(* Linux, a path policy: reads, writes and deletes are separate lists. *)
sandbox_apply_path_policy(c, abi) ==
    LET write   == WriteAccess(abi)
        handled == write \cup DeleteAccess(abi) \cup IoctlAccess(abi)
                   \cup When(~c.read_all, ReadAccess)
        both    == write \cup (handled \cap ReadAccess)
    IN Ruleset(handled,
         When(~c.read_all,
              sandbox_add_landlock_paths(c.read, ReadAccess)
              \cup When("exec" \in c.perms,
                    sandbox_add_landlock_paths(SystemPaths, ReadAccess)
                    \cup sandbox_add_landlock_runtime_proc(ReadAccess,
                            "process_info" \in c.perms)))
         \cup sandbox_add_landlock_paths(c.write, write)
         \cup DevNull(abi, write)
         \cup sandbox_add_landlock_paths(c.delete, DeleteAccess(abi))
         \cup When("pty" \in c.perms, sandbox_add_landlock_pty(
                {"write_file"} \cup (handled \cap {"read_file"})
                               \cup IoctlAccess(abi)))
         \cup When("temp" \in c.perms, sandbox_add_landlock_temp(both))
         \cup When("ipc" \in c.perms, sandbox_add_landlock_ipc(both)), {})

-----------------------------------------------------------------------------
(* macOS: one profile that denies by default.                              *)

All == ReadAccess \cup WriteAccess(5) \cup DeleteAccess(5) \cup {"ioctl"}

sandbox_sbpl_path_rule(paths, operations) == {Rule(p, operations) : p \in paths}

(* The profile's read rules: everything, or the listed paths and what a    *)
(* program needs to start.                                                 *)
DarwinReads(c) ==
    IF c.policy /\ c.read_all
    THEN sandbox_sbpl_path_rule(Places \cup {"dev"}, ReadAccess)
    ELSE sandbox_sbpl_path_rule(IF c.policy THEN c.read ELSE c.allowed, ReadAccess)
         \cup When("exec" \in c.perms, sandbox_sbpl_path_rule(SystemPaths, ReadAccess))

(* The process's own temporary directory, from the system's configuration. *)
sandbox_sbpl_darwin_user_dir(c) ==
    When("temp" \in c.perms, sandbox_sbpl_path_rule({"tmp"},
            ReadAccess \cup WriteAccess(5) \cup DeleteAccess(5)))

(* The profile's write rules. *)
DarwinWrites(c) ==
    LET filesys == "filesys" \in c.perms
    IN IF c.policy
       THEN sandbox_sbpl_path_rule(c.write, WriteAccess(5))
            \cup sandbox_sbpl_path_rule(c.delete, DeleteAccess(5))
       ELSE When(filesys, sandbox_sbpl_path_rule(
                    IF c.allowed # {} THEN c.allowed ELSE Places,
                    WriteAccess(5) \cup DeleteAccess(5)))

(* The pseudo-terminal and IPC rules that follow. *)
DarwinDevices(c) ==
    sandbox_sbpl_path_rule({"devnull"}, {"write_file"})
    \cup When("pty" \in c.perms, sandbox_sbpl_path_rule({"pts"},
            {"read_file", "write_file", "ioctl"}))
    \cup When("ipc" \in c.perms, sandbox_sbpl_path_rule({"shm"},
            ReadAccess \cup WriteAccess(5)))

(* The profile is put together and given to the system as a whole. *)
sandbox_enter_darwin(c) ==
    [ok |-> TRUE, handled |-> All,
     rules |-> DarwinReads(c) \cup sandbox_sbpl_darwin_user_dir(c)
               \cup DarwinWrites(c) \cup DarwinDevices(c)]

-----------------------------------------------------------------------------
(* Linux: the system calls let through, by permission.                     *)

(* What every process needs to start, allocate and do its input and        *)
(* output, renameat2 included.                                             *)
BaseCalls == {"read", "write", "close", "fstat", "lseek", "mmap", "mprotect",
    "brk", "ioctl", "poll", "nanosleep", "futex", "exit_group", "pipe2",
    "openat", "newfstatat", "clock_nanosleep", "renameat2", "open", "stat"}

(* What language runtimes need, event loops and io_uring included. *)
RuntimeCalls == {"fcntl", "prlimit64", "getuid", "getcwd", "statx", "madvise",
    "pread64", "pwrite64", "memfd_create", "inotify_init1", "faccessat2",
    "epoll_create1", "epoll_ctl", "eventfd2", "timerfd_create", "signalfd4",
    "io_uring_setup", "io_uring_enter"}

NetworkCalls == {"socket", "connect", "bind", "listen", "accept", "accept4",
    "recvfrom", "sendto", "recvmsg", "sendmsg", "setsockopt", "getsockopt",
    "getsockname", "getpeername", "shutdown", "sendmmsg", "recvmmsg"}

IpcCalls == {"socketpair", "ftruncate", "unlink", "unlinkat"}

ExecCalls == {"execve", "execveat", "clone", "clone3", "wait4", "setpgid",
    "capget", "prctl", "socketpair", "chdir", "pidfd_open", "tgkill",
    "getgroups", "setgroups", "setsid", "kill", "capset", "setpriority",
    "sched_setaffinity", "sched_setscheduler"}

FilesysCalls == {"mkdir", "mkdirat", "unlink", "unlinkat", "chmod", "fchmod",
    "fchmodat", "rename", "renameat", "rmdir", "readlink", "creat", "truncate",
    "ftruncate", "fallocate", "copy_file_range", "fdatasync", "flock",
    "symlinkat"}

sandbox_apply_seccomp(perms) ==
    BaseCalls \cup RuntimeCalls
    \cup When("network" \in perms, NetworkCalls)
    \cup When("ipc" \in perms, IpcCalls)
    \cup When("exec" \in perms, ExecCalls)
    \cup When("filesys" \in perms, FilesysCalls)

(* A call outside the list kills the process, unless it may execute        *)
(* programs: then the call fails as if the kernel did not know it.         *)
DefaultAction(perms) == IF "exec" \in perms THEN "enosys" ELSE "kill"

-----------------------------------------------------------------------------
(* The child, from fork to exec.                                           *)

AllEnv == {"essential", "listed", "secret"}
Resources == {"as", "data", "cpu", "fsize", "nproc", "nofile", "core"}

SandboxInit ==
    /\ sbcfg \in Configs
    /\ kernel \in [macos : {FALSE}, abi : Kernels] \cup
                  [macos : {TRUE}, abi : {5}]
    /\ layer = "session"
    /\ env = AllEnv
    /\ limits = {}
    /\ fs = [ok |-> TRUE, handled |-> {}, rules |-> {}]
    /\ calls = {}
    /\ unmatched = "allow"

(* A new terminal session; the descriptors above stderr are closed. *)
sandbox_start_isolated_session ==
    /\ layer = "session"
    /\ layer' \in {"env", "exit"}
    /\ UNCHANGED <<sbcfg, kernel, env, limits, fs, calls, unmatched>>

(* The environment is kept as it is only for an extension with the         *)
(* environment permission and no list of names.                            *)
sandbox_apply_env ==
    /\ layer = "env"
    /\ env' = IF "env" \in EffectivePermissions(sbcfg) /\ ~sbcfg.env THEN env
              ELSE {"essential"} \cup When(sbcfg.env, {"listed"})
    /\ layer' = "rlimits"
    /\ UNCHANGED <<sbcfg, kernel, limits, fs, calls, unmatched>>

(* A limit the system refuses is logged and left; the address space is not *)
(* limited for a child that executes programs.                             *)
sandbox_apply_rlimits ==
    /\ layer = "rlimits"
    /\ \E refused \in {{}, {"nproc"}} :
          limits' = (Resources \ refused) \
                    When("exec" \in EffectivePermissions(sbcfg), {"as"})
    /\ layer' = "fs"
    /\ UNCHANGED <<sbcfg, kernel, env, fs, calls, unmatched>>

(* Without landlock, or when a rule that matters is refused, the child     *)
(* gives up.  On macOS the files are left to the profile.                  *)
EntersFilesystem ==
    /\ layer = "fs"
    /\ fs' = CASE kernel.macos -> fs
               [] kernel.abi = 0 -> [fs EXCEPT !.ok = FALSE]
               [] ~kernel.macos /\ kernel.abi > 0 ->
                    IF sbcfg.policy
                    THEN sandbox_apply_path_policy(sbcfg, kernel.abi)
                    ELSE sandbox_apply_fs(sbcfg, kernel.abi)
    /\ layer' = IF fs'.ok THEN "calls" ELSE "exit"
    /\ UNCHANGED <<sbcfg, kernel, env, limits, calls, unmatched>>

(* The system call filter, or the macOS profile; the kernel may refuse     *)
(* either.  Then the program is executed.                                  *)
sandbox_enter ==
    /\ layer = "calls"
    /\ layer' \in {"run", "exit"}
    /\ fs' = IF kernel.macos THEN sandbox_enter_darwin(sbcfg) ELSE fs
    /\ calls' = IF kernel.macos THEN {}
                ELSE sandbox_apply_seccomp(EffectivePermissions(sbcfg))
    /\ unmatched' = IF kernel.macos THEN unmatched
                    ELSE DefaultAction(EffectivePermissions(sbcfg))
    /\ UNCHANGED <<sbcfg, kernel, env, limits>>

SandboxNext ==
    \/ sandbox_start_isolated_session
    \/ sandbox_apply_env
    \/ sandbox_apply_rlimits
    \/ EntersFilesystem
    \/ sandbox_enter

-----------------------------------------------------------------------------
(* What the running program can do.                                        *)

Has(call) == kernel.macos \/ call \in calls
CanRead(p) == Lets(fs, p, "read_file")
CanWrite(p) == Lets(fs, p, "write_file")
CanDelete(p) == Lets(fs, p, "remove") /\ Has("unlink")
CanIoctl(p) == Lets(fs, p, "ioctl")

(* What docs/sandbox.md says of the configuration. *)
Open == ~sbcfg.policy /\ "filesys" \in sbcfg.perms /\ sbcfg.allowed = {}
MayRead(p) ==
    \/ sbcfg.policy /\ (sbcfg.read_all \/ p \in sbcfg.read)
    \/ ~sbcfg.policy /\ p \in sbcfg.allowed
    \/ p = "sys" /\ "exec" \in sbcfg.perms
    \/ p = "pid" /\ {"exec", "process_info"} \subseteq sbcfg.perms
MayWrite(p) ==
    \/ Open
    \/ p = "devnull"
    \/ p = "pts" /\ "pty" \in sbcfg.perms
    \/ p = "tmp" /\ "temp" \in sbcfg.perms
    \/ p = "shm" /\ "ipc" \in sbcfg.perms
    \/ IF sbcfg.policy THEN p \in sbcfg.write
       ELSE "filesys" \in sbcfg.perms /\ p \in sbcfg.allowed
MayDelete(p) ==
    \/ Open
    \/ IF sbcfg.policy THEN p \in sbcfg.delete
       ELSE "filesys" \in sbcfg.perms /\ p \in sbcfg.allowed

(* Once a program runs, both platforms and every kernel give it what the   *)
(* documentation says and nothing else: the paths it may read, write and   *)
(* (separately) delete from, device ioctls on pseudo-terminals only, the   *)
(* network and other programs only with the permission, and no environment *)
(* variable outside the list unless it asked for all of them; and no       *)
(* program runs when a layer failed.  (Deleting in the temporary and       *)
(* shared-memory directories differs and is left out: see the README.)     *)
RunsAsDocumented ==
    layer = "run" =>
        /\ fs.ok
        /\ \A p \in {"ws", "other", "sys"} \cup When(~kernel.macos, {"pid"}) :
              CanRead(p) = MayRead(p)
        /\ \A p \in {"ws", "other", "sys", "tmp", "devnull", "pts", "tty", "shm"} :
              CanWrite(p) = MayWrite(p)
        /\ \A p \in {"ws", "other", "sys"} : CanDelete(p) = MayDelete(p)
        /\ kernel.abi >= 5 => \A p \in {"pts", "tty", "other"} :
              CanIoctl(p) = (p = "pts" /\ "pty" \in sbcfg.perms)
        /\ ~kernel.macos =>
              /\ ("socket" \in calls) = ("network" \in sbcfg.perms)
              /\ ("execve" \in calls) = ("exec" \in sbcfg.perms)
              /\ unmatched # "allow"
        /\ "secret" \in env => "env" \in sbcfg.perms /\ ~sbcfg.policy /\ ~sbcfg.env

(* Where every system call of the set-up succeeds, the child of a          *)
(* configuration comes to execute its program.                             *)
SandboxStarts == kernel.abi > 0 => fs.ok
=============================================================================
