----------------------------- MODULE Extensions -----------------------------
(***************************************************************************)
(* Extensions: installing one from its repository (src/ext/install.c),     *)
(* reading its manifest (src/ext/manifest.c) and registering what the      *)
(* extensions directory holds when a runtime starts (src/runtime/          *)
(* extensions.c, src/ext/ext.c).                                           *)
(*                                                                         *)
(* One extension name, several installers (processes) at once.  A package  *)
(* is copied part by part into "<name>.tmp.<pid>" and renamed to its name; *)
(* a copy may fail and a process may die at any step.                      *)
(***************************************************************************)
EXTENDS Integers, FiniteSets

CONSTANTS
    Installers, \* processes that install the extension
    Manifests,  \* [named, numeric, paths, build, front, purpose]: manifests
                \* a package may carry
    MaxLoads    \* runtimes started

VARIABLES
    step,       \* installer -> its step in ext_install_source
    package,    \* installer -> the manifest of the package it fetched
    dirs,       \* directory -> the parts of a package it holds, or Absent
    of,         \* directory -> the manifest it was copied from
    torn,       \* directories whose copy failed or was cut short
    loads,      \* runtimes started so far
    tool        \* what the last runtime registered: [dir, perms] or NoTool

extVars == <<step, package, dirs, of, torn, loads, tool>>

Parts == {"manifest", "entry", "data"}
Absent == {"absent"}
NoManifest == [named |-> {}, numeric |-> {}, paths |-> FALSE, build |-> FALSE,
               front |-> FALSE, purpose |-> "none"]
NoTool == [dir |-> <<"none">>, perms |-> {}, paths |-> FALSE, guard |-> FALSE]
Target == <<"target">>
Tmp(p) == <<"tmp", p>>
Directories == {Target} \cup {Tmp(p) : p \in Installers}

Init ==
    /\ step = [p \in Installers |-> "idle"]
    /\ package = [p \in Installers |-> NoManifest]
    /\ dirs = [d \in Directories |-> Absent]
    /\ of = [d \in Directories |-> NoManifest]
    /\ torn = {}
    /\ loads = 0
    /\ tool = NoTool

Goes(p, s) == step' = [step EXCEPT ![p] = s]

-----------------------------------------------------------------------------
(* The manifest.                                                           *)

Capabilities == {"network", "filesystem", "exec", "environment", "pty",
                 "process_info", "ipc", "temporary_directory"}

(* Each named capability is a permission bit of the same meaning; a name   *)
(* outside the list fails the manifest.                                    *)
parse_sandbox_capabilities(m) == m.named \subseteq Capabilities

(* The file system by name requires a list of paths. *)
manifest_parse_table(m) ==
    /\ parse_sandbox_capabilities(m)
    /\ "filesystem" \in m.named => m.paths

Permissions(m) == m.numeric \cup m.named

-----------------------------------------------------------------------------
(* ext_install_source.                                                     *)

(* The source is parsed and a temporary directory made for the clone. *)
ext_source_parse(p) ==
    /\ step[p] = "idle"
    /\ Goes(p, "fetch")
    /\ UNCHANGED <<package, dirs, of, torn, loads, tool>>

(* git init, remote add, fetch, checkout, rev-parse: the first that fails  *)
(* ends the installation.                                                  *)
git_fetch_source(p) ==
    /\ step[p] = "fetch"
    /\ \/ /\ Goes(p, "manifest")
          /\ \E m \in Manifests : package' = [package EXCEPT ![p] = m]
       \/ /\ Goes(p, "clean")
          /\ UNCHANGED package
    /\ UNCHANGED <<dirs, of, torn, loads, tool>>

ReadsManifest(p) ==
    /\ step[p] = "manifest"
    /\ Goes(p, IF ~manifest_parse_table(package[p]) THEN "clean"
               ELSE IF package[p].build THEN "build" ELSE "check")
    /\ UNCHANGED <<package, dirs, of, torn, loads, tool>>

(* A build command runs only when the user agrees, and must succeed. *)
prompt_confirm(p) ==
    /\ step[p] = "build"
    /\ \E s \in {"check", "clean"} : Goes(p, s)
    /\ UNCHANGED <<package, dirs, of, torn, loads, tool>>

(* An installed extension of the name stops the installation; a directory  *)
(* left by an earlier process of the same number is removed.               *)
ChecksTarget(p) ==
    /\ step[p] = "check"
    /\ IF dirs[Target] # Absent
       THEN Goes(p, "clean") /\ UNCHANGED <<dirs, of, torn>>
       ELSE /\ Goes(p, "copy")
            /\ dirs' = [dirs EXCEPT ![Tmp(p)] = {}]
            /\ of' = [of EXCEPT ![Tmp(p)] = package[p]]
            /\ torn' = torn \ {Tmp(p)}
    /\ UNCHANGED <<package, loads, tool>>

(* One entry of the package is copied, in directory order; a failed copy   *)
(* ends the installation and leaves what was copied.                       *)
copy_tree(p) ==
    /\ step[p] = "copy"
    /\ \/ /\ \E part \in Parts \ dirs[Tmp(p)] :
                /\ dirs' = [dirs EXCEPT ![Tmp(p)] = @ \cup {part}]
                /\ Goes(p, IF dirs'[Tmp(p)] = Parts THEN "rename" ELSE "copy")
          /\ UNCHANGED torn
       \/ /\ torn' = torn \cup {Tmp(p)}
          /\ Goes(p, "clean")
          /\ UNCHANGED dirs
    /\ UNCHANGED <<package, of, loads, tool>>

(* A copy straight into the extension's own directory. *)
Renames_copying(p) ==
    /\ step[p] = "rename"
    /\ dirs' = [dirs EXCEPT ![Target] = {"manifest"}, ![Tmp(p)] = Absent]
    /\ of' = [of EXCEPT ![Target] = package[p]]
    /\ Goes(p, "clean")
    /\ UNCHANGED <<package, torn, loads, tool>>

(* The copy gets its name at once; if another process was first the rename *)
(* fails and the copy is removed.                                          *)
Renames(p) ==
    /\ step[p] = "rename"
    /\ IF dirs[Target] = Absent
       THEN /\ dirs' = [dirs EXCEPT ![Target] = dirs[Tmp(p)], ![Tmp(p)] = Absent]
            /\ of' = [of EXCEPT ![Target] = package[p], ![Tmp(p)] = NoManifest]
       ELSE /\ dirs' = [dirs EXCEPT ![Tmp(p)] = Absent]
            /\ of' = [of EXCEPT ![Tmp(p)] = NoManifest]
    /\ Goes(p, "clean")
    /\ UNCHANGED <<package, torn, loads, tool>>

(* The clone is removed and the process ends. *)
remove_tree(p) ==
    /\ step[p] = "clean"
    /\ Goes(p, "idle")
    /\ package' = [package EXCEPT ![p] = NoManifest]
    /\ UNCHANGED <<dirs, of, torn, loads, tool>>

Crashes(p) ==
    /\ step[p] \notin {"idle", "clean"}
    /\ Goes(p, "idle")
    /\ torn' = IF step[p] \in {"copy", "rename"} THEN torn \cup {Tmp(p)} ELSE torn
    /\ package' = [package EXCEPT ![p] = NoManifest]
    /\ UNCHANGED <<dirs, of, loads, tool>>

-----------------------------------------------------------------------------
(* A runtime starts.                                                       *)

(* A directory is an extension when its manifest parses and its entry is   *)
(* there and can be executed.                                              *)
ext_load(d) ==
    /\ {"manifest", "entry"} \subseteq dirs[d]
    /\ manifest_parse_table(of[d])

ext_manifest_supports_front(d) == of[d].front

(* A guardrail becomes a rule, any other extension a tool; of two of the   *)
(* same name the one listed first is registered.  The order is the file    *)
(* system's.                                                               *)
runtime_extensions_load ==
    /\ loads < MaxLoads
    /\ loads' = loads + 1
    /\ LET found == {d \in Directories : dirs[d] # Absent /\ ext_load(d)
                                          /\ ext_manifest_supports_front(d)}
       IN IF found = {} THEN tool' = NoTool
          ELSE \E d \in found :
                 tool' = [dir |-> d, perms |-> Permissions(of[d]),
                          paths |-> of[d].paths,
                          guard |-> of[d].purpose = "guardrail"]
    /\ UNCHANGED <<step, package, dirs, of, torn>>

ExtNext ==
    \/ runtime_extensions_load
    \/ \E p \in Installers :
        \/ ext_source_parse(p) \/ git_fetch_source(p) \/ ReadsManifest(p)
        \/ prompt_confirm(p) \/ ChecksTarget(p) \/ copy_tree(p) \/ Renames(p)
        \/ remove_tree(p) \/ Crashes(p)

-----------------------------------------------------------------------------
(* Whatever installers race, fail or die, the extension's own directory    *)
(* holds one whole package with a valid manifest or does not exist, never  *)
(* a part or a mixture; what a runtime registers lacks a part only when it *)
(* was found in a directory an interrupted copy left or a copy was still   *)
(* filling; and an extension that asks for the file system by name never   *)
(* runs with writes open to every path.                                    *)
InstalledWhole ==
    /\ dirs[Target] # Absent =>
          dirs[Target] = Parts /\ manifest_parse_table(of[Target])
    /\ tool # NoTool /\ tool.dir = Target => dirs[Target] = Parts
    /\ \A p \in Installers : dirs[Tmp(p)] # Absent =>
          Tmp(p) \in torn \/ step[p] \in {"copy", "rename"}
    /\ "filesystem" \in tool.perms => tool.paths
=============================================================================
