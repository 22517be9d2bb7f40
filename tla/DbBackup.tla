------------------------------ MODULE DbBackup ------------------------------
(***************************************************************************)
(* Database backups (src/sync/db_backup.c up to restore_rel_valid): a      *)
(* database is stored as a manifest over chunks that are named by their    *)
(* hash and shared between versions; old versions are removed and chunks   *)
(* no version uses are collected; a version is restored chunk by chunk.    *)
(*                                                                         *)
(* Passes run in any number of processes: the sync worker, "/sync now" and *)
(* the preparation of a replacement on one device, and other devices, on   *)
(* one store.  A hash is its data.  One database is followed; another has  *)
(* its own key, and shares only chunks.                                    *)
(***************************************************************************)
EXTENDS Integers, FiniteSets

CONSTANTS
  Procs,        \* the processes or threads that run passes
  Device(_),    \* the device of a process
  Databases,    \* contents of the database
  ChunksOf(_),  \* the chunks of a content
  NoDb,         \* no content
  LegacyOf(_),  \* the conflict copy beside the database of a device, or NoDb
  Retention,    \* retention_days, in ticks
  MaxTime,      \* bound on the clock
  MaxWrites,    \* bound on the writes
  Ids           \* random ids of versions, and how they compare

VARIABLES
  clock,
  content,      \* device -> its database now
  writes,
  objects,      \* chunk -> the time it was stored, -1 if it is not there
  versions,     \* the manifests
  cursor,       \* device -> the content it last stored
  stored_at,    \* history: device -> when that version was made
  proc,         \* process -> its pass
  raced         \* history: a clean-up overlapped the making of a version

vars == <<clock, content, writes, objects, versions, cursor, stored_at, proc, raced>>

Devices == {Device(p) : p \in Procs}
Chunks == UNION {ChunksOf(d) : d \in Databases}
Here == {c \in Chunks : objects[c] # -1}

Idle == [pc |-> "idle", data |-> NoDb, copy |-> FALSE, todo |-> {}, live |-> {}, seen |-> {},
         at |-> 0]

Init ==
  /\ clock = 0 /\ writes = 0 /\ content \in [Devices -> Databases]
  /\ objects = [c \in Chunks |-> -1] /\ versions = {}
  /\ cursor = [d \in Devices |-> NoDb] /\ stored_at = [d \in Devices |-> 0]
  /\ proc = [p \in Procs |-> Idle] /\ raced = FALSE

Store == <<objects, versions>>
World == <<clock, content, writes>>
Cursor == <<cursor, stored_at>>
Pc(p, pc) == proc' = [proc EXCEPT ![p].pc = pc]

Making == {p \in Procs : proc[p].pc \in {"chunks", "manifest"}}
Cleaning == {p \in Procs : proc[p].pc \in {"expire", "live", "collect"}}

----------------------------------------------------------------------------
(* db_backup_create_one. *)

\* A consistent copy of the database, as it is when the copy is made.
sqlite_snapshot(d) == content[d]

\* The copy is checked and hashed; nothing is stored if the cursor of the device has
\* this content already.
Snapshot(p) ==
  LET d == Device(p) IN
  /\ proc[p].pc = "idle"
  /\ IF cursor[d] = sqlite_snapshot(d) THEN Pc(p, "copies") /\ UNCHANGED raced
     ELSE /\ proc' = [proc EXCEPT ![p] = [Idle EXCEPT !.pc = "chunks", !.data = sqlite_snapshot(d),
                                                      !.todo = ChunksOf(sqlite_snapshot(d))]]
          /\ raced' = (raced \/ Cleaning # {})
  /\ UNCHANGED <<World, Store, Cursor>>

\* A chunk is uploaded unless there is an object of its name.
PutChunk(p) ==
  /\ proc[p].pc = "chunks" /\ proc[p].todo # {}
  /\ \E c \in proc[p].todo :
       /\ objects' = IF c \in Here THEN objects ELSE [objects EXCEPT ![c] = clock]
       /\ proc' = [proc EXCEPT ![p].todo = @ \ {c}]
  /\ UNCHANGED <<World, versions, Cursor, raced>>

\* The manifest is stored after all chunks.  The version of a conflict copy has the
\* hash for an id, which sorts before every random one.
PutManifest(p) ==
  LET d == Device(p) IN
  /\ proc[p].pc = "chunks" /\ proc[p].todo = {}
  /\ \E id \in IF proc[p].copy THEN {0} ELSE Ids \ {v.id : v \in versions} :
       versions' = versions \cup {[dev |-> d, data |-> proc[p].data, id |-> id, at |-> clock]}
  /\ proc' = [proc EXCEPT ![p].pc = IF proc[p].copy THEN "clean" ELSE "manifest", ![p].at = clock]
  /\ UNCHANGED <<World, objects, Cursor, raced>>

\* db_cursor_put.
PutCursor(p) ==
  LET d == Device(p) IN
  /\ proc[p].pc = "manifest"
  /\ cursor' = [cursor EXCEPT ![d] = proc[p].data]
  /\ stored_at' = [stored_at EXCEPT ![d] = proc[p].at]
  /\ Pc(p, "copies")
  /\ UNCHANGED <<World, Store, raced>>

\* sync_db_backup_create stores the conflict copies it finds too, once each.
Copies(p) ==
  LET d == Device(p)
      known == \E v \in versions : v.dev = d /\ v.id = 0 /\ v.data = LegacyOf(d)
  IN
  /\ proc[p].pc = "copies"
  /\ IF LegacyOf(d) = NoDb \/ known THEN Pc(p, "clean") /\ UNCHANGED raced
     ELSE /\ proc' = [proc EXCEPT ![p] = [Idle EXCEPT !.pc = "chunks", !.copy = TRUE,
                                           !.data = LegacyOf(d), !.todo = ChunksOf(LegacyOf(d))]]
          /\ raced' = (raced \/ Cleaning # {})
  /\ UNCHANGED <<World, Store, Cursor>>

----------------------------------------------------------------------------
(* sync_db_backup_cleanup. *)

\* retention_collect.
Collect(p) ==
  /\ proc[p].pc = "clean"
  /\ proc' = [proc EXCEPT ![p] = [Idle EXCEPT !.pc = "expire", !.seen = versions]]
  /\ raced' = (raced \/ Making # {})
  /\ UNCHANGED <<World, Store, Cursor>>

Later(v, w) == v.at > w.at \/ (v.at = w.at /\ v.id > w.id)

snapshot_is_latest(v, all) == \A w \in all : w.dev = v.dev => ~Later(w, v)

Cutoff == clock - Retention

\* Old versions that are not the latest of their device are removed, one by one.
Expire(p) ==
  /\ proc[p].pc = "expire"
  /\ LET old == {v \in proc[p].seen : v.at < Cutoff /\ ~snapshot_is_latest(v, proc[p].seen)} IN
       IF old = {} THEN Pc(p, "live") /\ UNCHANGED versions
       ELSE \E v \in old : /\ versions' = versions \ {v}
                           /\ proc' = [proc EXCEPT ![p].seen = @ \ {v}]
  /\ UNCHANGED <<World, objects, Cursor, raced>>

\* live_chunks_add reads the manifests that were kept again; one that has gone since
\* ends the clean-up.
Live(p) ==
  /\ proc[p].pc = "live"
  /\ IF proc[p].seen \subseteq versions
     THEN proc' = [proc EXCEPT ![p].pc = "collect",
                     ![p].live = UNION {ChunksOf(v.data) : v \in proc[p].seen}]
     ELSE proc' = [proc EXCEPT ![p] = Idle]
  /\ UNCHANGED <<World, Store, Cursor, raced>>

\* Mutant: an object is collected by its age alone.
CollectObject_age(p) ==
  /\ proc[p].pc = "collect"
  /\ LET dead == {c \in Here : objects[c] < Cutoff} IN
       IF dead = {} THEN proc' = [proc EXCEPT ![p] = Idle] /\ UNCHANGED objects
       ELSE \E c \in dead : objects' = [objects EXCEPT ![c] = -1] /\ UNCHANGED proc
  /\ UNCHANGED <<World, versions, Cursor, raced>>

\* object_gc_one, for the objects in turn.
CollectObject(p) ==
  /\ proc[p].pc = "collect"
  /\ LET dead == {c \in Here \ proc[p].live : objects[c] < Cutoff} IN
       IF dead = {} THEN proc' = [proc EXCEPT ![p] = Idle] /\ UNCHANGED objects
       ELSE \E c \in dead : objects' = [objects EXCEPT ![c] = -1] /\ UNCHANGED proc
  /\ UNCHANGED <<World, versions, Cursor, raced>>

----------------------------------------------------------------------------
(* The world. *)

\* The program writes to its database.
Write(d) ==
  /\ writes < MaxWrites /\ writes' = writes + 1
  /\ content' = [content EXCEPT ![d] = CHOOSE x \in Databases : x # content[d]]
  /\ UNCHANGED <<clock, Store, Cursor, proc, raced>>

Tick ==
  /\ clock < MaxTime /\ clock' = clock + 1
  /\ UNCHANGED <<content, writes, Store, Cursor, proc, raced>>

\* The process dies, or an operation on the store fails and ends the pass.
Stop(p) ==
  /\ proc[p].pc # "idle"
  /\ proc' = [proc EXCEPT ![p] = Idle]
  /\ UNCHANGED <<World, Store, Cursor, raced>>

Pass(p) ==
  \/ Snapshot(p) \/ PutChunk(p) \/ PutManifest(p) \/ PutCursor(p) \/ Copies(p)
  \/ Collect(p) \/ Expire(p) \/ Live(p) \/ CollectObject(p) \/ Stop(p)

Next ==
  \/ \E p \in Procs : Pass(p)
  \/ Tick
  \/ \E d \in Devices : Write(d)

Spec == Init /\ [][Next]_vars
----------------------------------------------------------------------------
\* morph_sync_restore_db fetches the chunks, compares each with its name and the whole
\* with the hash in the manifest, and publishes the file only then: it succeeds when
\* every chunk is there.
Restorable(v) == ChunksOf(v.data) \subseteq Here

\* Every version in the store can be restored, whatever versions were made, expired
\* and collected before, and wherever passes died, as long as no clean-up overlapped
\* the making of a version.
VersionsRestorable == raced \/ \A v \in versions : Restorable(v)

\* A device stores its database again only when the content differs from its cursor,
\* so that the content of the cursor must have a version.  It has one, unless the
\* device has a version of other content made later, or in the same second (whose
\* random id decides): retention keeps that one instead.
CursorHasVersion ==
  \A d \in Devices : cursor[d] # NoDb =>
    \/ \E v \in versions : v.dev = d /\ v.data = cursor[d]
    \/ \E v \in versions : v.dev = d /\ v.at >= stored_at[d]
============================================================================
