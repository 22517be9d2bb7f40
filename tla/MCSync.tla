------------------------------- MODULE MCSync -------------------------------
(***************************************************************************)
(* What is kept, each part on its own: a behaviour follows the file pass   *)
(* of sync over one file, the database backups, one database replacement,  *)
(* or what three sessions of two users remember.                           *)
(***************************************************************************)
EXTENDS DbReplace, Sequences

CONSTANTS Retention, MaxTime, MaxWrites, Deletes

VARIABLES
  which,
  local, remote, manifest, trash, trash_rows, pass, conflicts, edits, forgiven, quiet,
  clock, content, writes, objects, versions, cursor, stored_at, proc, raced,
  present, items, last_item, memory_scopes, memory_preferences, memory_facts, memory_profiles,
  memory_candidates, accepted, ticks

InSkills(b) == b = "skill"
EndsInDb(b) == b = "data.db"
EditsOf(b) == IF b = "data.db" THEN 3 ELSE 2
CopiesOf(b) == IF b = "config" THEN 2 ELSE 1
File(b) == INSTANCE FileSync WITH Bases <- {b}, InDirectory <- InSkills, IsDb <- EndsInDb,
                                  Copies <- CopiesOf(b), MaxEdits <- EditsOf(b)

Self(p) == p
Chunked(d) == IF d = 1 THEN {"s"} ELSE {"b", "s"}
Undivided(d) == IF d = 1 THEN 2 ELSE 0
Backup == INSTANCE DbBackup WITH Procs <- {1, 2}, Device <- Self, Databases <- {1, 2}, NoDb <- 0,
                                 ChunksOf <- Chunked, LegacyOf <- Undivided, Ids <- {1, 2}

\* A standing wish, one beside a fact and a detail, and a question that gives a name.
Said == {<<{"standing", "directive", "Chinese"}>>,
         <<{"standing", "directive", "Chinese"}, {"directive", "English", "concise", "Oslo"}>>,
         <<{"name", "standing", "question"}, {"Rome"}>>}
Ordered == {[scope |-> "personal", key |-> "language", value |-> "en"],
            [scope |-> "session", key |-> "language", value |-> "unset"],
            [scope |-> "project", key |-> "style", value |-> "detailed"]}
Older == {[session |-> 1, key |-> "preferred_language", value |-> "English",
           source |-> <<{"standing", "directive", "English"}>>],
          [session |-> 1, key |-> "preferred_name", value |-> "Al", source |-> <<{}>>]}
Pref == INSTANCE Preferences WITH
  Sessions <- {1, 2, 3}, Owner <- <<"local", "local", "u2">>, Project <- <<"p", "p", "p">>,
  Strangers <- {"local", "u2"}, Texts <- Said, Settings <- Ordered, Legacy <- Older,
  MaxItems <- 2, MaxEvents <- 3, MaxRevisions <- 3, MaxFacts <- 4, Extracted <- {1},
  clock <- ticks

Kinds == {"config", "data.db", "skill"}
file == <<local, remote, manifest, trash, trash_rows, pass, conflicts, edits, forgiven, quiet>>
backup == <<clock, content, writes, objects, versions, cursor, stored_at, proc, raced>>
prefs == <<present, items, last_item, memory_scopes, memory_preferences, memory_facts,
           memory_profiles, memory_candidates, accepted, ticks>>

\* The parts that are not followed rest in one of their initial states.
SyncInit ==
  /\ which \in Kinds \cup {"backup", "replace", "prefs"}
  /\ \E b \in Kinds : (which \in Kinds => b = which) /\ (which \notin Kinds => b = "config")
                      /\ File(b)!Init
  /\ Backup!Init /\ content = [d \in {1, 2} |-> d]
  /\ Init /\ (which # "replace" => main /\ haswal)
  /\ Pref!PrefInit

SyncNext ==
  /\ UNCHANGED which
  /\ \/ \E b \in Kinds : which = b /\ File(b)!Next /\ UNCHANGED <<vars, backup, prefs>>
     \/ which = "backup" /\ Backup!Next /\ UNCHANGED <<vars, file, prefs>>
     \/ which = "replace" /\ Next /\ UNCHANGED <<file, backup, prefs>>
     \/ which = "prefs" /\ Pref!PrefNext /\ UNCHANGED <<vars, file, backup>>

SyncSpec == SyncInit /\ [][SyncNext]_<<which, vars, file, backup, prefs>>

\* Sync loses no edit (FileSync).
NothingLost == \A b \in Kinds : which = b => File(b)!NothingLost

\* Sync comes to rest after a pass that nothing disturbed (FileSync).
ComesToRest == [][\A b \in Kinds : which = b => File(b)!RestsInStep]_file

\* Every stored version can be restored, and the content a device last stored has
\* one (DbBackup).
VersionsRestorable == which = "backup" => Backup!VersionsRestorable /\ Backup!CursorHasVersion

\* What is remembered is what was said and ordered, for those it is meant for
\* (Preferences).
MemoryFaithful == which = "prefs" => Pref!MemoryFaithful

\* The memory alone, with sessions that are deleted.
PrefSpec ==
  SyncInit /\ which = "prefs" /\ [][SyncNext /\ which = "prefs"]_<<which, vars, file, backup, prefs>>

\* docs/memory-preferences.md: "The newest revision of a key replaces the previous
\* revision within its scope."  Violated: the order of a command's revision is
\* taken from the rows of the history, which go with their session.
NewestRevisionReplaces == Pref!NewestRevisionReplaces
============================================================================
