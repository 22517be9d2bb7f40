----------------------------- MODULE DbReplace -----------------------------
(***************************************************************************)
(* Replacing a database by a backup (src/sync/db_backup.c from             *)
(* restore_plan_valid on, src/sapi/cli/commands/sync.c, src/sapi/cli/      *)
(* main.c, src/runtime/lifecycle.c): the plan is prepared while the        *)
(* program runs, applied between its shutdown and its restart, and undone  *)
(* or finished by the restart.  Files are renamed one by one and a journal *)
(* says how far this has come; the program may die between any two steps.  *)
(* The file "-shm" is moved right after "-wal" and is not kept apart.      *)
(***************************************************************************)
EXTENDS Integers

CONSTANTS
  AnyCrash,     \* also die, or fail, where a half-done rollback cannot be resumed
  MaxPlans      \* bound on the plans prepared

VARIABLES
  target, twal,       \* the database file and its write-ahead log
  rollback, rwal,     \* the ones moved aside
  staging,            \* the backup to be put in place
  journal,            \* the phase in the journal, or "none"
  main,               \* the database is the program's own
  haswal,             \* the first database has transactions in its log
  pc,                 \* what the program does
  ret,                \* where a rollback returns to
  plans,              \* the plans prepared; each backup is named by its number
  saved               \* history: the database when the plan was prepared

files == <<target, twal, rollback, rwal, staging>>
vars == <<files, journal, main, haswal, pc, ret, plans, saved>>
still == <<main, haswal>>

NoFile == -1
Empty == -2
Torn == -3

\* The program is about to start, and no plan is under way.
Init ==
  /\ main \in BOOLEAN
  /\ target \in {0, NoFile} /\ (main => target = 0) /\ haswal \in {target = 0, FALSE}
  /\ twal = (IF haswal THEN 0 ELSE NoFile)
  /\ rollback = NoFile /\ rwal = NoFile /\ staging = NoFile /\ journal = "none"
  /\ pc = "start" /\ ret = "dead" /\ plans = 0 /\ saved = target

At(p) == pc = p
Goto(p) == pc' = p

\* The journal is written to a file of its own, synced and renamed into place.
restore_journal_write(phase) == journal' = phase

----------------------------------------------------------------------------
(* morph_sync_prepare_db_replace, and the user's answer. *)

\* The backup was restored into the staging file; a failure leaves nothing behind.
\* Plans have files of their own, and one is followed at a time.
Prepare ==
  /\ At("up") /\ plans < MaxPlans /\ journal = "none"
  /\ plans' = plans + 1 /\ saved' = target
  /\ \/ staging' = plans + 1 /\ restore_journal_write("prepared") /\ Goto("confirm")
     \/ UNCHANGED <<staging, journal, pc>>
  /\ UNCHANGED <<target, twal, rollback, rwal, still, ret>>

\* sync_cmd_replace_db: yes shuts the program down, no rolls the plan back.
Confirm ==
  /\ At("confirm")
  /\ \/ Goto("apply") /\ UNCHANGED ret
     \/ Goto("rb_check") /\ ret' = "up"
  /\ UNCHANGED <<files, journal, still, plans, saved>>

----------------------------------------------------------------------------
(* morph_sync_apply_db_replace. *)

\* Mutant: the journal says "applied" before the database is in place.
ApplyBegins_early ==
  /\ At("apply")
  /\ \/ staging # NoFile /\ restore_journal_write("applied") /\ Goto("move")
     \/ Goto("start") /\ UNCHANGED journal
  /\ UNCHANGED <<files, still, ret, plans, saved>>

\* The staging file is checked and the journal says "applying".
ApplyBegins ==
  /\ At("apply")
  /\ \/ staging # NoFile /\ restore_journal_write("applying") /\ Goto("move")
     \/ Goto("start") /\ UNCHANGED journal
  /\ UNCHANGED <<files, still, ret, plans, saved>>

\* The database is moved aside; a failure leaves it.
MoveAside ==
  /\ At("move")
  /\ \/ target = NoFile /\ Goto("place") /\ UNCHANGED files
     \/ /\ target # NoFile
        /\ rollback' = target /\ target' = NoFile /\ Goto("move_wal")
        /\ UNCHANGED <<twal, rwal, staging>>
     \/ target # NoFile /\ Goto("start") /\ UNCHANGED files
  /\ UNCHANGED <<journal, still, ret, plans, saved>>

MoveWal ==
  /\ At("move_wal")
  /\ \/ /\ rwal' = (IF twal = NoFile THEN rwal ELSE twal) /\ twal' = NoFile
        /\ Goto("place") /\ UNCHANGED <<target, rollback, staging>>
     \/ Goto("back") /\ UNCHANGED files
  /\ UNCHANGED <<journal, still, ret, plans, saved>>

Place ==
  /\ At("place")
  /\ \/ target' = staging /\ staging' = NoFile /\ Goto("mark") /\ UNCHANGED <<twal, rollback, rwal>>
     \/ Goto(IF rollback = NoFile THEN "start" ELSE "back") /\ UNCHANGED files
  /\ UNCHANGED <<journal, still, ret, plans, saved>>

\* What was moved aside is moved back, its log after it.
MoveBack ==
  /\ At("back") /\ target' = rollback /\ rollback' = NoFile /\ Goto("back_wal")
  /\ UNCHANGED <<twal, rwal, staging, journal, still, ret, plans, saved>>

MoveBackWal ==
  /\ At("back_wal")
  /\ twal' = (IF rwal = NoFile THEN twal ELSE rwal) /\ rwal' = NoFile /\ Goto("start")
  /\ UNCHANGED <<target, rollback, staging, journal, still, ret, plans, saved>>

\* The journal says "applied".  A write that fails may have had its effect.
Mark ==
  /\ At("mark")
  /\ \/ restore_journal_write("applied") /\ Goto("start") /\ UNCHANGED ret
     \/ journal' \in {"applying", "applied"} /\ Goto("rb_check") /\ ret' = "start"
  /\ UNCHANGED <<files, still, plans, saved>>

----------------------------------------------------------------------------
(* morph_sync_rollback_db_replace. *)

RbCheck ==
  /\ At("rb_check")
  /\ IF rollback # NoFile
     THEN target' = NoFile /\ Goto("rb_rename")
     ELSE UNCHANGED target /\ Goto("rb_staging")
  /\ UNCHANGED <<twal, rollback, rwal, staging, journal, still, ret, plans, saved>>

RbRename ==
  /\ At("rb_rename") /\ target' = rollback /\ rollback' = NoFile /\ Goto("rb_wal")
  /\ UNCHANGED <<twal, rwal, staging, journal, still, ret, plans, saved>>

RbWal ==
  /\ At("rb_wal")
  /\ twal' = (IF rwal = NoFile THEN twal ELSE rwal) /\ rwal' = NoFile /\ Goto("rb_staging")
  /\ UNCHANGED <<target, rollback, staging, journal, still, ret, plans, saved>>

RbStaging ==
  /\ At("rb_staging") /\ staging' = NoFile /\ Goto("rb_journal")
  /\ UNCHANGED <<target, twal, rollback, rwal, journal, still, ret, plans, saved>>

RbJournal ==
  /\ At("rb_journal") /\ journal' = "none" /\ Goto(ret)
  /\ UNCHANGED <<files, still, ret, plans, saved>>

----------------------------------------------------------------------------
(* Starting: runtime_open. *)

\* morph_sync_recover_db_replacements rolls back every plan that is not applied.
Recover ==
  /\ At("start")
  /\ IF journal \in {"none", "applied"} THEN Goto("open") /\ UNCHANGED ret
     ELSE Goto("rb_check") /\ ret' = "open"
  /\ UNCHANGED <<files, journal, still, plans, saved>>

\* db_open creates a database where there is none.
Open ==
  /\ At("open")
  /\ target' = (IF target = NoFile /\ main THEN Empty ELSE target)
  /\ Goto("components")
  /\ UNCHANGED <<twal, rollback, rwal, staging, journal, still, ret, plans, saved>>

\* The components start, or the start fails: main.c rolls back if a database was
\* moved aside, and starts again or gives up.
Components ==
  /\ At("components")
  /\ \/ Goto("finalize") /\ UNCHANGED ret
     \/ IF rollback # NoFile THEN Goto("rb_check") /\ ret' = "start" ELSE Goto("dead") /\ UNCHANGED ret
  /\ UNCHANGED <<files, journal, still, plans, saved>>

\* morph_sync_finalize_db_replacements: an applied plan is committed file by file,
\* the journal last; a failure is left to the next start.
Finalize ==
  /\ At("finalize")
  /\ IF journal # "applied" THEN Goto("up") /\ UNCHANGED <<files, journal>>
     ELSE \/ /\ rollback # NoFile /\ rollback' = NoFile
             /\ UNCHANGED <<target, twal, rwal, staging, journal, pc>>
          \/ /\ rollback = NoFile /\ rwal # NoFile /\ rwal' = NoFile
             /\ UNCHANGED <<target, twal, rollback, staging, journal, pc>>
          \/ /\ rollback = NoFile /\ rwal = NoFile
             /\ staging' = NoFile /\ journal' = "none" /\ Goto("up")
             /\ UNCHANGED <<target, twal, rollback, rwal>>
          \/ Goto("up") /\ UNCHANGED <<files, journal>>
  /\ UNCHANGED <<still, ret, plans, saved>>

----------------------------------------------------------------------------
\* The places where dying is not survived: an applied plan is being rolled back and
\* its database is gone already, or a database is back and its log is not.
Fragile ==
  \/ pc = "rb_rename" /\ journal = "applied"
  \/ pc \in {"rb_wal", "back_wal"} /\ rwal # NoFile

Crash ==
  /\ pc # "dead" /\ (Fragile => AnyCrash)
  /\ Goto("dead")
  /\ UNCHANGED <<files, journal, still, ret, plans, saved>>

Restart == At("dead") /\ Goto("start") /\ UNCHANGED <<files, journal, still, ret, plans, saved>>

Next ==
  \/ Prepare \/ Confirm \/ ApplyBegins \/ MoveAside \/ MoveWal \/ Place \/ MoveBack \/ MoveBackWal
  \/ Mark \/ RbCheck \/ RbRename \/ RbWal \/ RbStaging \/ RbJournal
  \/ Recover \/ Open \/ Components \/ Finalize \/ Crash \/ Restart

Spec == Init /\ [][Next]_vars
----------------------------------------------------------------------------
(* The database a start would find: the one moved aside as long as the      *)
(* journal does not say "applied".                                          *)

Whole(file, log) == IF file = 0 /\ haswal /\ log = NoFile THEN Torn ELSE file

Found ==
  IF pc \in {"rb_rename", "rb_wal", "back_wal"}
  THEN IF pc = "rb_rename" THEN rollback ELSE target
  ELSE IF rollback # NoFile /\ journal # "applied"
  THEN Whole(rollback, IF rwal = NoFile THEN twal ELSE rwal)
  ELSE Whole(target, twal)

A == INSTANCE AtomicReplace WITH db <- Found, plan <- plans, settled <- (journal = "none")

\* Replacing is atomic: however the steps of a plan, of its rollback, of a restart and
\* of deaths in between interleave, the program finds the database there was or the
\* whole backup, changes over once, and never back once the plan is settled.
ReplaceIsAtomic == A!Spec
============================================================================
