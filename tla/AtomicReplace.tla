--------------------------- MODULE AtomicReplace ---------------------------
(***************************************************************************)
(* What replacing the database by a backup promises: the database is the   *)
(* one there was or the backup of the plan, and never anything in between; *)
(* it becomes the backup in one step; the step may be undone only until    *)
(* the plan is settled, and what comes back is what there was.             *)
(***************************************************************************)
EXTENDS Integers

VARIABLES
  db,       \* the database: the version of a plan, 0, or NoFile
  saved,    \* the one there was when the plan was prepared
  plan,     \* the version of the last plan
  settled   \* no plan is under way

NoFile == -1

Init == db \in {0, NoFile} /\ saved = db /\ plan = 0 /\ settled = TRUE

Prepare ==
  /\ settled /\ plan' = plan + 1 /\ saved' = db
  /\ settled' \in BOOLEAN /\ UNCHANGED db

Replace == ~settled /\ db = saved /\ db' = plan /\ UNCHANGED <<saved, plan, settled>>

Undo == ~settled /\ db = plan /\ db' = saved /\ UNCHANGED <<saved, plan, settled>>

Settle == ~settled /\ settled' = TRUE /\ UNCHANGED <<db, saved, plan>>

Spec == Init /\ [][Prepare \/ Replace \/ Undo \/ Settle]_<<db, saved, plan, settled>>
============================================================================
