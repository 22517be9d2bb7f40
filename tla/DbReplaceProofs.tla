-------------------------- MODULE DbReplaceProofs --------------------------
(***************************************************************************)
(* Replacing a database implements an atomic replacement, for every number *)
(* of plans: the steps of the plan, of its rollback and of the restart are *)
(* steps of AtomicReplace or change nothing that it sees.                  *)
(***************************************************************************)
EXTENDS DbReplace, TLAPS

\* The write-ahead log that belongs to a database file.
LogOf(f) == IF f = 0 /\ haswal = TRUE THEN 0 ELSE NoFile

\* The database is in place, with its log, and nothing is aside.
Placed(f) == target = f /\ twal = LogOf(f) /\ rollback = NoFile /\ rwal = NoFile

\* The log of the old database is where it was, or aside.
LogKept ==
  \/ twal = LogOf(saved) /\ rwal = NoFile
  \/ twal = NoFile /\ rwal = LogOf(saved)

\* The old database is aside; the backup has its place or nothing has.
Aside == rollback = saved /\ saved # NoFile /\ target \in {NoFile, plans} /\ LogKept
Replaced == Aside /\ target = plans /\ twal = NoFile

\* There was no database, and the backup has been put in place.
Created == saved = NoFile /\ Placed(plans)

\* The old database is back in place, its log perhaps not.
Half == target = saved /\ saved # NoFile /\ rollback = NoFile /\ LogKept

\* The backup is in place and the old database is being removed.
Committed == target = plans /\ twal = NoFile /\ rollback = NoFile /\ rwal \in {NoFile, LogOf(saved)}

Between == {"start", "open", "components", "finalize", "up", "dead"}

\* What the files hold, by what the journal says and where the program is.
NoneInv == journal = "none" => pc \in Between /\ Placed(target)

PreparedInv == journal = "prepared" =>
  /\ pc \in {"confirm", "apply", "start", "dead", "rb_check", "rb_staging", "rb_journal"}
  /\ Placed(saved)
  /\ pc \in {"confirm", "apply"} => staging = plans

ApplyingInv == journal = "applying" =>
  /\ pc \in {"move", "move_wal", "place", "mark", "back", "back_wal", "start", "dead",
             "rb_check", "rb_rename", "rb_wal", "rb_staging", "rb_journal"}
  /\ pc = "move" => Placed(saved)
  /\ pc = "move_wal" => Aside /\ target = NoFile /\ rwal = NoFile
  /\ pc = "place" => target = NoFile /\ twal = NoFile /\ (Aside \/ Placed(saved))
  /\ pc = "mark" => Replaced \/ Created
  /\ pc \in {"back", "rb_rename"} => Aside /\ target = NoFile
  /\ pc \in {"back_wal", "rb_wal"} => Half
  /\ pc \in {"start", "dead", "rb_check"} => Placed(saved) \/ Aside \/ Created
  /\ pc \in {"rb_staging", "rb_journal"} => Placed(saved) \/ Created
  /\ pc \in {"move", "move_wal", "place"} => staging = plans

AppliedInv == journal = "applied" =>
  /\ pc \in Between \cup {"rb_check", "rb_rename", "rb_wal", "rb_staging", "rb_journal"}
  /\ pc \in Between => Placed(saved) \/ Replaced \/ Committed
  /\ pc = "rb_check" => Replaced \/ Created
  /\ pc = "rb_rename" => Aside /\ target = NoFile
  /\ pc = "rb_wal" => Half
  /\ pc \in {"rb_staging", "rb_journal"} => Placed(saved) \/ Created

\* The numbers of the plans, and the program's own database is never missing.
Numbers ==
  /\ plans \in Nat /\ saved \in Nat \cup {NoFile} /\ target \in Nat \cup {NoFile}
  /\ journal \in {"none", "prepared", "applying", "applied"}
  /\ journal # "none" => plans > 0 /\ saved < plans
  /\ journal = "none" => target <= plans
  /\ main = TRUE => saved # NoFile /\ (journal = "none" => target # NoFile)
  /\ ret \in {"dead", "up", "start", "open"}

IInv == Numbers /\ NoneInv /\ PreparedInv /\ ApplyingInv /\ AppliedInv

\* No plan is under way when the program is first started.
LEMMA InitIInv == ASSUME Init PROVE IInv
<1>1. haswal = TRUE => target = 0 BY DEF Init, NoFile
<1>2. twal = LogOf(target) BY <1>1 DEF Init, LogOf, NoFile
<1>3. main = TRUE => target = 0 BY DEF Init
<1> QED BY <1>2, <1>3 DEF Init, IInv, Numbers, NoneInv, PreparedInv, ApplyingInv, AppliedInv,
      Between, LogOf, Placed, LogKept, Aside,
      Replaced, Created, Half, Committed, NoFile, At, Goto, files, still

\* Every step keeps the files in a state that a start knows how to finish or undo.
LEMMA StepIInv == ASSUME AnyCrash = FALSE, IInv, [Next]_vars PROVE IInv'
<1> USE DEF IInv, Numbers, NoneInv, PreparedInv, ApplyingInv, AppliedInv, Between, LogOf, Placed,
      LogKept, Aside,
      Replaced, Created, Half, Committed, NoFile, At, Goto, files, still
<1>1. CASE Prepare BY <1>1, SMTT(30) DEF Prepare, restore_journal_write
<1>2. CASE Confirm BY <1>2, SMTT(30) DEF Confirm
<1>3. CASE ApplyBegins BY <1>3, SMTT(30) DEF ApplyBegins, restore_journal_write
<1>4. CASE MoveAside BY <1>4, SMTT(30) DEF MoveAside
<1>5. CASE MoveWal BY <1>5, SMTT(30) DEF MoveWal
<1>6. CASE Place BY <1>6, SMTT(30) DEF Place
<1>7. CASE MoveBack BY <1>7, SMTT(30) DEF MoveBack
<1>8. CASE MoveBackWal BY <1>8, SMTT(30) DEF MoveBackWal
<1>9. CASE Mark BY <1>9, SMTT(30) DEF Mark, restore_journal_write
<1>10. CASE RbCheck BY <1>10, SMTT(30) DEF RbCheck
<1>11. CASE RbRename BY <1>11, SMTT(30) DEF RbRename
<1>12. CASE RbWal BY <1>12, SMTT(30) DEF RbWal
<1>13. CASE RbStaging BY <1>13, SMTT(30) DEF RbStaging
<1>14. CASE RbJournal BY <1>14, SMTT(30) DEF RbJournal
<1>15. CASE Recover BY <1>15, SMTT(30) DEF Recover
<1>16. CASE Open BY <1>16, SMTT(30) DEF Open
<1>17. CASE Components BY <1>17, SMTT(30) DEF Components
<1>18. CASE Finalize BY <1>18, SMTT(30) DEF Finalize
<1>19. CASE Crash BY <1>19, SMTT(30) DEF Crash, Fragile
<1>20. CASE Restart BY <1>20, SMTT(30) DEF Restart
<1>21. CASE UNCHANGED vars BY <1>21, SMTT(30) DEF vars
<1> QED BY <1>1, <1>2, <1>3, <1>4, <1>5, <1>6, <1>7, <1>8, <1>9, <1>10, <1>11, <1>12, <1>13,
      <1>14, <1>15, <1>16, <1>17, <1>18, <1>19, <1>20, <1>21 DEF Next

\* ... and is a step of the atomic replacement, or nothing that it sees.
LEMMA StepAtomic ==
  ASSUME AnyCrash = FALSE, IInv, [Next]_vars
  PROVE  [A!Prepare \/ A!Replace \/ A!Undo \/ A!Settle]_<<Found, saved, plans, journal = "none">>
<1> USE DEF IInv, Numbers, NoneInv, PreparedInv, ApplyingInv, AppliedInv, Between, LogOf, Placed,
      LogKept, Aside,
      Replaced, Created, Half, Committed, NoFile, At, Goto, files, still,
      Found, Whole, Torn
<1>1. CASE Prepare BY <1>1 DEF Prepare, restore_journal_write, A!Prepare
<1>2. CASE Confirm BY <1>2 DEF Confirm
<1>3. CASE ApplyBegins BY <1>3 DEF ApplyBegins, restore_journal_write
<1>4. CASE MoveAside BY <1>4 DEF MoveAside
<1>5. CASE MoveWal BY <1>5 DEF MoveWal
<1>6. CASE Place BY <1>6 DEF Place, A!Replace
<1>7. CASE MoveBack BY <1>7 DEF MoveBack
<1>8. CASE MoveBackWal BY <1>8 DEF MoveBackWal
<1>9. CASE Mark BY <1>9 DEF Mark, restore_journal_write, A!Replace
<1>10. CASE RbCheck BY <1>10 DEF RbCheck, A!Undo
<1>11. CASE RbRename BY <1>11 DEF RbRename
<1>12. CASE RbWal BY <1>12 DEF RbWal
<1>13. CASE RbStaging BY <1>13 DEF RbStaging
<1>14. CASE RbJournal BY <1>14 DEF RbJournal, A!Settle
<1>15. CASE Recover BY <1>15 DEF Recover
<1>16. CASE Open
  <2>1. target' = target BY <1>16 DEF Open
    <2>2. pc = "open" /\ pc' = "components" /\ UNCHANGED <<twal, rollback, rwal, journal, haswal,
        plans, saved>>
    BY <1>16 DEF Open
  <2> QED BY <2>1, <2>2
<1>17. CASE Components BY <1>17 DEF Components
<1>18. CASE Finalize BY <1>18 DEF Finalize, A!Settle
<1>19. CASE Crash BY <1>19 DEF Crash, Fragile
<1>20. CASE Restart BY <1>20 DEF Restart
<1>21. CASE UNCHANGED vars BY <1>21 DEF vars
<1> QED BY <1>1, <1>2, <1>3, <1>4, <1>5, <1>6, <1>7, <1>8, <1>9, <1>10, <1>11, <1>12, <1>13,
      <1>14, <1>15, <1>16, <1>17, <1>18, <1>19, <1>20, <1>21 DEF Next

\* The first start finds the database there is.
LEMMA InitAtomic == ASSUME Init PROVE A!Init
BY DEF Init, A!Init, Found, Whole, Torn, NoFile, A!NoFile

\* Replacing a database implements the atomic replacement, for any number of plans:
\* the steps of morph_sync_apply_db_replace, of the rollback and of the restart, with
\* failures and deaths between any two of them (the fragile places apart), change what
\* a start finds at once, and undo it only while the plan is not settled.
THEOREM Atomic == ASSUME AnyCrash = FALSE PROVE Spec => ReplaceIsAtomic
<1>1. Init => IInv BY InitIInv
<1>2. IInv /\ [Next]_vars => IInv' BY StepIInv
<1>3. Init => A!Init BY InitAtomic
<1>4. IInv /\ [Next]_vars =>
        [A!Prepare \/ A!Replace \/ A!Undo \/ A!Settle]_<<Found, saved, plans, journal = "none">>
  BY StepAtomic
<1> QED BY <1>1, <1>2, <1>3, <1>4, PTL DEF Spec, ReplaceIsAtomic, A!Spec
============================================================================
