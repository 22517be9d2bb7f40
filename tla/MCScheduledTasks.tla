-------------------------- MODULE MCScheduledTasks --------------------------
(* Instances of ScheduledTasks for TLC.                                    *)
EXTENDS ScheduledTasks

in(k, tr, d, i, to, m) ==
  [kind |-> k, trigger_type |-> tr, delay |-> d, interval_seconds |-> i,
   timeout |-> to, max_attempts |-> m]

\* Every kind, one-shot and repeating, with and without limits.
MCRaceInputs == {in("agent", "interval", 0, 1, 0, 2), in("reminder", "once", 1, 0, 0, 0)}
MCRaceEdits == {in("agent", "once", 1, 0, 0, 0)}
MCInputs == {in("agent", "interval", 0, 1, 0, 2), in("action", "once", 0, 1, 2, 2),
             in("watch", "event", 0, 0, 1, 2), in("reminder", "once", 1, 1, 1, 0)}
MCLiveInputs == {in("agent", "interval", 0, 1, 0, 0), in("watch", "event", 1, 0, 0, 2)}
=============================================================================
