---------------------------- MODULE MCToolCalls ----------------------------
(* Small instances of ToolCalls.                                           *)
EXTENDS ToolCalls

\* Nobody cancels the turn; tools hang, are denied or cannot be started.
Unattended == {"timeout", "deny", "no_memory", "no_thread"}
\* The user cancels, and a tool that fails too often is given up.
Attended == {"cancel", "timeout", "give_up"}
\* Ctrl-C, and results that cannot be persisted.
Interrupts == {"sigint", "no_history"}
\* No deadlines: a tool that hangs is waited for until the user cancels.
NoDeadline == {"cancel", "deny", "disabled"}

MCScenarios == {Unattended, Attended, Interrupts, NoDeadline}
MCCancelled == {{"cancel"}}

\* The batch and its workers are done.
Terminating == Over /\ UNCHANGED vars
MCNext == Next \/ Terminating
MCSpec == Init /\ [][MCNext]_vars
=============================================================================
