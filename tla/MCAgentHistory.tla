--------------------------- MODULE MCAgentHistory ---------------------------
(* Instances of AgentHistory for TLC. *)
EXTENDS AgentHistory

\* Every turn that the bound allows has been made.
Terminating == pc = "idle" /\ turn = MaxTurns /\ UNCHANGED vars

MCSpec == Init /\ [][Next \/ Terminating]_vars
=============================================================================
