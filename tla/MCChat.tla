-------------------------------- MODULE MCChat --------------------------------
\* A support agent and a branch manager, for TLC.
EXTENDS Chat

CONSTANTS agent, manager

MCRoleOf == [s \in Staff |-> IF s = manager THEN "branch_manager" ELSE "support_agent"]
=============================================================================
