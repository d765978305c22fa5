-------------------------------- MODULE MCTools --------------------------------
(* ToolExecutor with few adapters, as in its tests, so that an allowed tool *)
(* can be missing.                                                          *)
EXTENDS ToolExecutor

\* kaiso_log_correlation stands for the adapters the policy does not list.
MCTools == {"terminal", "http", "kaiso_log_correlation"}
MCAllowedTools == {"terminal", "http"}
MCRegistered == {"http", "kaiso_log_correlation"}
MCAttempts == [t \in MCRegistered |-> IF t = "http" THEN 3 ELSE 1]

=============================================================================
