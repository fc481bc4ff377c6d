------------------------- MODULE DmaDebuggerQueueMC -------------------------
(* A debug session with the commands that differ in what the queue does.     *)
EXTENDS DmaDebuggerQueue

MCUsed == {"load", "quit", "abort", "user", "set_environment", "start",
           "break_line", "list_break", "list_local", "delete_variable",
           "inspect", "run", "interrupt"}
=============================================================================
