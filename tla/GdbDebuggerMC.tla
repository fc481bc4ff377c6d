--------------------------- MODULE GdbDebuggerMC ---------------------------
(* A debug session with one command of each way the plugin treats them.      *)
EXTENDS GdbDebugger

MCUsed == {"load", "attach", "start", "run", "run_to", "list_local",
           "info_thread", "inspect", "break_line", "list_break", "handle_signal",
           "set_working_directory", "set_thread", "exit", "quit", "unload",
           "abort"}
=============================================================================
