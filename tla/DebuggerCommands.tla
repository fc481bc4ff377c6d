-------------------------- MODULE DebuggerCommands --------------------------
(***************************************************************************)
(* What the debug manager and a debugger backend agree on: the states of   *)
(* IAnjutaDebugger, the kinds of commands, the states each kind needs and  *)
(* the state it announces (the flags of debug-manager/command.c), and the  *)
(* states the backend may be in once a command is done.                    *)
(***************************************************************************)
EXTENDS Integers

-----------------------------------------------------------------------------
(* IAnjutaDebuggerState                                                    *)

Busy == 0
Stopped == 1
Started == 2
Loaded == 3
PStopped == 4
Running == 5
State == Stopped .. Running

-----------------------------------------------------------------------------
(* Commands: the states a kind needs, and the state it announces (Busy if   *)
(* it announces none)                                                      *)

BreakKinds == {"break_line", "break_function", "break_address",
    "enable_break", "ignore_break", "condition_break", "info_sharedlib"}
StepKinds == {"step_in", "step_over", "step_out", "run", "run_to",
    "run_from", "stepi_in", "stepi_over", "run_to_address",
    "run_from_address"}
FrameKinds == {"list_local", "list_arg", "list_thread", "list_frame",
    "dump_stack_trace", "update_register", "create_variable",
    "delete_variable", "update_variable"}
StoppedKinds == {"handle_signal", "set_thread", "info_thread", "info_signal",
    "set_frame", "write_register", "evaluate", "inspect", "print",
    "evaluate_variable", "list_variable_children", "assign_variable"}
AnyKinds == {"user", "inspect_memory", "disassemble", "list_register"}

RunKinds == {"attach", "start", "connect"} \cup StepKinds

Kind == {"load", "quit", "abort", "set_working_directory", "set_environment",
    "unload", "remove_break", "list_break", "exit", "interrupt"}
        \cup RunKinds \cup BreakKinds \cup FrameKinds \cup StoppedKinds
        \cup AnyKinds

Need(k) ==
    CASE k \in {"load", "attach"} -> {Stopped, Started}
      [] k = "quit" -> {Started, Loaded, PStopped}
      [] k \in AnyKinds \cup {"abort"} -> {Started, Loaded, PStopped, Running}
      [] k \in {"set_working_directory", "set_environment"} -> {Started, Loaded}
      [] k \in BreakKinds \cup {"unload", "start", "connect"} ->
             {Loaded, PStopped}
      [] k \in {"remove_break", "list_break"} -> {Loaded, PStopped, Running}
      [] k \in StepKinds \cup StoppedKinds \cup {"exit"} -> {PStopped}
      [] k \in FrameKinds -> {PStopped, Running}
      [] k = "interrupt" -> {Running}

GoingTo(k) ==
    CASE k \in {"quit", "abort"} -> Stopped
      [] k = "unload" -> Started
      [] k \in {"load", "exit"} -> Loaded
      [] k \in RunKinds -> Running
      [] OTHER -> Busy

Asynchronous == {"abort", "interrupt"}
HighPriority == {"quit"}

\* the kinds whose client gives a callback
Asks == (BreakKinds \cup FrameKinds \cup StoppedKinds \cup AnyKinds
            \cup {"remove_break", "list_break"})
        \ {"delete_variable", "handle_signal", "set_thread", "set_frame",
           "write_register", "assign_variable", "user"}

\* The states a backend in state s may be in once it has done a command of kind
\* k, if it has not ended.  Starting a program may show that there is none; a
\* process that was attached to may leave the debugger without a program when it
\* exits, which a backend that has reported Loaded finds out with the next command.
EndsOf(k, s) ==
    CASE k = "load" -> {Loaded}
      [] k = "exit" -> {Started, Loaded}
      [] k = "attach" -> {Started, PStopped}
      [] k \in RunKinds \ {"attach"} -> {Started, Loaded, PStopped}
      [] k = "user" -> IF s < Loaded THEN {s} ELSE {Loaded, PStopped}
      [] k \in {"quit", "unload"} -> {}
      [] OTHER -> IF s = Loaded THEN {Started, Loaded} ELSE {s}
=============================================================================
