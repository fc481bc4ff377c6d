---------------------------- MODULE GdbDebugger ----------------------------
(***************************************************************************)
(* The gdb plugin as a debugger backend (gdb/plugin.c, gdb/debugger.c), and *)
(* the gdb process it drives through an AnjutaLauncher.                     *)
(*                                                                         *)
(* A request of the debug manager queues one or more commands for gdb.  A   *)
(* command is written to gdb when the one before has been answered: gdb     *)
(* answers with a result and a prompt, and with a second prompt when it was *)
(* told to run the program and the program has stopped.  debugger_is_busy   *)
(* counts the prompts that are still to come; with none to come, the queue  *)
(* empty, the plugin reports the state it believes the program is in.       *)
(* gdb, the program and the user who kills either are the environment.      *)
(***************************************************************************)
EXTENDS DebuggerCommands, Sequences, FiniteSets

CONSTANT Used  \* the kinds of commands the clients use

ASSUME UsedAssumption == Used \subseteq Kind

VARIABLES
    \* struct _DebuggerPriv, and whether the plugin has a Debugger
    debugger_is_started,
    debugger_is_busy,
    prog_is_loaded,
    prog_is_running,
    prog_is_attached,
    flags,                  \* those of loading, starting, exiting, solib_event
                            \* and stopping that are set
    cmd_queqe,
    current_cmd,
    command_output_sent,
    stdo_acc,               \* the requests whose results are kept in it
    \* gdb and the program
    gdb,                    \* "off", "starting", "on" or "dead"
    stdin,                  \* the commands gdb has not read
    stdout,                 \* the lines of gdb the plugin has not read
    inferior,               \* the program: "none", "stopped" or "running"
    resumed,                \* the command that made it run last
    \* what the debug manager has been told
    reported,               \* the state reported last
    asked,                  \* the request in progress, or "none"
    reply,                  \* how often its callback still has to be called;
                            \* below 0, it was called too often
    turn                    \* tells a request from the one before

program == <<prog_is_loaded, prog_is_running, prog_is_attached>>
commands == <<cmd_queqe, current_cmd>>
debugger == <<debugger_is_started, debugger_is_busy, program, flags, commands,
              command_output_sent, stdo_acc>>
process == <<gdb, stdin, stdout, inferior, resumed>>
client == <<reported, asked, reply, turn>>
vars == <<debugger, process, client>>

\* A command for gdb, of the request in the turn t.
Cmd(name, t) == [name |-> name, turn |-> t]
Cmds(names, t) == [i \in DOMAIN names |-> Cmd(names[i], t)]
Lines(types, c) == [i \in DOMAIN types |-> [type |-> types[i], of |-> c]]

\* the commands with a parser, of which "query" calls the client's callback
Parsers == {"features", "attach", "detach", "query", "select", "info"}

-----------------------------------------------------------------------------
(* The states of the debugger                                              *)

Init ==
    /\ debugger_is_started = FALSE
    /\ debugger_is_busy = 0
    /\ prog_is_loaded = FALSE
    /\ prog_is_running = FALSE
    /\ prog_is_attached = FALSE
    /\ flags = {}
    /\ cmd_queqe = <<>>
    /\ current_cmd = Cmd("no", 0)
    /\ command_output_sent = FALSE
    /\ stdo_acc = {}
    /\ gdb = "off"
    /\ stdin = <<>>
    /\ stdout = <<>>
    /\ inferior = "none"
    /\ resumed = Cmd("no", 0)
    /\ reported = Stopped
    /\ asked = "none"
    /\ reply = 0
    /\ turn = 0

\* The Debugger is freed, and the debug manager told.
DebuggerStopped ==
    /\ debugger_is_started' = FALSE
    /\ debugger_is_busy' = 0
    /\ prog_is_loaded' = FALSE
    /\ prog_is_running' = FALSE
    /\ prog_is_attached' = FALSE
    /\ flags' = {}
    /\ cmd_queqe' = <<>>
    /\ current_cmd' = Cmd("no", 0)
    /\ command_output_sent' = FALSE
    /\ stdo_acc' = {}
    /\ gdb' = "off"
    /\ stdin' = <<>>
    /\ stdout' = <<>>
    /\ inferior' = "none"
    /\ resumed' = Cmd("no", 0)
    /\ reported' = Stopped
    /\ asked' = "none"
    /\ reply' = 0
    /\ turn' = 0

\* debugger_get_state, when the debugger is not busy
GetState ==
    IF prog_is_running \/ prog_is_attached THEN PStopped
    ELSE IF prog_is_loaded THEN Loaded
    ELSE Started

\* the state debugger_emit_ready reports
ReadyState ==
    CASE "loading" \in flags -> Loaded
      [] "starting" \in flags /\ "loading" \notin flags ->
             IF prog_is_attached THEN PStopped ELSE Started
      [] "exiting" \in flags /\ flags \cap {"loading", "starting"} = {} ->
             Loaded
      [] flags # {} /\ flags \subseteq {"solib_event", "stopping"} -> PStopped
      [] flags = {} -> GetState

-----------------------------------------------------------------------------
(* The queue of commands for gdb                                           *)

\* debugger_queue_execute_command, with q not empty and no prompt to come
Execute(q) ==
    /\ cmd_queqe' = Tail(q)
    /\ current_cmd' = Head(q)
    /\ debugger_is_busy' = 1
    /\ command_output_sent' = FALSE
    /\ stdo_acc' = IF current_cmd.name = "keep" THEN stdo_acc ELSE {}
    /\ stdin' = Append(stdin, Head(q))

\* debugger_queue_command, for each command in turn
Queue(cmds) ==
    IF debugger_is_busy = 0 /\ cmd_queqe \o cmds # <<>>
    THEN Execute(cmd_queqe \o cmds)
    ELSE /\ cmd_queqe' = cmd_queqe \o cmds
         /\ UNCHANGED <<current_cmd, debugger_is_busy, command_output_sent,
                        stdo_acc, stdin>>

-----------------------------------------------------------------------------
(* The requests of the debug manager, one at a time                        *)

Ask(k) ==
    /\ k \in Used
    /\ asked = "none"
    /\ reported \in Need(k)
    /\ asked' = k
    /\ reply' = IF k \in Asks THEN 1 ELSE 0
    /\ turn' = 1 - turn
    /\ UNCHANGED reported

Request(k, names) ==
    /\ Ask(k)
    /\ Queue(Cmds(names, 1 - turn))
    /\ UNCHANGED <<debugger_is_started, flags, gdb, stdout, inferior, resumed>>

\* Mutant: the first prompt of gdb is not waited for.
LaunchNotBusy(k, names) ==
    /\ debugger_is_started' = TRUE
    /\ debugger_is_busy' = 1
    /\ prog_is_loaded' = (k = "load")
    /\ prog_is_running' = FALSE
    /\ prog_is_attached' = FALSE
    /\ flags' = {"starting"} \cup (IF k = "load" THEN {"loading"} ELSE {})
    /\ cmd_queqe' = Tail(Cmds(names, 1 - turn))
    /\ current_cmd' = Head(Cmds(names, 1 - turn))
    /\ command_output_sent' = FALSE
    /\ stdo_acc' = {}
    /\ gdb' = "starting"
    /\ stdin' = <<Head(Cmds(names, 1 - turn))>>
    /\ stdout' = <<>>
    /\ inferior' = "none"
    /\ resumed' = Cmd("no", 1 - turn)

\* gdb_plugin_initialize and debugger_start: a new Debugger, and a new gdb
Launch(k, names) ==
    /\ debugger_is_started' = TRUE
    /\ debugger_is_busy' = 1
    /\ prog_is_loaded' = (k = "load")
    /\ prog_is_running' = FALSE
    /\ prog_is_attached' = FALSE
    /\ flags' = {"starting"} \cup (IF k = "load" THEN {"loading"} ELSE {})
    /\ cmd_queqe' = Cmds(names, 1 - turn)
    /\ current_cmd' = Cmd("no", 1 - turn)
    /\ command_output_sent' = FALSE
    /\ stdo_acc' = {}
    /\ gdb' = "starting"
    /\ stdin' = <<>>
    /\ stdout' = <<>>
    /\ inferior' = "none"
    /\ resumed' = Cmd("no", 1 - turn)

Load ==
    /\ Ask("load")
    /\ Launch("load", <<"features", "sigint">>)

\* Anjuta cannot attach to itself, or to gdb.
Attach ==
    /\ Ask("attach")
    /\ \E itself \in BOOLEAN :
           Launch("attach", IF itself THEN <<"features", "sigint">>
                            ELSE <<"features", "sigint", "attach">>)

\* A program is only started when it has just been loaded.
Start ==
    /\ reported = Loaded
    /\ \E setup \in BOOLEAN :
           Request("start", IF prog_is_running THEN <<>>
                            ELSE IF setup THEN <<"setup", "exec-run", "info">>
                            ELSE <<"exec-run", "info">>)
    /\ UNCHANGED program

Resume(k, names) ==
    /\ Request(k, IF prog_is_running THEN names ELSE <<>>)
    /\ UNCHANGED program

Run == \E k \in StepKinds \ {"run_to", "run_to_address"} :
           Resume(k, <<"exec">>)
RunTo == \E k \in {"run_to", "run_to_address"} : Resume(k, <<"setup", "exec">>)

Query ==
    /\ \E k \in Asks \ {"list_local", "list_frame", "info_thread"} :
           Request(k, <<"query">>)
    /\ UNCHANGED program

ListLocal ==
    /\ \E k \in {"list_local", "list_frame"} : Request(k, <<"keep", "query">>)
    /\ UNCHANGED program

InfoThread ==
    /\ Request("info_thread", <<"select", "query", "select">>)
    /\ UNCHANGED program

Tell ==
    /\ \E k \in {"handle_signal", "write_register", "delete_variable",
                 "assign_variable", "set_working_directory",
                 "set_environment"} : Request(k, <<"tell">>)
    /\ UNCHANGED program

Select ==
    /\ \E k \in {"set_thread", "set_frame"} : Request(k, <<"select">>)
    /\ UNCHANGED program

\* debugger_stop_program, which only forgets a program it has started
Exit ==
    /\ Request("exit", IF ~prog_is_running THEN <<>>
                       ELSE IF prog_is_attached THEN <<"detach">>
                       ELSE <<"kill">>)
    /\ prog_is_running' = (prog_is_running /\ prog_is_attached)
    /\ UNCHANGED <<prog_is_loaded, prog_is_attached>>

\* debugger_stop_real
Quit ==
    /\ \E k \in {"quit", "unload"} :
           Request(k, IF prog_is_attached THEN <<"detach", "gdb-exit">>
                      ELSE <<"gdb-exit">>)
    /\ UNCHANGED program

\* debugger_abort kills gdb and forgets everything; it may come at any time.
Abort ==
    /\ "abort" \in Used
    /\ debugger_is_started
    /\ reported # Stopped
    /\ DebuggerStopped

-----------------------------------------------------------------------------
(* debugger_stdo_flush: a line of gdb                                      *)

Reads(type) ==
    /\ stdout # <<>>
    /\ Head(stdout).type = type
    /\ stdout' = Tail(stdout)

\* Mutant: the next command goes out while the program runs.
ReadPromptRunningNext ==
    /\ Reads("prompt")
    /\ debugger_is_busy # 1
    /\ cmd_queqe # <<>>
    /\ Execute(cmd_queqe)
    /\ UNCHANGED <<debugger_is_started, program, flags, gdb, inferior, resumed,
                   client>>

\* The prompt of a command that has made the program run; one too many would
\* take debugger_is_busy below 0.
ReadPromptRunning ==
    /\ Reads("prompt")
    /\ debugger_is_busy # 1
    /\ debugger_is_busy' = debugger_is_busy - 1
    /\ UNCHANGED <<debugger_is_started, program, flags, commands,
                   command_output_sent, stdo_acc, gdb, stdin, inferior,
                   resumed, client>>

ReadPromptNext ==
    /\ Reads("prompt")
    /\ debugger_is_busy = 1
    /\ cmd_queqe # <<>>
    /\ Execute(cmd_queqe)
    /\ UNCHANGED <<debugger_is_started, program, flags, gdb, inferior, resumed,
                   client>>

\* Mutant: the flags of the run that has ended are left set.
EmitReadyKeepingFlags ==
    /\ reported' = ReadyState
    /\ asked' = "none"
    /\ UNCHANGED <<flags, reply, turn>>

\* debugger_emit_ready
EmitReady ==
    /\ reported' = ReadyState
    /\ asked' = "none"
    /\ flags' = {}
    /\ UNCHANGED <<reply, turn>>

ReadPromptReady ==
    /\ Reads("prompt")
    /\ debugger_is_busy = 1
    /\ cmd_queqe = <<>>
    /\ debugger_is_busy' = 0
    /\ EmitReady
    /\ UNCHANGED <<debugger_is_started, program, commands, command_output_sent,
                   stdo_acc, gdb, stdin, inferior, resumed>>

\* How often the parser of current_cmd calls the client's callback.  The one of
\* -break-list, debugger_list_breakpoint_finish, does not return once it has
\* called it for an error, and calls it again.
Calls(failed) ==
    IF current_cmd.name # "query" THEN 0
    ELSE IF failed /\ asked = "list_break" THEN 2 ELSE 1

\* The parser of the command: failed, gdb has answered with an error.
Parse(failed) ==
    LET name == current_cmd.name IN
    /\ command_output_sent' = (command_output_sent \/ name \in Parsers)
    /\ prog_is_running' = (name = "attach" \/ (prog_is_running /\ name # "detach"))
    /\ prog_is_attached' = (name = "attach" \/ (prog_is_attached /\ name # "detach"))
    /\ flags' = IF name = "attach" THEN flags \cup {"solib_event"} ELSE flags
    /\ reply' = reply - Calls(failed)
    /\ IF name = "features"
       THEN \E printers \in {<<>>, <<"printers", "pretty">>} :
                /\ failed => printers = <<>>
                /\ cmd_queqe' = Cmds(<<"solib">>, turn) \o cmd_queqe
                                    \o Cmds(printers, turn)
       ELSE UNCHANGED cmd_queqe
    /\ UNCHANGED prog_is_loaded

\* ^done: the result of a command with KEEP_RESULT waits for the next one.
ReadDone ==
    /\ Reads("done")
    /\ IF current_cmd.name = "keep"
       THEN /\ stdo_acc' = stdo_acc \cup {Head(stdout).of.turn}
            /\ UNCHANGED <<program, flags, cmd_queqe, command_output_sent, reply>>
       ELSE /\ stdo_acc' = {}
            /\ Parse(FALSE)
    /\ UNCHANGED <<debugger_is_started, debugger_is_busy, current_cmd, gdb,
                   stdin, inferior, resumed, reported, asked, turn>>

\* Mutant: the parser is not told of an error.
ReadErrorUnparsed ==
    /\ Reads("error")
    /\ UNCHANGED <<debugger_is_started, debugger_is_busy, program, flags,
                   commands, command_output_sent, stdo_acc, gdb, stdin,
                   inferior, resumed, client>>

\* ^error: added to a result that is kept, and parsed all the same
ReadError ==
    /\ Reads("error")
    /\ stdo_acc' = IF current_cmd.name = "keep" \/ stdo_acc # {}
                   THEN stdo_acc \cup {Head(stdout).of.turn} ELSE stdo_acc
    /\ Parse(TRUE)
    /\ UNCHANGED <<debugger_is_started, debugger_is_busy, current_cmd, gdb,
                   stdin, inferior, resumed, reported, asked, turn>>

\* ^error, "No executable file specified" (a command without a parser)
ReadProgramNotFound ==
    /\ Reads("lost")
    /\ prog_is_loaded' = FALSE
    /\ prog_is_running' = FALSE
    /\ prog_is_attached' = FALSE
    /\ UNCHANGED <<debugger_is_started, debugger_is_busy, flags, commands,
                   command_output_sent, stdo_acc, gdb, stdin, inferior,
                   resumed, client>>

\* Mutant: the second prompt is not counted.
ReadRunningUncounted ==
    /\ Reads("running")
    /\ prog_is_running' = TRUE
    /\ UNCHANGED <<debugger_is_started, debugger_is_busy, prog_is_loaded,
                   prog_is_attached, flags, commands, command_output_sent,
                   stdo_acc, gdb, stdin, inferior, resumed, client>>

\* ^running
ReadRunning ==
    /\ Reads("running")
    /\ prog_is_running' = TRUE
    /\ debugger_is_busy' = debugger_is_busy + 1
    /\ UNCHANGED <<debugger_is_started, prog_is_loaded, prog_is_attached,
                   flags, commands, command_output_sent, stdo_acc, gdb, stdin,
                   inferior, resumed, client>>

\* *stopped, which is ignored after a shared library event
ReadStopped ==
    /\ Reads("stopped")
    /\ flags' = IF "solib_event" \in flags THEN flags
                ELSE flags \cup {"stopping"}
    /\ UNCHANGED <<debugger_is_started, debugger_is_busy, program, commands,
                   command_output_sent, stdo_acc, gdb, stdin, inferior,
                   resumed, client>>

\* *stopped, with a reason that begins with "exited"
ReadExited ==
    /\ Reads("exited")
    /\ IF "solib_event" \in flags
       THEN UNCHANGED <<flags, prog_is_running, prog_is_attached>>
       ELSE /\ flags' = flags \cup {"exiting"}
            /\ prog_is_running' = FALSE
            /\ prog_is_attached' = FALSE
    /\ UNCHANGED <<debugger_is_started, debugger_is_busy, prog_is_loaded,
                   commands, command_output_sent, stdo_acc, gdb, stdin,
                   inferior, resumed, client>>

\* "Stopped due to shared library event"
ReadSolib ==
    /\ Reads("solib")
    /\ flags' = flags \cup {"solib_event"}
    /\ UNCHANGED <<debugger_is_started, debugger_is_busy, program, commands,
                   command_output_sent, stdo_acc, gdb, stdin, inferior,
                   resumed, client>>

Read ==
    \/ ReadPromptRunning \/ ReadPromptNext \/ ReadPromptReady
    \/ ReadDone \/ ReadError \/ ReadProgramNotFound
    \/ ReadRunning \/ ReadStopped \/ ReadExited \/ ReadSolib

\* on_gdb_terminated.  The launcher has handed over all the output before.
OnGdbTerminated ==
    /\ gdb = "dead"
    /\ stdout = <<>>
    /\ DebuggerStopped

-----------------------------------------------------------------------------
(* gdb and the program it debugs                                           *)

GdbStarts ==
    /\ gdb = "starting"
    /\ gdb' = "on"
    /\ stdout' = stdout \o Lines(<<"prompt">>, current_cmd)
    /\ UNCHANGED <<debugger, stdin, inferior, resumed, client>>

\* How gdb may answer a command, and what the program does then.
Answers(name) ==
    CASE name = "exec-run" ->
             { <<<<"running", "prompt">>, "running">>,
               <<<<"error", "prompt">>, "none">>,
               <<<<"lost", "prompt">>, "none">> }
      [] name = "exec" ->
             IF inferior = "none" THEN { <<<<"error", "prompt">>, "none">> }
             ELSE { <<<<"running", "prompt">>, "running">>,
                    <<<<"error", "prompt">>, "stopped">> }
      [] name = "attach" ->
             { <<<<"done", "prompt">>, "stopped">>,
               <<<<"error", "prompt">>, "none">> }
      [] name \in {"detach", "kill"} ->
             { <<<<"done", "prompt">>, "none">>,
               <<<<"error", "prompt">>, inferior>> }
      [] OTHER ->
             { <<<<"done", "prompt">>, inferior>>,
               <<<<"error", "prompt">>, inferior>> }

GdbReads ==
    /\ gdb = "on"
    /\ inferior # "running"
    /\ stdin # <<>>
    /\ stdin' = Tail(stdin)

GdbAnswers ==
    /\ GdbReads
    /\ Head(stdin).name # "gdb-exit"
    /\ \E a \in Answers(Head(stdin).name) :
           /\ stdout' = stdout \o Lines(a[1], Head(stdin))
           /\ inferior' = a[2]
           /\ resumed' = IF a[2] = "running" THEN Head(stdin) ELSE resumed
    /\ UNCHANGED <<debugger, gdb, client>>

GdbExits ==
    /\ GdbReads
    /\ Head(stdin).name = "gdb-exit"
    /\ gdb' = "dead"
    /\ inferior' = "none"
    /\ UNCHANGED <<debugger, stdout, resumed, client>>

\* The program stops, loads a library or exits; or it is interrupted.
ProgramStops ==
    /\ gdb = "on"
    /\ inferior = "running"
    /\ \E types \in {<<"stopped", "prompt">>, <<"solib", "stopped", "prompt">>,
                     <<"exited", "prompt">>} :
           /\ stdout' = stdout \o Lines(types, resumed)
           /\ inferior' = IF types[1] = "exited" THEN "none" ELSE "stopped"
    /\ UNCHANGED <<debugger, gdb, stdin, resumed, client>>

GdbDies ==
    /\ gdb \in {"starting", "on"}
    /\ gdb' = "dead"
    /\ inferior' = "none"
    /\ UNCHANGED <<debugger, stdin, stdout, resumed, client>>

-----------------------------------------------------------------------------
Next ==
    \/ Load \/ Attach \/ Start \/ Run \/ RunTo \/ Query \/ ListLocal
    \/ InfoThread \/ Tell \/ Select \/ Exit \/ Quit \/ Abort
    \/ Read \/ OnGdbTerminated
    \/ GdbStarts \/ GdbAnswers \/ GdbExits \/ ProgramStops \/ GdbDies

Spec == Init /\ [][Next]_vars

(* The main loop reads what gdb writes, and gdb answers.  That the program   *)
(* stops is the assumption under which a request ends: it may run for ever.  *)
Fairness ==
    /\ WF_vars(Read)
    /\ WF_vars(OnGdbTerminated)
    /\ WF_vars(GdbStarts \/ GdbAnswers \/ GdbExits)
    /\ WF_vars(ProgramStops)

FairSpec == Spec /\ Fairness

-----------------------------------------------------------------------------
(* Properties                                                              *)

CmdName == {"no", "features", "sigint", "solib", "printers", "pretty", "attach",
    "detach", "setup", "exec-run", "exec", "info", "keep", "query", "select",
    "tell", "kill", "gdb-exit"}
CmdType == [name : CmdName, turn : 0 .. 1]
LineType == [type : {"prompt", "done", "error", "lost", "running", "stopped",
                     "exited", "solib"},
             of : CmdType]

(* The types of the fields.  debugger_is_busy is an unsigned integer: one    *)
(* prompt too many would make the debugger busy for ever.                    *)
TypeOK ==
    /\ debugger_is_started \in BOOLEAN
    /\ debugger_is_busy \in 0 .. 2
    /\ prog_is_loaded \in BOOLEAN
    /\ prog_is_running \in BOOLEAN
    /\ prog_is_attached \in BOOLEAN
    /\ flags \subseteq {"loading", "starting", "exiting", "solib_event",
                        "stopping"}
    /\ cmd_queqe \in Seq(CmdType)
    /\ current_cmd \in CmdType
    /\ command_output_sent \in BOOLEAN
    /\ stdo_acc \subseteq 0 .. 1
    /\ gdb \in {"off", "starting", "on", "dead"}
    /\ stdin \in Seq(CmdType)
    /\ stdout \in Seq(LineType)
    /\ inferior \in {"none", "stopped", "running"}
    /\ resumed \in CmdType
    /\ reported \in Started .. PStopped \cup {Stopped}
    /\ asked \in Used \cup {"none"}
    /\ reply \in Int
    /\ turn \in 0 .. 1

Unread(type) == Cardinality({i \in DOMAIN stdout : stdout[i].type = type})

(* debugger_is_busy counts the prompts that gdb still owes: the ones on      *)
(* their way, one for each command it has not read, one for a program that   *)
(* runs; each ^running that is on its way announces one more.                *)
BusyCountsPrompts ==
    debugger_is_started /\ gdb # "dead" =>
        debugger_is_busy + Unread("running") =
            Unread("prompt") + Len(stdin)
                + (IF gdb = "starting" THEN 1 ELSE 0)
                + (IF inferior = "running" THEN 1 ELSE 0)

(* gdb does not say which command a line answers: debugger_stdo_flush gives  *)
(* it to the parser of current_cmd.  Every line on its way answers that      *)
(* command, the results kept are those of the same request, and the parser   *)
(* has been called by the time of the prompt.                                *)
OwnAnswer ==
    /\ \A i \in DOMAIN stdout : stdout[i].of = current_cmd
    /\ \A i \in DOMAIN stdin : stdin[i] = current_cmd
    /\ stdo_acc \subseteq {current_cmd.turn}
    /\ stdout # <<>> /\ Head(stdout).type = "prompt"
           /\ current_cmd.name \in Parsers => command_output_sent

(* The debugger is idle exactly when it has answered every request, and what *)
(* it has reported is then what debugger_get_state says.  A process that was *)
(* attached to and has exited leaves the one exception: "exiting" reports    *)
(* that a program is loaded.                                                 *)
StateAsReported ==
    debugger_is_started =>
        /\ debugger_is_busy = 0 <=> asked = "none"
        /\ asked = "none" =>
               \/ reported = GetState
               \/ reported = Loaded /\ GetState = Started

Backend == INSTANCE DebuggerBackend WITH at <- reported

(* What the contract does not allow: the client that asked for the list of   *)
(* the breakpoints is told twice of an error.                                *)
AnsweredTwice ==
    /\ asked = "list_break"
    /\ reply = 1
    /\ reply' = -1
    /\ UNCHANGED <<reported, asked>>

(* But for that one case the gdb plugin is a debugger backend as the queue   *)
(* of the debug manager expects it: the callback of a request is called      *)
(* once, whatever gdb answers and in whichever of its commands, and before   *)
(* the report of a state the request may end in; and the report comes.       *)
ImplementsBackend ==
    /\ Backend!Init
    /\ [][Backend!Next \/ AnsweredTwice]_(Backend!vars)
    /\ Backend!Answers
=============================================================================
