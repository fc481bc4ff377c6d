------------------------- MODULE GdbDebugger_proofs -------------------------
(***************************************************************************)
(* The gdb plugin counts the prompts of gdb right, gives each line to the   *)
(* parser of its command, reports the state it is in, and keeps what a      *)
(* backend promises, but for an error of the list of the breakpoints, which *)
(* it answers twice; for every set of kinds of commands that clients use.   *)
(*                                                                         *)
(* The argument follows one command through the pipe.  gdb is asked one     *)
(* command at a time, so what is on its way between the plugin and gdb is   *)
(* at most the command, the answer to it, the events of the program it has  *)
(* made run, or the debt of one prompt (Pipe).  What a request has still to *)
(* send is the rest of a plan (Plan), and from the plan and the lines that  *)
(* have been read follow the flags (Flags) and so the report.               *)
(***************************************************************************)
EXTENDS GdbDebugger, FiniteSetTheorems, TLAPS

-----------------------------------------------------------------------------
(* The kinds of requests, by what they ask gdb                             *)

Lists == {"list_local", "list_frame"}
Queries == Asks \ {"list_local", "list_frame", "info_thread"}
Tells == {"handle_signal", "write_register", "delete_variable",
          "assign_variable", "set_working_directory", "set_environment"}
Selects == {"set_thread", "set_frame"}
Steady == Lists \cup Queries \cup Tells \cup Selects \cup {"info_thread"}
Quits == {"quit", "unload"}
Launches == {"load", "attach"}
Runs == {"start"} \cup StepKinds
Requests == Steady \cup Quits \cup Launches \cup Runs \cup {"exit"}

-----------------------------------------------------------------------------
(* What is on its way between the plugin and gdb                           *)

Type(i) == stdout[i].type
One(b) == IF b THEN 1 ELSE 0
ExecNames == {"exec", "exec-run"}

\* The first a lines answer the command, the other e lines tell what the program
\* did; owed is the prompt that gdb owes after its start or for a program that runs.
Lined(a, e) ==
    /\ Len(stdout) = a + e
    /\ a = 1 => Type(1) = "prompt" /\ e # 1
    /\ a = 2 => /\ Type(1) \in {"done", "error", "lost", "running"}
                /\ Type(2) = "prompt"
                /\ e # 1
    /\ e = 1 => Type(a + 1) = "prompt"
    /\ e = 2 => Type(a + 1) \in {"stopped", "exited"} /\ Type(a + 2) = "prompt"
    /\ e = 3 => /\ Type(a + 1) = "solib" /\ Type(a + 2) = "stopped"
                /\ Type(a + 3) = "prompt"

Counted(a, e, owed) ==
    debugger_is_busy = One(a > 0) - One(a = 2 /\ Type(1) = "running")
                           + One(e > 0) + Len(stdin) + owed

Owes(a, e, owed) ==
    /\ Len(stdin) <= 1
    /\ Len(stdin) = 1 => Len(stdout) = 0 /\ owed = 0
    /\ owed = 1 => e = 0
    /\ a = 2 => (Type(1) = "running" <=> owed = 1 \/ e > 0)
    /\ gdb = "dead" \/ owed = One(gdb = "starting" \/ inferior = "running")
    /\ gdb = "starting" => Len(stdout) = 0 /\ inferior = "none"
                               /\ current_cmd.name = "no"
    /\ gdb = "dead" => inferior = "none"

\* Only a command that runs the program has events, and a second prompt.
Ran(a, e, owed) ==
    IF current_cmd.name \in ExecNames
    THEN /\ Len(stdin) = 1 \/ a = 2 \/ owed = 1 \/ a + e >= 3 => flags = {}
         /\ a = 0 /\ e = 2 => flags \subseteq {"solib_event"}
         /\ a = 0 /\ e = 2 /\ Type(1) = "exited" => flags = {}
         /\ a < 2 /\ (owed = 1 \/ e >= 2) => prog_is_running
         /\ a = 2 => Type(1) # "done"
    ELSE /\ e = 0
         /\ a = 2 => Type(1) \in {"done", "error"}
         /\ inferior # "running"

Pipe ==
    \E a \in 0 .. 2, e \in 0 .. 3, owed \in 0 .. 1 :
        Lined(a, e) /\ Counted(a, e, owed) /\ Owes(a, e, owed) /\ Ran(a, e, owed)

\* All of it belongs to the current command.
Own ==
    /\ \A i \in DOMAIN stdout : stdout[i].of = current_cmd
    /\ \A i \in DOMAIN stdin : stdin[i] = current_cmd
    /\ stdo_acc \subseteq {current_cmd.turn}
    /\ inferior = "running" => resumed = current_cmd
    /\ Len(stdout) > 0 /\ current_cmd.name \in Parsers =>
           command_output_sent \/ Type(1) \in {"done", "error"}
    /\ current_cmd.name = "gdb-exit" => Len(stdout) = 0

-----------------------------------------------------------------------------
(* What a request has still to do                                          *)

At0(n) == current_cmd.name = n /\ Len(cmd_queqe) = 0
At1(n, x) ==
    current_cmd.name = n /\ Len(cmd_queqe) = 1 /\ cmd_queqe[1].name = x
At2(n, x, y) ==
    /\ current_cmd.name = n
    /\ Len(cmd_queqe) = 2 /\ cmd_queqe[1].name = x /\ cmd_queqe[2].name = y

LaunchNames == {"features", "sigint", "solib", "printers", "pretty"}

Plan ==
    /\ asked \in Launches =>
           LET names == LaunchNames \cup {n \in {"attach"} : asked = "attach"}
           IN  /\ current_cmd.name \in names \cup {"no"}
               /\ \A i \in DOMAIN cmd_queqe : cmd_queqe[i].name \in names
    /\ asked = "start" =>
           At2("setup", "exec-run", "info") \/ At1("exec-run", "info") \/ At0("info")
    /\ asked \in StepKinds => At1("setup", "exec") \/ At0("exec")
    /\ asked \in Lists => At1("keep", "query") \/ At0("query")
    /\ asked = "info_thread" =>
           At2("select", "query", "select") \/ At1("query", "select") \/ At0("select")
    /\ asked \in Queries => At0("query")
    /\ asked \in Tells => At0("tell")
    /\ asked \in Selects => At0("select")
    /\ asked = "exit" => At0("detach") \/ At0("kill")
    /\ asked \in Quits => At1("detach", "gdb-exit") \/ At0("gdb-exit")

Turns ==
    /\ current_cmd.turn = turn
    /\ \A i \in DOMAIN cmd_queqe : cmd_queqe[i].turn = turn

\* What was reported is the state, or that of a process that has exited.
Known == reported = GetState \/ (reported = Loaded /\ GetState = Started)

Flags ==
    /\ asked = "load" => flags = {"loading", "starting"} /\ ~prog_is_running
    /\ asked = "attach" =>
           /\ {"starting"} \subseteq flags /\ flags \subseteq {"starting", "solib_event"}
           /\ ~prog_is_loaded
           /\ prog_is_running = prog_is_attached
    /\ asked \in Runs =>
           /\ flags \subseteq {"exiting", "solib_event", "stopping"}
           /\ "exiting" \in flags => ~prog_is_running
           /\ flags # {} /\ "exiting" \notin flags => prog_is_running
           /\ cmd_queqe # <<>> /\ current_cmd.name = "setup" => flags = {}
    /\ asked \notin Launches \cup Runs => flags = {}
    /\ asked = "exit" /\ prog_is_running =>
           current_cmd.name = "detach" /\ ~command_output_sent
    /\ asked \in Steady => Known

\* The command that calls the callback has not been answered.
Pending ==
    \/ \E i \in DOMAIN cmd_queqe : cmd_queqe[i].name = "query"
    \/ current_cmd.name = "query" /\ ~command_output_sent

\* The callback is owed exactly as long.
Reply == reply <= 1 /\ (reply = 1 <=> Pending)

-----------------------------------------------------------------------------
Off ==
    /\ debugger_is_busy = 0
    /\ cmd_queqe = <<>>
    /\ current_cmd.name = "no"
    /\ flags = {}
    /\ gdb = "off"
    /\ Len(stdin) = 0
    /\ Len(stdout) = 0
    /\ inferior = "none"
    /\ reported = Stopped
    /\ asked = "none"
    /\ reply # 1

Idle ==
    /\ debugger_is_busy = 0
    /\ cmd_queqe = <<>>
    /\ current_cmd.name # "keep"
    /\ flags = {}
    /\ reply # 1
    /\ gdb # "starting"
    /\ reported # Stopped
    /\ Known

Working ==
    /\ asked \in Requests
    /\ debugger_is_busy # 0
    /\ Plan /\ Turns /\ Flags /\ Reply

IInv ==
    /\ TypeOK
    /\ prog_is_attached => prog_is_running
    /\ ~debugger_is_started <=> gdb = "off"
    /\ ~debugger_is_started => Off
    /\ Pipe
    /\ Own
    /\ debugger_is_started /\ asked = "none" => Idle
    /\ asked # "none" => Working

-----------------------------------------------------------------------------
(* Facts about kinds and sequences                                         *)

LEMMA KindFacts ==
    /\ Lists \subseteq Asks /\ "info_thread" \in Asks /\ Queries \subseteq Asks
    /\ Asks = Lists \cup Queries \cup {"info_thread"}
    /\ Asks \cap (Tells \cup Selects \cup Quits \cup Launches \cup Runs \cup {"exit"}) = {}
    /\ Tells \cap (Selects \cup Quits \cup Launches \cup Runs \cup {"exit"}) = {}
    /\ Selects \cap (Quits \cup Launches \cup Runs \cup {"exit"}) = {}
    /\ Runs \cap (Quits \cup Launches \cup {"exit"}) = {}
    /\ "start" \notin StepKinds
    /\ "none" \notin Kind
    /\ Requests \subseteq Kind
BY DEF Lists, Queries, Asks, Tells, Selects, Quits, Launches, Runs, Requests,
   Steady, StepKinds, BreakKinds, FrameKinds, StoppedKinds, AnyKinds, RunKinds, Kind

LEMMA NeedFacts ==
    /\ \A k \in Launches : Need(k) = {Stopped, Started}
    /\ \A k \in Requests \ Launches : Stopped \notin Need(k)
    /\ \A k \in StepKinds \cup {"exit"} : Need(k) = {PStopped}
BY DEF Lists, Queries, Asks, Tells, Selects, Quits, Launches, Runs, Requests,
   Steady, StepKinds, BreakKinds, FrameKinds, StoppedKinds, AnyKinds, RunKinds,
   Kind, Need, Stopped, Started, Loaded, PStopped, Running

LEMMA EndFacts ==
    ASSUME NEW s
    PROVE  /\ EndsOf("load", s) = {Loaded}
           /\ EndsOf("exit", s) = {Started, Loaded}
           /\ EndsOf("attach", s) = {Started, PStopped}
           /\ \A k \in Runs : EndsOf(k, s) = {Started, Loaded, PStopped}
           /\ \A k \in Steady :
                  EndsOf(k, s) = IF s = Loaded THEN {Started, Loaded} ELSE {s}
BY DEF Lists, Queries, Asks, Tells, Selects, Quits, Launches, Runs, Requests,
   Steady, StepKinds, BreakKinds, FrameKinds, StoppedKinds, AnyKinds, RunKinds,
   Kind, EndsOf, Stopped, Started, Loaded, PStopped, Running

\* A line is read: what is left has the same shape.
LEMMA ReadLine ==
    ASSUME stdout \in Seq(LineType), NEW type, Reads(type),
           NEW a \in 0 .. 2, NEW e \in 0 .. 3, Lined(a, e)
    PROVE  /\ Len(stdout) > 0 /\ Type(1) = type
           /\ stdout' \in Seq(LineType)
           /\ Len(stdout') = Len(stdout) - 1
           /\ \A i \in DOMAIN stdout' : i + 1 \in DOMAIN stdout /\ stdout'[i] = stdout[i + 1]
           /\ a > 0 => Lined(a - 1, e)'
           /\ a = 0 => e > 0 /\ Lined(0, e - 1)'
<1>1. /\ Len(stdout) > 0 /\ Type(1) = type
      /\ stdout' \in Seq(LineType)
      /\ Len(stdout') = Len(stdout) - 1
    BY DEF Reads, Type
<1>2. \A i \in 1 .. Len(stdout') : stdout'[i] = stdout[i + 1]
    BY DEF Reads
<1>3. \A i \in DOMAIN stdout' : i + 1 \in DOMAIN stdout /\ stdout'[i] = stdout[i + 1]
    BY <1>1, <1>2
<1>4. CASE a = 0
    BY <1>1, <1>2, <1>4 DEF Lined, Type
<1>5. CASE a = 1
    BY <1>1, <1>2, <1>5 DEF Lined, Type
<1>6. CASE a = 2
    BY <1>1, <1>2, <1>6 DEF Lined, Type
<1>7. QED
    BY <1>1, <1>3, <1>4, <1>5, <1>6

LEMMA InitInv == Init => IInv
<1> SUFFICES ASSUME Init PROVE IInv
    OBVIOUS
<1>1. TypeOK
    <2>1. Cmd("no", 0) \in CmdType
        BY DEF Cmd, CmdType, CmdName
    <2>2. cmd_queqe \in Seq(CmdType) /\ stdin \in Seq(CmdType) /\ stdout \in Seq(LineType)
        BY DEF Init
    <2>3. reported \in Started .. PStopped \cup {Stopped}
        BY DEF Init
    <2>4. current_cmd \in CmdType /\ resumed \in CmdType
        BY <2>1 DEF Init
    <2>5. debugger_is_busy \in 0 .. 2 /\ turn \in 0 .. 1 /\ reply \in Int
        BY DEF Init
    <2>9. /\ debugger_is_started \in BOOLEAN
          /\ prog_is_loaded \in BOOLEAN /\ prog_is_running \in BOOLEAN
          /\ prog_is_attached \in BOOLEAN /\ command_output_sent \in BOOLEAN
        BY Zenon DEF Init
    <2>6. flags \subseteq {"loading", "starting", "exiting", "solib_event", "stopping"}
          /\ stdo_acc \subseteq 0 .. 1
        BY DEF Init
    <2>8. /\ gdb \in {"off", "starting", "on", "dead"}
          /\ inferior \in {"none", "stopped", "running"}
          /\ asked \in Used \cup {"none"}
        BY DEF Init
    <2>7. QED
        BY <2>2, <2>3, <2>4, <2>5, <2>6, <2>8, <2>9 DEF TypeOK
<1>2. Off /\ Own
    BY DEF Init, Off, Own, Cmd
<1>3. Pipe
    <2>1. Lined(0, 0) /\ Counted(0, 0, 0) /\ Owes(0, 0, 0) /\ Ran(0, 0, 0)
        BY DEF Init, Lined, Counted, Owes, Ran, One, ExecNames, Cmd
    <2>2. QED
        BY <2>1 DEF Pipe
<1>4. QED
    BY <1>1, <1>2, <1>3 DEF Init, IInv

-----------------------------------------------------------------------------
(* The lines that are read                                                 *)

LEMMA Reading ==
    ASSUME IInv, NEW type, Reads(type)
    PROVE  /\ TypeOK /\ debugger_is_started /\ gdb # "off" /\ Pipe /\ Own
           /\ asked # "none" /\ Working
           /\ Type(1) = type /\ Len(stdout) > 0 /\ Len(stdout) \in Nat
           /\ Len(stdin) = 0
<1>1. TypeOK /\ Pipe /\ Own
    BY DEF IInv
<1>2. Len(stdout) > 0 /\ Type(1) = type
    BY <1>1 DEF Reads, TypeOK, Type
<1>3. debugger_is_started /\ gdb # "off"
    BY <1>2 DEF IInv, Off
<1>4. PICK a \in 0 .. 2, e \in 0 .. 3, owed \in 0 .. 1 :
          Lined(a, e) /\ Counted(a, e, owed) /\ Owes(a, e, owed) /\ Ran(a, e, owed)
    BY <1>1 DEF Pipe
<1>5. Len(stdin) \in Nat /\ Len(stdout) \in Nat
    BY <1>1 DEF TypeOK
<1>6. debugger_is_busy # 0
    BY <1>2, <1>4, <1>5 DEF Lined, Counted, Owes, One
<1>7. Len(stdin) = 0
    <2>1. Len(stdin) <= 1 /\ (Len(stdin) = 1 => Len(stdout) = 0)
        BY <1>4, Zenon DEF Owes
    <2>2. Len(stdin) # 1
        BY <1>2, <2>1
    <2>3. QED
        BY <1>5, <2>1, <2>2, SMTT(30)
<1>8. QED
    BY <1>1, <1>2, <1>3, <1>5, <1>6, <1>7 DEF IInv, Idle

\* What the command in progress says of the request.
LEMMA PlanFacts ==
    ASSUME Working
    PROVE  LET name == current_cmd.name IN
           /\ name \in ExecNames => asked \in Runs
           /\ name = "attach" => asked = "attach"
           /\ name = "detach" => asked \in Quits \cup {"exit"}
           /\ name = "features" => asked \in Launches
           /\ name = "query" =>
                  /\ asked \in Asks
                  /\ \A i \in DOMAIN cmd_queqe : cmd_queqe[i].name # "query"
           /\ name = "keep" => asked \in Lists /\ Len(cmd_queqe) = 1
           /\ name = "gdb-exit" => asked \in Quits
           /\ name = "setup" => asked \in Runs
<1>1. asked \in Steady \cup Quits \cup Launches \cup Runs \cup {"exit"}
    BY DEF Working, Requests
<1>2. Plan
    BY DEF Working
<1>3. CASE asked \in Launches
    BY <1>2, <1>3 DEF Plan, Launches, LaunchNames, ExecNames
<1>4. CASE asked \in Runs
    BY <1>2, <1>4 DEF Plan, Runs, ExecNames, At0, At1, At2
<1>5. CASE asked \in Quits \cup {"exit"}
    BY <1>2, <1>5 DEF Plan, ExecNames, At0, At1
<1>6. CASE asked \in Steady
    BY <1>2, <1>6, KindFacts DEF Plan, Steady, ExecNames, At0, At1, At2
<1>7. QED
    BY <1>1, <1>3, <1>4, <1>5, <1>6

\* What the lines that are read leave alone.
LEMMA SamePlan ==
    ASSUME Plan, Turns, UNCHANGED <<commands, asked, turn>>
    PROVE  Plan' /\ Turns'
BY DEF Plan, Turns, At0, At1, At2, commands

LEMMA SameFlags ==
    ASSUME Flags,
           UNCHANGED <<flags, program, asked, commands, command_output_sent, reported>>
    PROVE  Flags'
BY DEF Flags, program, commands, Known, GetState

LEMMA SameReply ==
    ASSUME Reply, UNCHANGED <<commands, command_output_sent, reply>>
    PROVE  Reply'
BY DEF Reply, Pending, commands

\* A prompt with one more to come.
LEMMA ReadPromptRunningStep ==
    ASSUME IInv, ReadPromptRunning
    PROVE  IInv'
<1>1. /\ TypeOK /\ debugger_is_started /\ gdb # "off" /\ Pipe /\ Own
      /\ asked # "none" /\ Working /\ Type(1) = "prompt" /\ Len(stdout) > 0
      /\ Len(stdin) = 0
    BY Reading DEF ReadPromptRunning
<1>2. PICK a \in 0 .. 2, e \in 0 .. 3, owed \in 0 .. 1 :
          Lined(a, e) /\ Counted(a, e, owed) /\ Owes(a, e, owed) /\ Ran(a, e, owed)
    BY <1>1 DEF Pipe
<1>3. /\ stdout' \in Seq(LineType)
      /\ Len(stdout') = Len(stdout) - 1
      /\ \A i \in DOMAIN stdout' : i + 1 \in DOMAIN stdout /\ stdout'[i] = stdout[i + 1]
      /\ a > 0 => Lined(a - 1, e)'
    BY <1>1, <1>2, ReadLine DEF ReadPromptRunning, TypeOK
<1>4. Len(stdin) \in Nat /\ Len(stdout) \in Nat
    BY <1>1 DEF TypeOK
<1>5. a = 1
    <2>1. a # 2
        BY <1>1, <1>2 DEF Lined
    <2>2. ASSUME a = 0 PROVE e = 1
        BY <1>1, <1>2, <1>4, <2>2 DEF Lined
    <2>3. a = 0 => Len(stdin) = 0 /\ owed = 0
        BY <1>1, <1>2, <2>2 DEF Owes, One, Type
    <2>4. a = 0 => debugger_is_busy = 1
        BY <1>2, <2>2, <2>3 DEF Counted, One
    <2>5. QED
        BY <2>1, <2>4 DEF ReadPromptRunning
<1>6. debugger_is_busy \in {1, 2} /\ debugger_is_busy' = 1
    BY <1>1 DEF TypeOK, Working, ReadPromptRunning
<1>7. TypeOK'
    BY <1>1, <1>3, <1>6 DEF TypeOK, ReadPromptRunning, program, commands, client
<1>8. Counted(0, e, owed)' /\ Owes(0, e, owed)'
    BY <1>1, <1>2, <1>3, <1>4, <1>5
       DEF Counted, Owes, One, ReadPromptRunning, Lined, commands, Type
<1>9. Ran(0, e, owed)'
    <2>1. CASE current_cmd.name \in ExecNames
        <3>1. e >= 2 \/ owed = 1 => prog_is_running' /\ flags' = {}
            BY <1>2, <1>5, <2>1 DEF Ran, ReadPromptRunning, program
        <3>2. Len(stdin') = 0
            BY <1>1 DEF ReadPromptRunning, client, program, commands
        <3>3. QED
            BY <2>1, <3>1, <3>2 DEF Ran, ReadPromptRunning, commands
    <2>2. CASE current_cmd.name \notin ExecNames
        BY <1>2, <1>5, <2>2 DEF Ran, ReadPromptRunning, commands
    <2>3. QED
        BY <2>1, <2>2
<1>10. Pipe'
    BY <1>3, <1>5, <1>8, <1>9 DEF Pipe
<1>11. Own'
    <2>1. \A i \in DOMAIN stdout' : stdout'[i].of = current_cmd'
        BY <1>1, <1>3, <1>4 DEF Own, ReadPromptRunning, commands, TypeOK
    <2>2. current_cmd.name \in Parsers => Len(stdout') = 0
        BY <1>2, <1>3, <1>4, <1>5 DEF Ran, Parsers, ExecNames, Lined
    <2>3. QED
        BY <1>1, <1>3, <1>4, <2>1, <2>2 DEF Own, ReadPromptRunning, commands, client, Type
<1>12. Working'
    BY <1>1, <1>6, SamePlan, SameFlags, SameReply
       DEF Working, ReadPromptRunning, client
<1>13. QED
    BY <1>1, <1>7, <1>10, <1>11, <1>12
       DEF IInv, ReadPromptRunning, client, program, Off

\* The next command goes out when nothing is on its way.
LEMMA Executing ==
    ASSUME NEW q \in Seq(CmdType), Len(q) > 0, Execute(q),
           stdin \in Seq(CmdType), Len(stdin) = 0,
           stdout' \in Seq(LineType), Len(stdout') = 0,
           gdb' \in {"on", "dead"}, inferior' # "running",
           gdb' = "dead" => inferior' = "none",
           Head(q).name \in ExecNames => flags' = {},
           stdo_acc \subseteq {current_cmd.turn}, current_cmd \in CmdType,
           current_cmd.name = "keep" => Head(q).turn = current_cmd.turn
    PROVE  /\ Pipe' /\ Own'
           /\ current_cmd' = q[1] /\ current_cmd' \in CmdType
           /\ cmd_queqe' \in Seq(CmdType) /\ Len(cmd_queqe') = Len(q) - 1
           /\ \A i \in DOMAIN cmd_queqe' : i + 1 \in DOMAIN q /\ cmd_queqe'[i] = q[i + 1]
           /\ debugger_is_busy' = 1
           /\ command_output_sent' = FALSE
           /\ stdo_acc' \subseteq 0 .. 1
           /\ stdin' \in Seq(CmdType)
<1>1. /\ current_cmd' = q[1] /\ current_cmd' \in CmdType
      /\ cmd_queqe' \in Seq(CmdType) /\ Len(cmd_queqe') = Len(q) - 1
      /\ debugger_is_busy' = 1
      /\ command_output_sent' = FALSE
    BY DEF Execute
<1>2. \A i \in 1 .. Len(cmd_queqe') : cmd_queqe'[i] = q[i + 1]
    BY DEF Execute
<1>3. \A i \in DOMAIN cmd_queqe' : i + 1 \in DOMAIN q /\ cmd_queqe'[i] = q[i + 1]
    BY <1>1, <1>2
<1>4. stdin' \in Seq(CmdType) /\ Len(stdin') = 1 /\ stdin'[1] = current_cmd'
    BY DEF Execute
<1>5. stdo_acc' \subseteq {current_cmd'.turn} /\ stdo_acc' \subseteq 0 .. 1
    BY <1>1 DEF Execute, CmdType
<1>6. Lined(0, 0)' /\ Counted(0, 0, 0)' /\ Owes(0, 0, 0)' /\ Ran(0, 0, 0)'
    <2>1. Lined(0, 0)'
        BY DEF Lined
    <2>2. Counted(0, 0, 0)'
        BY <1>1, <1>4 DEF Counted, One
    <2>3. Owes(0, 0, 0)'
        BY <1>4 DEF Owes, One
    <2>4. Ran(0, 0, 0)'
        BY <1>1, <1>4 DEF Ran
    <2>5. QED
        BY <2>1, <2>2, <2>3, <2>4
<1>7. Pipe'
    BY <1>6 DEF Pipe
<1>8. Own'
    BY <1>4, <1>5 DEF Own
<1>9. QED
    BY <1>1, <1>3, <1>4, <1>5, <1>7, <1>8

\* The last prompt: nothing is left on its way.
LEMMA LastPrompt ==
    ASSUME IInv, Reads("prompt"), debugger_is_busy = 1
    PROVE  /\ stdout' \in Seq(LineType) /\ Len(stdout') = 0
           /\ gdb \in {"on", "dead"} /\ inferior # "running"
           /\ gdb = "dead" => inferior = "none"
           /\ current_cmd.name \in Parsers => command_output_sent
           /\ current_cmd.name # "gdb-exit"
<1>1. /\ TypeOK /\ debugger_is_started /\ gdb # "off" /\ Pipe /\ Own
      /\ Type(1) = "prompt" /\ Len(stdout) > 0 /\ Len(stdin) = 0 /\ Len(stdout) \in Nat
    BY Reading
<1>2. PICK a \in 0 .. 2, e \in 0 .. 3, owed \in 0 .. 1 :
          Lined(a, e) /\ Counted(a, e, owed) /\ Owes(a, e, owed) /\ Ran(a, e, owed)
    BY <1>1 DEF Pipe
<1>3. a # 2 /\ (a = 0 => e = 1)
    BY <1>1, <1>2 DEF Lined, Type
<1>4. Len(stdout) = 1 /\ owed = 0
    BY <1>1, <1>2, <1>3 DEF Lined, Counted, Owes, One
<1>5. stdout' \in Seq(LineType) /\ Len(stdout') = 0
    BY <1>1, <1>4 DEF Reads, TypeOK
<1>6. gdb \in {"on", "dead"} /\ inferior # "running"
    BY <1>1, <1>2, <1>4 DEF Owes, One, TypeOK
<1>7. gdb = "dead" => inferior = "none"
    BY <1>2 DEF Owes, One
<1>8. (current_cmd.name \in Parsers => command_output_sent) /\ current_cmd.name # "gdb-exit"
    BY <1>1 DEF Own
<1>9. QED
    BY <1>5, <1>6, <1>7, <1>8

\* The next command of the request.
LEMMA ReadPromptNextStep ==
    ASSUME IInv, ReadPromptNext
    PROVE  IInv'
<1>1. /\ TypeOK /\ debugger_is_started /\ gdb # "off" /\ Pipe /\ Own
      /\ asked # "none" /\ Working /\ Len(stdin) = 0
    BY Reading DEF ReadPromptNext
<1>2. /\ Plan /\ Turns /\ Flags /\ Reply
      /\ cmd_queqe \in Seq(CmdType) /\ Len(cmd_queqe) > 0 /\ Len(cmd_queqe) \in Nat
      /\ current_cmd \in CmdType /\ stdin \in Seq(CmdType)
    BY <1>1 DEF Working, TypeOK, ReadPromptNext
<1>3. /\ stdout' \in Seq(LineType) /\ Len(stdout') = 0
      /\ gdb \in {"on", "dead"} /\ inferior # "running"
      /\ gdb = "dead" => inferior = "none"
      /\ current_cmd.name \in Parsers => command_output_sent
    BY LastPrompt DEF ReadPromptNext
<1>4. cmd_queqe[1].name \in ExecNames => flags = {}
    <2>1. asked \in Requests
        BY <1>1 DEF Working
    <2>2. CASE asked \in Runs
        BY <1>2, <2>2 DEF Plan, Flags, Runs, ExecNames, At0, At1, At2
    <2>3. CASE asked \in Launches
        BY <1>2, <2>3 DEF Plan, ExecNames, LaunchNames
    <2>4. CASE asked \notin Launches \cup Runs
        BY <1>2, <2>4 DEF Flags
    <2>5. QED
        BY <2>2, <2>3, <2>4
<1>5. /\ Pipe' /\ Own'
      /\ current_cmd' = cmd_queqe[1] /\ current_cmd' \in CmdType
      /\ cmd_queqe' \in Seq(CmdType) /\ Len(cmd_queqe') = Len(cmd_queqe) - 1
      /\ \A i \in DOMAIN cmd_queqe' :
             i + 1 \in DOMAIN cmd_queqe /\ cmd_queqe'[i] = cmd_queqe[i + 1]
      /\ debugger_is_busy' = 1
      /\ command_output_sent' = FALSE
      /\ stdo_acc' \subseteq 0 .. 1
      /\ stdin' \in Seq(CmdType)
    <2>1. Head(cmd_queqe) = cmd_queqe[1] /\ cmd_queqe[1].turn = current_cmd.turn
        BY <1>2 DEF Turns
    <2>2. Execute(cmd_queqe) /\ gdb' = gdb /\ inferior' = inferior /\ flags' = flags
        BY DEF ReadPromptNext, program, client
    <2>3. stdo_acc \subseteq {current_cmd.turn}
        BY <1>1 DEF Own
    <2>4. QED
        BY <1>1, <1>2, <1>3, <1>4, <2>1, <2>2, <2>3, Executing
<1>6. TypeOK'
    BY <1>1, <1>3, <1>5 DEF TypeOK, ReadPromptNext, program, client
<1>7. asked' = asked /\ turn' = turn /\ reply' = reply /\ flags' = flags
      /\ reported' = reported /\ UNCHANGED program
    BY DEF ReadPromptNext, client
<1>8. Plan'
    <2>1. ASSUME asked \in Launches PROVE Plan'
        <3>1. \A x \in LaunchNames \cup {"attach"} : x # "none"
            BY DEF LaunchNames
        <3> HIDE <3>1
        <3>2. asked' \in Launches /\ asked \notin Runs \cup Steady \cup Quits \cup {"exit"}
            BY <1>7, <2>1, KindFacts DEF Steady, Launches, Quits
        <3>3. QED
            BY <1>2, <1>5, <1>7, <2>1, <3>2, KindFacts, SMTT(30) DEF Plan, Runs, Steady
    <2>2. CASE asked \notin Launches
        BY <1>2, <1>5, <1>7, <2>2 DEF Plan, At0, At1, At2
    <2>3. QED
        BY <2>1, <2>2
<1>9. Turns'
    BY <1>2, <1>5, <1>7 DEF Turns
<1>10. Flags'
    <2>1. asked = "exit" => Len(cmd_queqe) = 0
        BY <1>2 DEF Plan, At0
    <2>2. ASSUME asked \in Runs PROVE current_cmd'.name # "setup"
        BY <1>2, <1>5, <2>2 DEF Plan, Runs, At0, At1, At2
    <2>3. QED
        BY <1>2, <1>7, <2>1, <2>2 DEF Flags, Known, GetState, program
<1>11. Reply'
    <2>1. ASSUME Pending PROVE \E i \in DOMAIN cmd_queqe : cmd_queqe[i].name = "query"
        BY <1>3, <2>1 DEF Pending, Parsers
    <2>2. ASSUME NEW i \in DOMAIN cmd_queqe, cmd_queqe[i].name = "query", i # 1
          PROVE  i - 1 \in DOMAIN cmd_queqe' /\ cmd_queqe'[i - 1].name = "query"
        <3>1. i - 1 \in DOMAIN cmd_queqe'
            BY <1>2, <1>5, <2>2
        <3>2. QED
            BY <1>2, <1>5, <2>2, <3>1
    <2>3. Pending => Pending'
        BY <1>5, <2>1, <2>2 DEF Pending
    <2>4. ASSUME Pending' PROVE Pending
        BY <1>2, <1>5, <2>4 DEF Pending
    <2>5. QED
        BY <1>2, <1>7, <2>3, <2>4 DEF Reply
<1>12. Working'
    BY <1>1, <1>5, <1>7, <1>8, <1>9, <1>10, <1>11 DEF Working
<1>13. QED
    BY <1>1, <1>5, <1>6, <1>7, <1>12
       DEF IInv, ReadPromptNext, client, program, Off

\* The arms of ReadyState exclude each other.
LEMMA ReadyArms ==
    /\ "loading" \in flags => ReadyState = Loaded
    /\ "starting" \in flags /\ "loading" \notin flags =>
           ReadyState = IF prog_is_attached THEN PStopped ELSE Started
    /\ "exiting" \in flags /\ flags \cap {"loading", "starting"} = {} =>
           ReadyState = Loaded
    /\ flags # {} /\ flags \subseteq {"solib_event", "stopping"} =>
           ReadyState = PStopped
    /\ flags = {} => ReadyState = GetState
<1> DEFINE A == "loading" \in flags
           B == "starting" \in flags /\ "loading" \notin flags
           C == "exiting" \in flags /\ flags \cap {"loading", "starting"} = {}
           D == flags # {} /\ flags \subseteq {"solib_event", "stopping"}
           E == flags = {}
           ended == IF prog_is_attached THEN PStopped ELSE Started
<1>1. ~(A /\ B) /\ ~(A /\ C) /\ ~(A /\ D) /\ ~(A /\ E) /\ ~(B /\ C)
      /\ ~(B /\ D) /\ ~(B /\ E) /\ ~(C /\ D) /\ ~(C /\ E) /\ ~(D /\ E)
    OBVIOUS
<1>2. ReadyState = CASE A -> Loaded [] B -> ended [] C -> Loaded
                     [] D -> PStopped [] E -> GetState
    BY DEF ReadyState
<1> HIDE DEF A, B, C, D, E, ended
<1>3. /\ A => ReadyState = Loaded
      /\ B => ReadyState = ended
      /\ C => ReadyState = Loaded
      /\ D => ReadyState = PStopped
      /\ E => ReadyState = GetState
    BY <1>1, <1>2
<1>4. QED
    BY <1>3 DEF A, B, C, D, E, ended

\* What is reported: the state the flags tell, which is the state it is in.
LEMMA Reported ==
    ASSUME TypeOK, Working, cmd_queqe = <<>>, prog_is_attached => prog_is_running,
           current_cmd.name \in Parsers => command_output_sent,
           current_cmd.name # "gdb-exit"
    PROVE  /\ ReadyState \in EndsOf(asked, reported)
           /\ ReadyState \in {Started, Loaded, PStopped}
           /\ ReadyState = GetState \/ (ReadyState = Loaded /\ GetState = Started)
           /\ reply # 1
           /\ current_cmd.name # "keep"
<1>1. Plan /\ Flags /\ Reply /\ asked \in Requests
    BY DEF Working
<1>2. reply # 1
    BY <1>1 DEF Reply, Pending, Parsers
<1>3. current_cmd.name # "keep"
    BY PlanFacts
<1>a. /\ prog_is_running => GetState = PStopped
      /\ ~prog_is_running => GetState \in {Loaded, Started}
      /\ ~prog_is_running /\ ~prog_is_loaded => GetState = Started
      /\ GetState \in {Started, Loaded, PStopped}
    BY DEF GetState
<1>4. CASE asked = "load"
    <2>1. ReadyState = Loaded /\ ~prog_is_running
        BY <1>1, <1>4, ReadyArms DEF Flags
    <2>2. QED
        BY <1>2, <1>3, <1>a, <1>4, <2>1, EndFacts
<1>5. CASE asked = "attach"
    <2>1. /\ ReadyState = IF prog_is_attached THEN PStopped ELSE Started
          /\ ~prog_is_loaded /\ prog_is_running = prog_is_attached
        BY <1>1, <1>5, ReadyArms DEF Flags
    <2>2. CASE prog_is_attached
        BY <1>2, <1>3, <1>a, <1>5, <2>1, <2>2, EndFacts
    <2>3. CASE ~prog_is_attached
        BY <1>2, <1>3, <1>a, <1>5, <2>1, <2>3, EndFacts
    <2>4. QED
        BY <2>2, <2>3
<1>6. CASE asked \in Runs
    <2>1. /\ "exiting" \in flags => ReadyState = Loaded /\ ~prog_is_running
          /\ flags # {} /\ "exiting" \notin flags => ReadyState = PStopped /\ prog_is_running
          /\ flags = {} => ReadyState = GetState
        <3>1. /\ flags \subseteq {"exiting", "solib_event", "stopping"}
              /\ "exiting" \in flags => ~prog_is_running
              /\ flags # {} /\ "exiting" \notin flags => prog_is_running
            BY <1>1, <1>6 DEF Flags
        <3>2. "exiting" \notin flags => flags \subseteq {"solib_event", "stopping"}
            BY <3>1
        <3>3. flags \cap {"loading", "starting"} = {}
            BY <3>1
        <3>4. QED
            BY <3>1, <3>2, <3>3, ReadyArms
    <2>2. EndsOf(asked, reported) = {Started, Loaded, PStopped}
        BY <1>6, EndFacts
    <2>3. QED
        BY <1>2, <1>3, <1>a, <2>1, <2>2
<1>7. CASE asked = "exit"
    <2>1. ReadyState = GetState /\ ~prog_is_running
        <3>1. asked \notin Launches \cup Runs
            BY <1>7, KindFacts DEF Launches
        <3>2. QED
            BY <1>1, <1>7, <3>1, ReadyArms DEF Flags, Parsers
    <2>2. QED
        BY <1>2, <1>3, <1>a, <1>7, <2>1, EndFacts
<1>8. CASE asked \in Steady
    <2>1. ReadyState = GetState /\ Known
        <3>1. asked \notin Launches \cup Runs
            BY <1>8, KindFacts DEF Steady
        <3>2. QED
            BY <1>1, <1>8, <3>1, ReadyArms DEF Flags
    <2>2. EndsOf(asked, reported) =
              IF reported = Loaded THEN {Started, Loaded} ELSE {reported}
        BY <1>8, EndFacts
    <2>3. QED
        BY <1>2, <1>3, <1>a, <2>1, <2>2 DEF Known
<1>9. CASE asked \in Quits
    BY <1>1, <1>9 DEF Plan, At0, At1
<1>10. QED
    BY <1>1, <1>2, <1>3, <1>4, <1>5, <1>6, <1>7, <1>8, <1>9 DEF Requests, Launches

LEMMA ReadPromptReadyStep ==
    ASSUME IInv, ReadPromptReady
    PROVE  IInv'
<1>1. /\ TypeOK /\ debugger_is_started /\ gdb # "off" /\ Own
      /\ Working /\ Len(stdin) = 0
    BY Reading DEF ReadPromptReady
<1>2. /\ stdout' \in Seq(LineType) /\ Len(stdout') = 0
      /\ gdb \in {"on", "dead"} /\ inferior # "running"
      /\ gdb = "dead" => inferior = "none"
      /\ current_cmd.name \in Parsers => command_output_sent
      /\ current_cmd.name # "gdb-exit"
    BY LastPrompt DEF ReadPromptReady
<1>3. /\ ReadyState \in {Started, Loaded, PStopped}
      /\ ReadyState = GetState \/ (ReadyState = Loaded /\ GetState = Started)
      /\ reply # 1
      /\ current_cmd.name # "keep"
    <2>1. (prog_is_attached => prog_is_running) /\ cmd_queqe = <<>>
        BY DEF IInv, ReadPromptReady
    <2>2. QED
        BY <1>1, <1>2, <2>1, Reported
<1>4. TypeOK'
    <2>1. reported' \in Started .. PStopped \cup {Stopped}
        BY <1>3 DEF ReadPromptReady, EmitReady, Started, Loaded, PStopped
    <2>2. debugger_is_busy' \in 0 .. 2 /\ flags' = {} /\ asked' = "none"
        BY DEF ReadPromptReady, EmitReady
    <2>3. QED
        BY <1>1, <1>2, <2>1, <2>2 DEF TypeOK, ReadPromptReady, EmitReady, program, commands
<1>5. Pipe'
    <2>1. Lined(0, 0)'
        BY <1>2 DEF Lined
    <2>2. Counted(0, 0, 0)'
        BY <1>1 DEF Counted, One, ReadPromptReady
    <2>3. Owes(0, 0, 0)'
        BY <1>1, <1>2 DEF Owes, One, ReadPromptReady
    <2>4. Ran(0, 0, 0)'
        BY <1>1, <1>2 DEF Ran, ReadPromptReady
    <2>5. QED
        BY <2>1, <2>2, <2>3, <2>4 DEF Pipe
<1>6. Own'
    BY <1>1, <1>2 DEF Own, ReadPromptReady, commands
<1>7. Idle'
    <2>1. Known'
        BY <1>3 DEF Known, ReadPromptReady, EmitReady, GetState, program
    <2>2. reported' # Stopped
        BY <1>3 DEF ReadPromptReady, EmitReady, Started, Loaded, PStopped, Stopped
    <2>3. QED
        BY <1>2, <1>3, <2>1, <2>2 DEF Idle, ReadPromptReady, EmitReady, commands
<1>8. QED
    BY <1>1, <1>4, <1>5, <1>6, <1>7
       DEF IInv, ReadPromptReady, EmitReady, program

-----------------------------------------------------------------------------
(* The result of the command                                               *)

\* The parser keeps the plan of the request, and what is known of the program.
LEMMA Parsing ==
    ASSUME IInv, NEW failed \in BOOLEAN, Parse(failed), asked # "none",
           UNCHANGED <<current_cmd, reported, asked, turn>>
    PROVE  /\ Plan' /\ Turns' /\ Flags' /\ Reply'
           /\ prog_is_attached' => prog_is_running'
           /\ prog_is_running' \in BOOLEAN /\ prog_is_attached' \in BOOLEAN
           /\ prog_is_loaded' \in BOOLEAN /\ reply' \in Int
           /\ command_output_sent' \in BOOLEAN
           /\ flags' \subseteq {"loading", "starting", "exiting", "solib_event",
                                "stopping"}
           /\ cmd_queqe' \in Seq(CmdType)
           /\ current_cmd.name \in Parsers => command_output_sent'
           /\ current_cmd.name \in ExecNames => flags' = flags /\ prog_is_running' = prog_is_running
<1> DEFINE name == current_cmd.name
<1>1. TypeOK /\ Working /\ Plan /\ Turns /\ Flags /\ Reply /\ asked \in Requests
    BY DEF IInv, Working
<1>2. /\ command_output_sent' = (command_output_sent \/ name \in Parsers)
      /\ prog_is_running' = (name = "attach" \/ (prog_is_running /\ name # "detach"))
      /\ prog_is_attached' = (name = "attach" \/ (prog_is_attached /\ name # "detach"))
      /\ flags' = IF name = "attach" THEN flags \cup {"solib_event"} ELSE flags
      /\ reply' = reply - Calls(failed)
      /\ prog_is_loaded' = prog_is_loaded
      /\ name # "features" => cmd_queqe' = cmd_queqe
    BY DEF Parse
<1>3. prog_is_attached => prog_is_running
    BY DEF IInv
<1>4. /\ prog_is_attached' => prog_is_running'
      /\ prog_is_running' \in BOOLEAN /\ prog_is_attached' \in BOOLEAN
      /\ prog_is_loaded' \in BOOLEAN
      /\ command_output_sent' \in BOOLEAN
      /\ name \in Parsers => command_output_sent'
    <2>1. /\ prog_is_loaded \in BOOLEAN /\ prog_is_running \in BOOLEAN
          /\ prog_is_attached \in BOOLEAN /\ command_output_sent \in BOOLEAN
        BY <1>1 DEF TypeOK
    <2>2. QED
        BY <1>2, <1>3, <2>1, Zenon
<1>5. /\ flags' \subseteq {"loading", "starting", "exiting", "solib_event", "stopping"}
      /\ name \in ExecNames => flags' = flags /\ prog_is_running' = prog_is_running
    <2>1. name \in ExecNames => name # "attach" /\ name # "detach"
        BY DEF ExecNames
    <2>2. name \in ExecNames => (prog_is_running' <=> prog_is_running) /\ flags' = flags
        BY <1>2, <2>1
    <2>3. prog_is_running' \in BOOLEAN /\ prog_is_running \in BOOLEAN
        BY <1>1, <1>4 DEF TypeOK
    <2>4. flags' \subseteq {"loading", "starting", "exiting", "solib_event", "stopping"}
        BY <1>1, <1>2 DEF TypeOK
    <2>5. QED
        BY <2>2, <2>3, <2>4
\* The commands that the answer to -list-features adds.
<1>6. ASSUME name = "features"
      PROVE  /\ cmd_queqe' \in Seq(CmdType)
             /\ \A i \in DOMAIN cmd_queqe' :
                    /\ cmd_queqe'[i].turn = turn
                    /\ \/ cmd_queqe'[i].name \in LaunchNames
                       \/ \E j \in DOMAIN cmd_queqe : cmd_queqe'[i] = cmd_queqe[j]
    <2>1. PICK printers \in {<<>>, <<"printers", "pretty">>} :
              cmd_queqe' = Cmds(<<"solib">>, turn) \o cmd_queqe \o Cmds(printers, turn)
        BY <1>6 DEF Parse
    <2>2. /\ Cmds(<<"solib">>, turn) \in Seq(CmdType) /\ Len(Cmds(<<"solib">>, turn)) = 1
          /\ Cmds(<<"solib">>, turn)[1] = Cmd("solib", turn)
        BY <1>1 DEF Cmds, Cmd, CmdType, CmdName, TypeOK
    <2>3. /\ Cmds(printers, turn) \in Seq(CmdType)
          /\ \A i \in DOMAIN Cmds(printers, turn) :
                 /\ Cmds(printers, turn)[i].turn = turn
                 /\ Cmds(printers, turn)[i].name \in LaunchNames
        <3>1. CASE printers = <<>>
            BY <3>1 DEF Cmds
        <3>2. CASE printers = <<"printers", "pretty">>
            <4>1. /\ Cmd("printers", turn) \in CmdType /\ Cmd("pretty", turn) \in CmdType
                BY <1>1 DEF Cmd, CmdType, CmdName, TypeOK
            <4>2. \A i \in 1 .. 2 : Cmds(printers, turn)[i] \in
                      {Cmd("printers", turn), Cmd("pretty", turn)}
                BY <3>2 DEF Cmds
            <4>3. Cmds(printers, turn) \in Seq(CmdType) /\ Len(Cmds(printers, turn)) = 2
                BY <3>2, <4>1, <4>2 DEF Cmds
            <4>4. QED
                BY <4>2, <4>3 DEF Cmd, LaunchNames
        <3>3. QED
            BY <3>1, <3>2
    <2>4. cmd_queqe \in Seq(CmdType) /\ \A i \in DOMAIN cmd_queqe : cmd_queqe[i].turn = turn
        BY <1>1 DEF TypeOK, Turns
    <2> DEFINE s == Cmds(<<"solib">>, turn)
               p == Cmds(printers, turn)
    <2>5. s[1].turn = turn /\ s[1].name \in LaunchNames
        BY <2>2 DEF Cmd, LaunchNames
    <2> HIDE DEF s, p
    <2>6. QED
        BY <2>1, <2>2, <2>3, <2>4, <2>5 DEF s, p
<1>7. cmd_queqe' \in Seq(CmdType)
    BY <1>1, <1>2, <1>6 DEF TypeOK
<1>8. Turns'
    BY <1>1, <1>2, <1>6 DEF Turns
<1>9. name = "features" => asked \in Launches
    BY <1>1, PlanFacts
<1>10. Plan'
    <2>1. CASE name = "features"
        <3>1. asked \notin Runs \cup Steady \cup Quits \cup {"exit"}
            BY <1>9, <2>1, KindFacts DEF Steady, Launches, Quits
        <3>2. /\ current_cmd'.name \in LaunchNames
              /\ \A i \in DOMAIN cmd_queqe' :
                     cmd_queqe'[i].name \in LaunchNames \cup {n \in {"attach"} : asked = "attach"}
            BY <1>1, <1>6, <1>9, <2>1 DEF Plan, LaunchNames
        <3>3. QED
            BY <3>1, <3>2, KindFacts DEF Plan, Runs, Steady
    <2>2. CASE name # "features"
        BY <1>1, <1>2, <2>2 DEF Plan, At0, At1, At2
    <2>3. QED
        BY <2>1, <2>2
<1>a. /\ reply \in Int /\ reply' \in Int
      /\ IF name = "query" THEN reply' <= reply - 1 ELSE reply' = reply
    BY <1>1, <1>2 DEF TypeOK, Calls
<1>11. Reply'
    <2>1. CASE name = "features"
        <3>1. "query" \notin LaunchNames \cup {n \in {"attach"} : asked = "attach"}
            BY DEF LaunchNames
        <3>2. ~Pending
            BY <1>1, <1>9, <2>1, <3>1 DEF Plan, Pending
        <3>3. ~Pending'
            BY <1>6, <2>1, <3>1, <3>2 DEF Pending
        <3>4. QED
            BY <1>1, <1>a, <2>1, <3>2, <3>3 DEF Reply
    <2>2. CASE name = "query"
        <3>1. ~Pending'
            BY <1>1, <1>2, <2>2, PlanFacts DEF Pending, Parsers
        <3>2. reply' <= 0
            BY <1>1, <1>a, <2>2 DEF Reply
        <3>3. QED
            BY <1>a, <3>1, <3>2 DEF Reply
    <2>3. CASE name \notin {"features", "query"}
        <3>1. Pending' <=> Pending
            BY <1>2, <2>3 DEF Pending
        <3>2. QED
            BY <1>1, <1>a, <2>3, <3>1 DEF Reply
    <2>4. QED
        BY <2>1, <2>2, <2>3
\* The program's flags: an attach is the event of a shared library.
<1>12. /\ name = "attach" => asked = "attach"
       /\ name = "detach" => asked \in Quits \cup {"exit"}
       /\ name = "features" => asked \in Launches
    BY <1>1, PlanFacts
<1>13. name \notin {"attach", "detach"} =>
           flags' = flags /\ UNCHANGED program
    <2>1. /\ prog_is_running \in BOOLEAN /\ prog_is_attached \in BOOLEAN
          /\ prog_is_running' \in BOOLEAN /\ prog_is_attached' \in BOOLEAN
        BY <1>1, <1>4 DEF TypeOK
    <2>2. name \notin {"attach", "detach"} =>
              (prog_is_running' <=> prog_is_running) /\ (prog_is_attached' <=> prog_is_attached)
        BY <1>2
    <2>3. QED
        BY <1>2, <2>1, <2>2 DEF program
<1>14. Flags'
    <2>1. CASE name = "attach"
        <3>1. prog_is_running' = TRUE /\ prog_is_attached' = TRUE
            BY <1>2, <2>1
        <3>2. /\ asked = "attach" /\ "attach" \notin Runs \cup Steady
              /\ "attach" # "load" /\ "attach" # "exit" /\ "attach" \in Launches
            BY <1>12, <2>1, KindFacts DEF Steady, Launches
        <3>3. QED
            BY <1>1, <1>2, <2>1, <3>1, <3>2 DEF Flags
    <2>2. CASE name = "detach"
        <3>1. /\ asked \in Quits \cup {"exit"}
              /\ (Quits \cup {"exit"}) \cap (Runs \cup Steady \cup Launches) = {}
            BY <1>12, <2>2, KindFacts DEF Steady, Launches, Quits
        <3>2. prog_is_running' = FALSE /\ flags' = flags
            BY <1>2, <2>2
        <3>3. QED
            BY <1>1, <3>1, <3>2 DEF Flags, Launches
    <2>3. CASE name \notin {"attach", "detach"}
        <3>1. flags' = flags /\ UNCHANGED program
            BY <1>13, <2>3
        <3>2. asked = "exit" => ~prog_is_running
            BY <1>1, <2>3 DEF Flags
        <3>3. ASSUME asked \in Runs, cmd_queqe' # <<>>, name = "setup" PROVE flags' = {}
            BY <1>1, <1>2, <3>1, <3>3 DEF Flags
        <3>4. Known => Known'
            BY <3>1 DEF Known, GetState, program
        <3>5. QED
            BY <1>1, <3>1, <3>2, <3>3, <3>4 DEF Flags, program
    <2>4. QED
        BY <2>1, <2>2, <2>3
<1>15. QED
    BY <1>1, <1>4, <1>5, <1>7, <1>8, <1>a, <1>10, <1>11, <1>14 DEF Working

\* A result is read, and no second prompt is to come.
LEMMA AnswerRead ==
    ASSUME IInv, NEW type \in {"done", "error", "lost"}, Reads(type),
           UNCHANGED <<debugger_is_busy, gdb, stdin, inferior, resumed, current_cmd>>,
           stdo_acc' \subseteq stdo_acc \cup {Head(stdout).of.turn},
           current_cmd.name \in Parsers => command_output_sent'
    PROVE  /\ Pipe' /\ Own'
           /\ stdout' \in Seq(LineType)
           /\ stdo_acc' \subseteq 0 .. 1
           /\ type = "lost" => current_cmd.name \in ExecNames
           /\ type = "done" => current_cmd.name \notin ExecNames
           /\ current_cmd.name \in ExecNames => flags = {}
<1>1. /\ TypeOK /\ Pipe /\ Own /\ Type(1) = type /\ Len(stdout) > 0
      /\ Len(stdin) = 0 /\ Len(stdout) \in Nat /\ gdb # "off"
    BY Reading
<1>2. PICK a \in 0 .. 2, e \in 0 .. 3, owed \in 0 .. 1 :
          Lined(a, e) /\ Counted(a, e, owed) /\ Owes(a, e, owed) /\ Ran(a, e, owed)
    BY <1>1 DEF Pipe
<1>3. a = 2
    <2>1. a # 1
        BY <1>1, <1>2 DEF Lined
    <2>2. ASSUME a = 0 PROVE FALSE
        <3>1. e \in {1, 2, 3}
            BY <1>1, <1>2, <2>2 DEF Lined
        <3>2. Type(1) \in {"prompt", "stopped", "exited", "solib"}
            BY <1>2, <2>2, <3>1 DEF Lined
        <3>3. QED
            BY <1>1, <3>2
    <2>3. QED
        BY <2>1, <2>2
<1>4. owed = 0 /\ e = 0
    BY <1>1, <1>2, <1>3 DEF Owes, One
<1>5. /\ stdout' \in Seq(LineType) /\ Len(stdout') = 1 /\ Lined(1, 0)'
      /\ \A i \in DOMAIN stdout' : i + 1 \in DOMAIN stdout /\ stdout'[i] = stdout[i + 1]
    BY <1>1, <1>2, <1>3, <1>4, ReadLine DEF TypeOK, Lined
<1>6. Counted(1, 0, 0)'
    BY <1>1, <1>2, <1>3, <1>4 DEF Counted, One
<1>7. Owes(1, 0, 0)'
    BY <1>1, <1>2, <1>3, <1>4, <1>5 DEF Owes, One
<1>8. Ran(1, 0, 0)'
    BY <1>1, <1>2, <1>3, <1>4 DEF Ran
<1>9. Pipe'
    BY <1>5, <1>6, <1>7, <1>8 DEF Pipe
<1>10. Head(stdout).of = current_cmd
    BY <1>1 DEF Own, TypeOK
<1>11. Own'
    <2>1. \A i \in DOMAIN stdout' : stdout'[i].of = current_cmd'
        BY <1>1, <1>5 DEF Own
    <2>2. \A i \in DOMAIN stdin' : stdin'[i] = current_cmd'
        BY <1>1 DEF Own
    <2>3. stdo_acc' \subseteq {current_cmd'.turn}
        BY <1>1, <1>10 DEF Own
    <2>4. inferior' = "running" => resumed' = current_cmd'
        BY <1>1 DEF Own
    <2>5. current_cmd'.name # "gdb-exit"
        BY <1>1 DEF Own
    <2>6. QED
        BY <2>1, <2>2, <2>3, <2>4, <2>5 DEF Own
<1>12. stdo_acc' \subseteq 0 .. 1
    BY <1>1, <1>10 DEF Own, TypeOK, CmdType
<1>13. /\ type = "lost" => current_cmd.name \in ExecNames
       /\ type = "done" => current_cmd.name \notin ExecNames
       /\ current_cmd.name \in ExecNames => flags = {}
    BY <1>1, <1>2, <1>3 DEF Ran
<1>14. QED
    BY <1>5, <1>9, <1>11, <1>12, <1>13

LEMMA ReadDoneStep ==
    ASSUME IInv, ReadDone
    PROVE  IInv'
<1>1. /\ TypeOK /\ debugger_is_started /\ gdb # "off"
      /\ asked # "none" /\ Working
    BY Reading DEF ReadDone
<1>2. CASE current_cmd.name = "keep"
    <2>1. UNCHANGED <<program, flags, cmd_queqe, command_output_sent, reply>>
          /\ stdo_acc' = stdo_acc \cup {Head(stdout).of.turn}
        BY <1>2 DEF ReadDone
    <2>2. /\ Pipe' /\ Own' /\ stdout' \in Seq(LineType) /\ stdo_acc' \subseteq 0 .. 1
        <3>1. current_cmd.name \notin Parsers
            BY <1>2 DEF Parsers
        <3>2. Reads("done") /\ UNCHANGED <<debugger_is_busy, gdb, stdin, inferior, resumed, current_cmd>>
            BY DEF ReadDone
        <3>3. QED
            BY <2>1, <3>1, <3>2, AnswerRead
    <2>3. TypeOK'
        BY <1>1, <2>1, <2>2 DEF TypeOK, ReadDone, program
    <2>4. Working'
        BY <1>1, <2>1, SamePlan, SameFlags, SameReply DEF Working, ReadDone, commands
    <2>5. QED
        BY <1>1, <2>1, <2>2, <2>3, <2>4 DEF IInv, ReadDone, program
<1>3. CASE current_cmd.name # "keep"
    <2>1. Parse(FALSE) /\ stdo_acc' = {}
        BY <1>3 DEF ReadDone
    <2>2. UNCHANGED <<current_cmd, reported, asked, turn>>
        BY DEF ReadDone
    <2>3. /\ Plan' /\ Turns' /\ Flags' /\ Reply'
          /\ prog_is_attached' => prog_is_running'
          /\ prog_is_running' \in BOOLEAN /\ prog_is_attached' \in BOOLEAN
          /\ prog_is_loaded' \in BOOLEAN /\ reply' \in Int
          /\ command_output_sent' \in BOOLEAN
          /\ flags' \subseteq {"loading", "starting", "exiting", "solib_event", "stopping"}
          /\ cmd_queqe' \in Seq(CmdType)
          /\ current_cmd.name \in Parsers => command_output_sent'
        BY <1>1, <2>1, <2>2, Parsing
    <2>4. /\ Pipe' /\ Own' /\ stdout' \in Seq(LineType)
        <3>1. Reads("done") /\ UNCHANGED <<debugger_is_busy, gdb, stdin, inferior, resumed, current_cmd>>
            BY DEF ReadDone
        <3>2. QED
            BY <2>1, <2>3, <3>1, AnswerRead
    <2>5. TypeOK'
        BY <1>1, <2>1, <2>3, <2>4 DEF TypeOK, ReadDone
    <2>6. Working'
        BY <1>1, <2>3 DEF Working, ReadDone
    <2>7. QED
        BY <1>1, <2>3, <2>4, <2>5, <2>6 DEF IInv, ReadDone
<1>4. QED
    BY <1>2, <1>3

LEMMA ReadErrorStep ==
    ASSUME IInv, ReadError
    PROVE  IInv'
<1>1. /\ TypeOK /\ debugger_is_started /\ gdb # "off"
      /\ asked # "none" /\ Working
    BY Reading DEF ReadError
<1>2. Parse(TRUE)
    BY DEF ReadError
<1>3. UNCHANGED <<current_cmd, reported, asked, turn>>
    BY DEF ReadError
<1>4. /\ Plan' /\ Turns' /\ Flags' /\ Reply'
      /\ prog_is_attached' => prog_is_running'
      /\ prog_is_running' \in BOOLEAN /\ prog_is_attached' \in BOOLEAN
      /\ prog_is_loaded' \in BOOLEAN /\ reply' \in Int
      /\ command_output_sent' \in BOOLEAN
      /\ flags' \subseteq {"loading", "starting", "exiting", "solib_event", "stopping"}
      /\ cmd_queqe' \in Seq(CmdType)
      /\ current_cmd.name \in Parsers => command_output_sent'
    BY <1>1, <1>2, <1>3, Parsing
<1>5. /\ Pipe' /\ Own' /\ stdout' \in Seq(LineType) /\ stdo_acc' \subseteq 0 .. 1
    <2>1. Reads("error") /\ UNCHANGED <<debugger_is_busy, gdb, stdin, inferior, resumed, current_cmd>>
        BY DEF ReadError
    <2>2. stdo_acc' \subseteq stdo_acc \cup {Head(stdout).of.turn}
        BY DEF ReadError
    <2>3. QED
        BY <1>4, <2>1, <2>2, AnswerRead
<1>6. TypeOK'
    BY <1>1, <1>4, <1>5 DEF TypeOK, ReadError
<1>7. Working'
    BY <1>1, <1>4 DEF Working, ReadError
<1>8. QED
    BY <1>1, <1>4, <1>5, <1>6, <1>7 DEF IInv, ReadError

\* There is no program to run: what was known of one is forgotten.
LEMMA ReadProgramNotFoundStep ==
    ASSUME IInv, ReadProgramNotFound
    PROVE  IInv'
<1>1. /\ TypeOK /\ debugger_is_started /\ gdb # "off" /\ Own
      /\ asked # "none" /\ Working /\ Type(1) = "lost" /\ Len(stdout) > 0
    BY Reading DEF ReadProgramNotFound
<1>2. /\ Pipe' /\ Own' /\ stdout' \in Seq(LineType) /\ stdo_acc' \subseteq 0 .. 1
      /\ current_cmd.name \in ExecNames /\ flags = {}
    <2>1. current_cmd.name \in Parsers => command_output_sent'
        BY <1>1 DEF Own, ReadProgramNotFound
    <2>2. /\ Reads("lost") /\ stdo_acc' = stdo_acc
          /\ UNCHANGED <<debugger_is_busy, gdb, stdin, inferior, resumed, current_cmd>>
        BY DEF ReadProgramNotFound, commands
    <2>3. QED
        BY <2>1, <2>2, AnswerRead
<1>3. asked \in Runs
    BY <1>1, <1>2, PlanFacts
<1>4. prog_is_loaded' = FALSE /\ prog_is_running' = FALSE /\ prog_is_attached' = FALSE
    BY DEF ReadProgramNotFound
<1>5. TypeOK'
    BY <1>1, <1>2, <1>4 DEF TypeOK, ReadProgramNotFound, commands, client
<1>6. Flags'
    <2>1. asked' \in Runs /\ asked' \notin Launches \cup Steady \cup {"exit"}
        BY <1>3, KindFacts DEF ReadProgramNotFound, client, Steady
    <2>2. flags' = {}
        BY <1>2 DEF ReadProgramNotFound
    <2>3. QED
        BY <2>1, <2>2 DEF Flags, Launches
<1>7. Working'
    BY <1>1, <1>6, SamePlan, SameReply DEF Working, ReadProgramNotFound, client
<1>8. QED
    BY <1>1, <1>2, <1>4, <1>5, <1>7 DEF IInv, ReadProgramNotFound, client

\* The program runs: one more prompt is to come.
LEMMA ReadRunningStep ==
    ASSUME IInv, ReadRunning
    PROVE  IInv'
<1>1. /\ TypeOK /\ debugger_is_started /\ gdb # "off" /\ Pipe /\ Own
      /\ asked # "none" /\ Working /\ Type(1) = "running" /\ Len(stdout) > 0
      /\ Len(stdin) = 0 /\ Len(stdout) \in Nat
    BY Reading DEF ReadRunning
<1>2. PICK a \in 0 .. 2, e \in 0 .. 3, owed \in 0 .. 1 :
          Lined(a, e) /\ Counted(a, e, owed) /\ Owes(a, e, owed) /\ Ran(a, e, owed)
    BY <1>1 DEF Pipe
<1>3. a = 2
    <2>1. a # 1
        BY <1>1, <1>2 DEF Lined
    <2>2. ASSUME a = 0 PROVE FALSE
        <3>1. e \in {1, 2, 3}
            BY <1>1, <1>2, <2>2 DEF Lined
        <3>2. Type(1) \in {"prompt", "stopped", "exited", "solib"}
            BY <1>2, <2>2, <3>1 DEF Lined
        <3>3. QED
            BY <1>1, <3>2
    <2>3. QED
        BY <2>1, <2>2
<1>4. (owed = 1 \/ e > 0) /\ (owed = 1 => e = 0)
    BY <1>1, <1>2, <1>3 DEF Owes, One
<1>5. /\ current_cmd.name \in ExecNames /\ flags = {}
    BY <1>1, <1>2, <1>3 DEF Ran
<1>6. /\ stdout' \in Seq(LineType) /\ Len(stdout') = Len(stdout) - 1 /\ Lined(1, e)'
      /\ \A i \in DOMAIN stdout' : i + 1 \in DOMAIN stdout /\ stdout'[i] = stdout[i + 1]
    BY <1>1, <1>2, <1>3, ReadLine DEF ReadRunning, TypeOK
<1>7. debugger_is_busy = 1 /\ debugger_is_busy' = 2 /\ prog_is_running' = TRUE
    BY <1>1, <1>2, <1>3, <1>4 DEF Counted, One, ReadRunning
<1>8. UNCHANGED <<gdb, stdin, inferior, resumed, commands, command_output_sent, stdo_acc,
                  flags, prog_is_loaded, prog_is_attached, reported, asked, reply, turn,
                  debugger_is_started>>
    BY DEF ReadRunning, client
<1>9. Counted(1, e, owed)'
    BY <1>1, <1>2, <1>4, <1>7, <1>8 DEF Counted, One
<1>10. Owes(1, e, owed)'
    BY <1>1, <1>2, <1>3, <1>4, <1>6, <1>8 DEF Owes, One, commands
<1>11. Ran(1, e, owed)'
    BY <1>1, <1>5, <1>7, <1>8 DEF Ran, commands
<1>12. Pipe'
    BY <1>6, <1>9, <1>10, <1>11 DEF Pipe
<1>13. Own'
    BY <1>1, <1>5, <1>6, <1>8 DEF Own, commands, Parsers, ExecNames
<1>14. TypeOK'
    BY <1>1, <1>6, <1>7, <1>8 DEF TypeOK, commands
<1>15. asked \in Runs
    BY <1>1, <1>5, PlanFacts
<1>16. Flags'
    <2>1. asked' \in Runs /\ asked' \notin Launches \cup Steady \cup {"exit"}
        BY <1>8, <1>15, KindFacts DEF Steady
    <2>2. QED
        BY <1>5, <1>8, <2>1 DEF Flags, Launches
<1>17. Working'
    BY <1>1, <1>7, <1>8, <1>16, SamePlan, SameReply DEF Working
<1>18. QED
    BY <1>1, <1>7, <1>8, <1>12, <1>13, <1>14, <1>17 DEF IInv

\* What the program did is read.
LEMMA EventRead ==
    ASSUME IInv, NEW type \in {"stopped", "exited", "solib"}, Reads(type),
           UNCHANGED <<debugger_is_busy, gdb, stdin, inferior, resumed, commands,
                       command_output_sent, stdo_acc>>
    PROVE  LET left == IF type = "solib" THEN 2 ELSE 1 IN
           /\ Lined(0, left)' /\ Counted(0, left, 0)' /\ Owes(0, left, 0)' /\ Own'
           /\ stdout' \in Seq(LineType)
           /\ current_cmd.name \in ExecNames /\ asked \in Runs /\ prog_is_running
           /\ flags \subseteq {"solib_event"}
           /\ type # "stopped" => flags = {}
<1>1. /\ TypeOK /\ debugger_is_started /\ gdb # "off" /\ Pipe /\ Own
      /\ asked # "none" /\ Working /\ Type(1) = type /\ Len(stdout) > 0
      /\ Len(stdin) = 0 /\ Len(stdout) \in Nat
    BY Reading
<1>2. PICK a \in 0 .. 2, e \in 0 .. 3, owed \in 0 .. 1 :
          Lined(a, e) /\ Counted(a, e, owed) /\ Owes(a, e, owed) /\ Ran(a, e, owed)
    BY <1>1 DEF Pipe
<1>3. a = 0
    BY <1>1, <1>2 DEF Lined
<1>4. e = IF type = "solib" THEN 3 ELSE 2
    <2>1. e \in {1, 2, 3}
        BY <1>1, <1>2, <1>3 DEF Lined
    <2>2. /\ e = 1 => Type(1) = "prompt"
          /\ e = 2 => Type(1) \in {"stopped", "exited"}
          /\ e = 3 => Type(1) = "solib"
        BY <1>2, <1>3 DEF Lined
    <2>3. QED
        BY <1>1, <2>1, <2>2
<1>5. owed = 0
    BY <1>2, <1>4 DEF Owes, One
<1>6. /\ stdout' \in Seq(LineType) /\ Len(stdout') = Len(stdout) - 1 /\ Lined(0, e - 1)'
      /\ \A i \in DOMAIN stdout' : i + 1 \in DOMAIN stdout /\ stdout'[i] = stdout[i + 1]
    BY <1>1, <1>2, <1>3, ReadLine DEF TypeOK
<1>7. Counted(0, e - 1, 0)'
    BY <1>1, <1>2, <1>3, <1>4, <1>5 DEF Counted, One
<1>8. Owes(0, e - 1, 0)'
    BY <1>1, <1>2, <1>4, <1>5, <1>6 DEF Owes, One, commands
<1>9. /\ current_cmd.name \in ExecNames /\ prog_is_running
      /\ flags \subseteq {"solib_event"} /\ (type # "stopped" => flags = {})
    BY <1>1, <1>2, <1>3, <1>4 DEF Ran
<1>10. asked \in Runs
    BY <1>1, <1>9, PlanFacts
<1>11. Own'
    BY <1>1, <1>6, <1>9 DEF Own, commands, Parsers, ExecNames
<1>12. e - 1 = IF type = "solib" THEN 2 ELSE 1
    BY <1>4
<1>13. QED
    BY <1>6, <1>7, <1>8, <1>9, <1>10, <1>11, <1>12

\* The flags of a request to run the program, while it runs.
LEMMA RunsFlags ==
    ASSUME Working, asked \in Runs, current_cmd.name \in ExecNames,
           UNCHANGED <<commands, asked, turn>>,
           flags' \subseteq {"exiting", "solib_event", "stopping"},
           "exiting" \in flags' => ~prog_is_running',
           flags' # {} /\ "exiting" \notin flags' => prog_is_running'
    PROVE  Plan' /\ Turns' /\ Flags'
<1>1. Plan' /\ Turns'
    BY SamePlan DEF Working
<1>2. asked' \in Runs /\ asked' \notin Launches \cup Steady \cup {"exit"}
    BY KindFacts DEF Steady
<1>3. current_cmd'.name # "setup"
    BY DEF ExecNames, commands
<1>4. QED
    BY <1>1, <1>2, <1>3 DEF Flags, Launches

LEMMA ReadStoppedStep ==
    ASSUME IInv, ReadStopped
    PROVE  IInv'
<1>1. /\ TypeOK /\ debugger_is_started /\ gdb # "off" /\ asked # "none" /\ Working
    BY Reading DEF ReadStopped
<1>2. UNCHANGED <<debugger_is_busy, gdb, stdin, inferior, resumed, commands,
                  command_output_sent, stdo_acc, program, reported, asked, reply, turn,
                  debugger_is_started>>
    BY DEF ReadStopped, client
<1>3. /\ Lined(0, 1)' /\ Counted(0, 1, 0)' /\ Owes(0, 1, 0)' /\ Own'
      /\ stdout' \in Seq(LineType)
      /\ current_cmd.name \in ExecNames /\ asked \in Runs /\ prog_is_running
      /\ flags \subseteq {"solib_event"}
    <2>1. Reads("stopped")
        BY DEF ReadStopped
    <2>2. QED
        BY <1>2, <2>1, EventRead
<1>4. Ran(0, 1, 0)'
    BY <1>1, <1>2, <1>3, Reading DEF Ran, ReadStopped, commands
<1>5. Pipe'
    BY <1>3, <1>4 DEF Pipe
<1>6. flags' \subseteq {"solib_event", "stopping"}
    BY <1>3 DEF ReadStopped
<1>7. TypeOK'
    BY <1>1, <1>2, <1>3, <1>6 DEF TypeOK, commands, program
<1>8. Working'
    BY <1>1, <1>2, <1>3, <1>6, RunsFlags, SameReply DEF Working, program
<1>9. QED
    BY <1>1, <1>2, <1>3, <1>5, <1>7, <1>8 DEF IInv, program

LEMMA ReadExitedStep ==
    ASSUME IInv, ReadExited
    PROVE  IInv'
<1>1. /\ TypeOK /\ debugger_is_started /\ gdb # "off" /\ asked # "none" /\ Working
      /\ Len(stdin) = 0
    BY Reading DEF ReadExited
<1>2. UNCHANGED <<debugger_is_busy, gdb, stdin, inferior, resumed, commands,
                  command_output_sent, stdo_acc, prog_is_loaded, reported, asked, reply,
                  turn, debugger_is_started>>
    BY DEF ReadExited, client
<1>3. /\ Lined(0, 1)' /\ Counted(0, 1, 0)' /\ Owes(0, 1, 0)' /\ Own'
      /\ stdout' \in Seq(LineType)
      /\ current_cmd.name \in ExecNames /\ asked \in Runs /\ flags = {}
    <2>1. Reads("exited")
        BY DEF ReadExited
    <2>2. QED
        BY <1>2, <2>1, EventRead
<1>4. Ran(0, 1, 0)'
    BY <1>1, <1>2, <1>3 DEF Ran, commands
<1>5. Pipe'
    BY <1>3, <1>4 DEF Pipe
<1>6. flags' = {"exiting"} /\ prog_is_running' = FALSE /\ prog_is_attached' = FALSE
    BY <1>3 DEF ReadExited
<1>7. TypeOK'
    BY <1>1, <1>2, <1>3, <1>6 DEF TypeOK, commands
<1>8. Working'
    BY <1>1, <1>2, <1>3, <1>6, RunsFlags, SameReply DEF Working
<1>9. QED
    BY <1>1, <1>2, <1>3, <1>5, <1>6, <1>7, <1>8 DEF IInv

LEMMA ReadSolibStep ==
    ASSUME IInv, ReadSolib
    PROVE  IInv'
<1>1. /\ TypeOK /\ debugger_is_started /\ gdb # "off" /\ asked # "none" /\ Working
      /\ Len(stdin) = 0
    BY Reading DEF ReadSolib
<1>2. UNCHANGED <<debugger_is_busy, gdb, stdin, inferior, resumed, commands,
                  command_output_sent, stdo_acc, program, reported, asked, reply, turn,
                  debugger_is_started>>
    BY DEF ReadSolib, client
<1>3. /\ Lined(0, 2)' /\ Counted(0, 2, 0)' /\ Owes(0, 2, 0)' /\ Own'
      /\ stdout' \in Seq(LineType)
      /\ current_cmd.name \in ExecNames /\ asked \in Runs /\ prog_is_running
      /\ flags = {}
    <2>1. Reads("solib")
        BY DEF ReadSolib
    <2>2. QED
        BY <1>2, <2>1, EventRead
<1>a. stdout'[1].type = "stopped"
    <2>1. PICK a \in 0 .. 2, e \in 0 .. 3 : Lined(a, e)
        BY DEF IInv, Pipe
    <2>2. Type(1) = "solib" /\ stdout \in Seq(LineType) /\ stdout' = Tail(stdout)
        BY <1>1, Reading DEF ReadSolib, TypeOK, Reads
    <2>3. a = 0 /\ e = 3
        <3>1. Len(stdout) > 0 /\ Len(stdout) \in Nat
            BY Reading DEF ReadSolib
        <3>2. a = 0
            BY <2>1, <2>2 DEF Lined
        <3>3. /\ e = 1 => Type(1) = "prompt"
              /\ e = 2 => Type(1) \in {"stopped", "exited"}
              /\ e # 0
            BY <2>1, <3>1, <3>2 DEF Lined
        <3>4. QED
            BY <2>2, <3>2, <3>3
    <2>4. Len(stdout) = 3 /\ stdout[2].type = "stopped"
        BY <2>1, <2>3 DEF Lined, Type
    <2>5. QED
        BY <2>2, <2>4
<1>6. flags' = {"solib_event"}
    BY <1>3 DEF ReadSolib
<1>4. Ran(0, 2, 0)'
    BY <1>1, <1>2, <1>3, <1>6, <1>a DEF Ran, commands, Type, program
<1>5. Pipe'
    BY <1>3, <1>4 DEF Pipe
<1>7. TypeOK'
    BY <1>1, <1>2, <1>3, <1>6 DEF TypeOK, commands, program
<1>8. Working'
    BY <1>1, <1>2, <1>3, <1>6, RunsFlags, SameReply DEF Working, program
<1>9. QED
    BY <1>1, <1>2, <1>3, <1>5, <1>7, <1>8 DEF IInv, program

-----------------------------------------------------------------------------
(* gdb and the program                                                     *)

\* A debugger that stops is as it was before it started.
LEMMA StoppedStep ==
    ASSUME DebuggerStopped
    PROVE  IInv'
<1>1. Init'
    BY DEF DebuggerStopped, Init
<1>2. (Init => IInv)'
    BY InitInv, PTL
<1>3. QED
    BY <1>1, <1>2

\* What gdb does disturbs only what is on its way.
LEMMA ProcessStep ==
    ASSUME IInv, UNCHANGED <<debugger, client>>,
           gdb \in {"starting", "on"}, gdb' \in {"on", "dead"},
           stdin' \in Seq(CmdType), stdout' \in Seq(LineType),
           inferior' \in {"none", "stopped", "running"}, resumed' \in CmdType,
           Pipe', Own'
    PROVE  IInv'
<1>1. UNCHANGED <<debugger_is_started, debugger_is_busy, program, flags, commands,
                  command_output_sent, stdo_acc, reported, asked, reply, turn>>
    BY DEF debugger, client
<1>2. TypeOK'
    BY <1>1 DEF IInv, TypeOK, program, commands
<1>3. debugger_is_started
    BY DEF IInv
<1>4. Working => Working'
    BY <1>1, SamePlan, SameFlags, SameReply DEF Working
<1>5. Idle => Idle'
    BY <1>1 DEF Idle, Known, GetState, program, commands
<1>6. QED
    BY <1>1, <1>2, <1>3, <1>4, <1>5 DEF IInv, program

LEMMA GdbStartsStep ==
    ASSUME IInv, GdbStarts
    PROVE  IInv'
<1>1. TypeOK /\ Pipe /\ Own
    BY DEF IInv
<1>2. PICK a \in 0 .. 2, e \in 0 .. 3, owed \in 0 .. 1 :
          Lined(a, e) /\ Counted(a, e, owed) /\ Owes(a, e, owed) /\ Ran(a, e, owed)
    BY <1>1 DEF Pipe
<1>3. /\ UNCHANGED <<debugger, client>> /\ gdb = "starting" /\ gdb' = "on"
      /\ stdin' = stdin /\ inferior' = inferior /\ resumed' = resumed
      /\ current_cmd' = current_cmd /\ debugger_is_busy' = debugger_is_busy
      /\ flags' = flags /\ stdo_acc' = stdo_acc
      /\ prog_is_running' = prog_is_running
    BY DEF GdbStarts, debugger, commands, program
<1>4. /\ owed = 1 /\ Len(stdout) = 0 /\ Len(stdin) = 0 /\ inferior = "none"
      /\ current_cmd.name = "no" /\ a = 0 /\ e = 0
    <2>1. Len(stdin) \in Nat
        BY <1>1 DEF TypeOK
    <2>2. Len(stdout) = 0 /\ inferior = "none" /\ current_cmd.name = "no"
        BY <1>2, <1>3 DEF Owes, One
    <2>3. owed = 1 /\ Len(stdin) <= 1 /\ (Len(stdin) = 1 => owed = 0)
        BY <1>2, <1>3 DEF Owes, One
    <2>4. Len(stdin) = 0
        BY <2>1, <2>3
    <2>5. a = 0 /\ e = 0
        BY <1>2, <2>2 DEF Lined
    <2>6. QED
        BY <2>2, <2>3, <2>4, <2>5
<1>5. /\ stdout' \in Seq(LineType) /\ Len(stdout') = 1
      /\ stdout'[1].type = "prompt" /\ stdout'[1].of = current_cmd
    <2> DEFINE s == Lines(<<"prompt">>, current_cmd)
    <2>1. s \in Seq(LineType) /\ Len(s) = 1 /\ s[1].type = "prompt" /\ s[1].of = current_cmd
        BY <1>1 DEF Lines, LineType, TypeOK
    <2>2. stdout' = stdout \o s /\ stdout \in Seq(LineType)
        BY <1>1 DEF GdbStarts, TypeOK
    <2> HIDE DEF s
    <2>3. QED
        BY <1>4, <2>1, <2>2
<1>6. Lined(1, 0)' /\ Counted(1, 0, 0)' /\ Owes(1, 0, 0)' /\ Ran(1, 0, 0)'
    <2>1. Lined(1, 0)'
        BY <1>5 DEF Lined, Type
    <2>2. Counted(1, 0, 0)'
        BY <1>2, <1>3, <1>4 DEF Counted, One
    <2>3. Owes(1, 0, 0)'
        BY <1>3, <1>4 DEF Owes, One
    <2>4. Ran(1, 0, 0)'
        BY <1>3, <1>4 DEF Ran, ExecNames
    <2>5. QED
        BY <2>1, <2>2, <2>3, <2>4
<1>7. Pipe'
    BY <1>6 DEF Pipe
<1>8. Own'
    BY <1>1, <1>3, <1>4, <1>5 DEF Own, Parsers
<1>9. QED
    BY <1>1, <1>3, <1>5, <1>7, <1>8, ProcessStep DEF TypeOK

LEMMA Lengthened ==
    ASSUME NEW S, NEW s \in Seq(S), NEW t \in Seq(S)
    PROVE  /\ s \o t \in Seq(S) /\ Len(s \o t) = Len(s) + Len(t)
           /\ \A i \in 1 .. Len(s) : (s \o t)[i] = s[i]
           /\ \A i \in 1 .. Len(t) : (s \o t)[Len(s) + i] = t[i]
    OBVIOUS

\* How gdb answers, and what the program does then.
LEMMA AnswerFacts ==
    ASSUME NEW name, NEW answer \in Answers(name),
           inferior \in {"none", "stopped"}
    PROVE  \E t \in {"done", "error", "lost", "running"} :
               /\ answer[1] = <<t, "prompt">>
               /\ answer[2] \in {"none", "stopped", "running"}
               /\ t = "running" <=> answer[2] = "running"
               /\ IF name \in ExecNames THEN t # "done" ELSE t \in {"done", "error"}
<1>1. CASE name = "exec-run"
    BY <1>1 DEF Answers, ExecNames
<1>2. CASE name = "exec"
    <2>1. Answers(name) =
              IF inferior = "none" THEN { <<<<"error", "prompt">>, "none">> }
              ELSE { <<<<"running", "prompt">>, "running">>,
                     <<<<"error", "prompt">>, "stopped">> }
        BY <1>2 DEF Answers
    <2>2. QED
        BY <1>2, <2>1 DEF ExecNames
<1>3. CASE name \notin ExecNames
    <2>1. answer \in { <<<<"done", "prompt">>, "stopped">>, <<<<"done", "prompt">>, "none">>,
                       <<<<"error", "prompt">>, "stopped">>, <<<<"error", "prompt">>, "none">> }
        BY <1>3 DEF Answers, ExecNames
    <2>2. QED
        BY <1>3, <2>1
<1>4. QED
    BY <1>1, <1>2, <1>3 DEF ExecNames

\* gdb has read its command: it was all there was on its way.
LEMMA GdbReading ==
    ASSUME IInv, GdbReads
    PROVE  /\ TypeOK /\ Own /\ gdb = "on" /\ inferior \in {"none", "stopped"}
           /\ Len(stdin) = 1 /\ Head(stdin) = current_cmd
           /\ stdin' \in Seq(CmdType) /\ Len(stdin') = 0
           /\ Len(stdout) = 0
           /\ debugger_is_busy = 1
           /\ current_cmd.name \in ExecNames => flags = {}
<1>1. TypeOK /\ Pipe /\ Own
    BY DEF IInv
<1>2. PICK a \in 0 .. 2, e \in 0 .. 3, owed \in 0 .. 1 :
          Lined(a, e) /\ Counted(a, e, owed) /\ Owes(a, e, owed) /\ Ran(a, e, owed)
    BY <1>1 DEF Pipe
<1>3. Len(stdin) = 1 /\ Len(stdin) \in Nat
    <2>1. Len(stdin) <= 1
        BY <1>2, Zenon DEF Owes
    <2>2. stdin \in Seq(CmdType) /\ stdin # <<>>
        BY <1>1 DEF TypeOK, GdbReads
    <2>3. Len(stdin) \in Nat /\ Len(stdin) # 0
        BY <2>2
    <2>4. \A n \in Nat : n <= 1 /\ n # 0 => n = 1
        OBVIOUS
    <2>5. QED
        BY <2>1, <2>3, <2>4
<1>4. Len(stdout) = 0 /\ owed = 0 /\ a = 0 /\ e = 0
    BY <1>2, <1>3 DEF Owes, One, Lined
<1>5. debugger_is_busy = 1
    BY <1>2, <1>3, <1>4 DEF Counted, One
<1>6. current_cmd.name \in ExecNames => flags = {}
    BY <1>2, <1>3 DEF Ran
<1>7. Head(stdin) = current_cmd /\ stdin' \in Seq(CmdType) /\ Len(stdin') = 0
    BY <1>1, <1>3 DEF Own, TypeOK, GdbReads
<1>8. QED
    BY <1>1, <1>3, <1>4, <1>5, <1>6, <1>7 DEF GdbReads, TypeOK

LEMMA GdbAnswersStep ==
    ASSUME IInv, GdbAnswers
    PROVE  IInv'
<1>1. /\ TypeOK /\ Own /\ gdb = "on" /\ inferior \in {"none", "stopped"}
      /\ Head(stdin) = current_cmd
      /\ stdin' \in Seq(CmdType) /\ Len(stdin') = 0
      /\ Len(stdout) = 0
      /\ debugger_is_busy = 1
      /\ current_cmd.name \in ExecNames => flags = {}
    BY GdbReading DEF GdbAnswers
<1>2. /\ UNCHANGED <<debugger, client>> /\ gdb' = gdb
      /\ current_cmd' = current_cmd /\ debugger_is_busy' = debugger_is_busy
      /\ flags' = flags /\ stdo_acc' = stdo_acc
      /\ prog_is_running' = prog_is_running
      /\ current_cmd.name # "gdb-exit"
    BY <1>1 DEF GdbAnswers, debugger, commands, program
<1>3. PICK answer \in Answers(current_cmd.name) :
          /\ stdout' = stdout \o Lines(answer[1], current_cmd)
          /\ inferior' = answer[2]
          /\ resumed' = IF answer[2] = "running" THEN current_cmd ELSE resumed
    BY <1>1 DEF GdbAnswers
<1>4. PICK t \in {"done", "error", "lost", "running"} :
          /\ answer[1] = <<t, "prompt">>
          /\ inferior' \in {"none", "stopped", "running"}
          /\ t = "running" <=> inferior' = "running"
          /\ IF current_cmd.name \in ExecNames THEN t # "done" ELSE t \in {"done", "error"}
    BY <1>1, <1>3, AnswerFacts
<1>5. /\ stdout' \in Seq(LineType) /\ Len(stdout') = 2
      /\ stdout'[1].type = t /\ stdout'[1].of = current_cmd
      /\ stdout'[2].type = "prompt" /\ stdout'[2].of = current_cmd
    <2> DEFINE s == Lines(<<t, "prompt">>, current_cmd)
    <2>1. \A i \in 1 .. 2 : s[i] \in LineType /\ s[i].of = current_cmd
        BY <1>1 DEF Lines, LineType, TypeOK
    <2>2. s \in Seq(LineType) /\ Len(s) = 2 /\ s[1].type = t /\ s[2].type = "prompt"
        BY <2>1 DEF Lines
    <2>3. stdout' = stdout \o s /\ stdout \in Seq(LineType)
        BY <1>1, <1>3, <1>4 DEF TypeOK
    <2>5. s[1].of = current_cmd /\ s[2].of = current_cmd
        BY <2>1
    <2> HIDE DEF s
    <2>6. /\ Len(stdout \o s) = 2 /\ stdout \o s \in Seq(LineType)
          /\ \A i \in 1 .. Len(s) : (stdout \o s)[0 + i] = s[i]
        BY <1>1, <2>2, <2>3, Lengthened
    <2>7. (stdout \o s)[0 + 1] = s[1] /\ (stdout \o s)[0 + 2] = s[2]
        BY <2>2, <2>6
    <2>8. 0 + 1 = 1 /\ 0 + 2 = 2
        OBVIOUS
    <2>4. QED
        BY <2>2, <2>3, <2>5, <2>6, <2>7, <2>8
<1>6. PICK owed \in 0 .. 1 : owed = One(inferior' = "running")
    BY DEF One
<1>7. Lined(2, 0)' /\ Counted(2, 0, owed)' /\ Owes(2, 0, owed)' /\ Ran(2, 0, owed)'
    <2>1. Lined(2, 0)'
        BY <1>4, <1>5 DEF Lined, Type
    <2>2. Counted(2, 0, owed)'
        BY <1>1, <1>2, <1>4, <1>5, <1>6 DEF Counted, One, Type
    <2>3. Owes(2, 0, owed)'
        BY <1>1, <1>2, <1>4, <1>5, <1>6 DEF Owes, One, Type
    <2>4. Ran(2, 0, owed)'
        BY <1>1, <1>2, <1>4, <1>5, <1>6 DEF Ran, Type
    <2>5. QED
        BY <2>1, <2>2, <2>3, <2>4
<1>8. Pipe'
    BY <1>6, <1>7 DEF Pipe
<1>9. Own'
    <2>1. \A i \in DOMAIN stdout' : stdout'[i].of = current_cmd'
        BY <1>2, <1>5
    <2>2. inferior' = "running" => resumed' = current_cmd'
        BY <1>2, <1>3
    <2>3. current_cmd.name \in Parsers => t \in {"done", "error"}
        BY <1>4 DEF Parsers, ExecNames
    <2>4. QED
        BY <1>1, <1>2, <1>5, <2>1, <2>2, <2>3 DEF Own, Type
<1>10. resumed' \in CmdType
    BY <1>1, <1>3 DEF TypeOK
<1>11. QED
    BY <1>1, <1>2, <1>4, <1>5, <1>8, <1>9, <1>10, ProcessStep

LEMMA GdbExitsStep ==
    ASSUME IInv, GdbExits
    PROVE  IInv'
<1>1. /\ TypeOK /\ Own /\ gdb = "on"
      /\ Head(stdin) = current_cmd
      /\ stdin' \in Seq(CmdType) /\ Len(stdin') = 0
      /\ Len(stdout) = 0
      /\ debugger_is_busy = 1
    BY GdbReading DEF GdbExits
<1>2. /\ UNCHANGED <<debugger, client>> /\ gdb' = "dead" /\ inferior' = "none"
      /\ stdout' = stdout /\ resumed' = resumed
      /\ current_cmd' = current_cmd /\ debugger_is_busy' = debugger_is_busy
      /\ stdo_acc' = stdo_acc
      /\ current_cmd.name = "gdb-exit"
    BY <1>1 DEF GdbExits, debugger, commands
<1>3. Lined(0, 0)' /\ Counted(0, 0, 1)' /\ Owes(0, 0, 1)' /\ Ran(0, 0, 1)'
    <2>1. Lined(0, 0)'
        BY <1>1, <1>2 DEF Lined
    <2>2. Counted(0, 0, 1)'
        BY <1>1, <1>2 DEF Counted, One
    <2>3. Owes(0, 0, 1)'
        BY <1>1, <1>2 DEF Owes, One
    <2>4. Ran(0, 0, 1)'
        BY <1>1, <1>2 DEF Ran, ExecNames
    <2>5. QED
        BY <2>1, <2>2, <2>3, <2>4
<1>4. Pipe'
    BY <1>3 DEF Pipe
<1>5. Own'
    BY <1>1, <1>2 DEF Own
<1>6. QED
    BY <1>1, <1>2, <1>4, <1>5, ProcessStep DEF TypeOK

LEMMA ProgramStopsStep ==
    ASSUME IInv, ProgramStops
    PROVE  IInv'
<1>1. TypeOK /\ Pipe /\ Own /\ gdb = "on" /\ inferior = "running"
    BY DEF IInv, ProgramStops
<1>2. PICK a \in 0 .. 2, e \in 0 .. 3, owed \in 0 .. 1 :
          Lined(a, e) /\ Counted(a, e, owed) /\ Owes(a, e, owed) /\ Ran(a, e, owed)
    BY <1>1 DEF Pipe
<1>3. Len(stdin) \in Nat /\ Len(stdout) \in Nat /\ stdout \in Seq(LineType)
    BY <1>1 DEF TypeOK
<1>4. owed = 1 /\ e = 0
    BY <1>1, <1>2 DEF Owes, One
<1>5. Len(stdin) = 0
    <2>1. Len(stdin) <= 1 /\ (Len(stdin) = 1 => owed = 0)
        BY <1>2 DEF Owes, One
    <2>2. \A n \in Nat : n <= 1 => n = 0 \/ n = 1
        OBVIOUS
    <2>3. QED
        BY <1>3, <1>4, <2>1, <2>2
<1>6. Len(stdout) = a
    BY <1>2, <1>4 DEF Lined
<1>7. current_cmd.name \in ExecNames /\ flags = {}
      /\ (a < 2 => prog_is_running) /\ (a = 2 => Type(1) # "done")
    BY <1>1, <1>2, <1>4 DEF Ran
<1>8. PICK types \in {<<"stopped", "prompt">>, <<"solib", "stopped", "prompt">>,
                      <<"exited", "prompt">>} :
          /\ stdout' = stdout \o Lines(types, resumed)
          /\ inferior' = IF types[1] = "exited" THEN "none" ELSE "stopped"
    BY DEF ProgramStops
<1>9. /\ UNCHANGED <<debugger, client>> /\ gdb' = gdb /\ stdin' = stdin
      /\ resumed' = resumed
      /\ current_cmd' = current_cmd /\ debugger_is_busy' = debugger_is_busy
      /\ flags' = flags /\ stdo_acc' = stdo_acc
      /\ prog_is_running' = prog_is_running
      /\ command_output_sent' = command_output_sent
    BY DEF ProgramStops, debugger, commands, program
<1>10. resumed = current_cmd
    BY <1>1 DEF Own
<1> DEFINE s == Lines(types, current_cmd)
           n == Len(types)
<1>12. /\ n = 2 => types[1] \in {"stopped", "exited"} /\ types[2] = "prompt"
       /\ n = 3 => types[1] = "solib" /\ types[2] = "stopped" /\ types[3] = "prompt"
    <2>1. CASE types = <<"stopped", "prompt">>
        BY <2>1
    <2>2. CASE types = <<"solib", "stopped", "prompt">>
        BY <2>2
    <2>3. CASE types = <<"exited", "prompt">>
        BY <2>3
    <2>4. QED
        BY <1>8, <2>1, <2>2, <2>3
<1>11. /\ n \in {2, 3} /\ Len(s) = n /\ s \in Seq(LineType)
       /\ \A i \in 1 .. n : s[i].of = current_cmd /\ s[i].type = types[i]
    <2>1. current_cmd \in CmdType
        BY <1>1 DEF TypeOK
    <2>2. n \in {2, 3} /\ DOMAIN types = 1 .. n
        BY <1>8
    <2>b. n = 2 => \A i \in 1 .. n : types[i] \in {"stopped", "solib", "exited", "prompt"}
        BY <1>12
    <2>c. n = 3 => \A i \in 1 .. n : types[i] \in {"stopped", "solib", "exited", "prompt"}
        BY <1>12
    <2>3. \A i \in 1 .. n : types[i] \in {"stopped", "solib", "exited", "prompt"}
        BY <2>2, <2>b, <2>c
    <2>4. \A i \in 1 .. n : s[i] = [type |-> types[i], of |-> current_cmd] /\ s[i] \in LineType
        BY <2>1, <2>2, <2>3 DEF Lines, LineType
    <2>5. s = [i \in 1 .. n |-> [type |-> types[i], of |-> current_cmd]]
        BY <2>2 DEF Lines
    <2> HIDE DEF n
    <2>6. s \in Seq(LineType) /\ Len(s) = n
        BY <2>2, <2>4, <2>5
    <2>7. QED
        BY <2>2, <2>4, <2>6
<1>13. stdout' = stdout \o s
    BY <1>8, <1>10
<1>14. inferior' \in {"none", "stopped"}
    BY <1>8
<1> HIDE DEF s, n
<1>15. /\ stdout' \in Seq(LineType) /\ Len(stdout') = a + n
       /\ \A i \in 1 .. a : stdout'[i] = stdout[i]
       /\ \A i \in 1 .. n : stdout'[a + i] = s[i]
    BY <1>3, <1>6, <1>11, <1>13, Lengthened
<1>16. \A i \in 1 .. a : Type(i)' = Type(i)
    BY <1>15 DEF Type
<1>17. \A i \in 1 .. n : Type(a + i)' = types[i]
    BY <1>11, <1>15 DEF Type
<1>18. Lined(a, n)'
    <2>1. CASE n = 2
        BY <1>2, <1>12, <1>15, <1>16, <1>17, <2>1 DEF Lined
    <2>2. CASE n = 3
        BY <1>2, <1>12, <1>15, <1>16, <1>17, <2>2 DEF Lined
    <2>3. QED
        BY <1>11, <2>1, <2>2
<1>19. a = 2 => Type(1)' = Type(1)
    BY <1>16
<1>20. Counted(a, n, 0)'
    BY <1>2, <1>4, <1>5, <1>9, <1>11, <1>19 DEF Counted, One
<1>21. Owes(a, n, 0)'
    BY <1>1, <1>2, <1>4, <1>5, <1>9, <1>11, <1>14, <1>19 DEF Owes, One
<1>22. Ran(a, n, 0)'
    <2>1. current_cmd'.name \in ExecNames /\ flags' = {}
        BY <1>7, <1>9
    <2>2. (a < 2 => prog_is_running') /\ (a = 2 => Type(1)' # "done")
        BY <1>7, <1>9, <1>19
    <2>3. QED
        BY <2>1, <2>2 DEF Ran
<1>23. Pipe'
    BY <1>11, <1>18, <1>20, <1>21, <1>22 DEF Pipe
<1>24. Own'
    <2>1. \A i \in 1 .. a + n : stdout'[i].of = current_cmd
        <3>1. \A i \in 1 .. a : stdout[i].of = current_cmd
            BY <1>1, <1>3, <1>6 DEF Own
        <3>2. \A i \in 1 .. a + n : i \in 1 .. a \/ (i - a \in 1 .. n /\ i = a + (i - a))
            BY <1>11
        <3>3. QED
            BY <1>11, <1>15, <3>1, <3>2
    <2>2. \A i \in DOMAIN stdout' : stdout'[i].of = current_cmd'
        BY <1>9, <1>15, <2>1
    <2>3. inferior' # "running"
        BY <1>14
    <2>4. QED
        BY <1>1, <1>5, <1>7, <1>9, <2>2, <2>3 DEF Own, Parsers, ExecNames
<1>25. resumed' \in CmdType /\ stdin' \in Seq(CmdType)
    BY <1>1, <1>9 DEF TypeOK
<1>26. QED
    BY <1>1, <1>9, <1>14, <1>15, <1>23, <1>24, <1>25, ProcessStep

LEMMA GdbDiesStep ==
    ASSUME IInv, GdbDies
    PROVE  IInv'
<1>1. TypeOK /\ Pipe /\ Own /\ gdb \in {"starting", "on"}
    BY DEF IInv, GdbDies
<1>2. PICK a \in 0 .. 2, e \in 0 .. 3, owed \in 0 .. 1 :
          Lined(a, e) /\ Counted(a, e, owed) /\ Owes(a, e, owed) /\ Ran(a, e, owed)
    BY <1>1 DEF Pipe
<1>3. /\ UNCHANGED <<debugger, client>> /\ gdb' = "dead" /\ inferior' = "none"
      /\ stdin' = stdin /\ stdout' = stdout /\ resumed' = resumed
      /\ current_cmd' = current_cmd /\ debugger_is_busy' = debugger_is_busy
      /\ flags' = flags /\ stdo_acc' = stdo_acc
      /\ prog_is_running' = prog_is_running
      /\ command_output_sent' = command_output_sent
    BY DEF GdbDies, debugger, commands, program
<1>4. Lined(a, e)' /\ Counted(a, e, owed)' /\ Owes(a, e, owed)' /\ Ran(a, e, owed)'
    <2>1. Lined(a, e)'
        BY <1>2, <1>3 DEF Lined, Type
    <2>2. Counted(a, e, owed)'
        BY <1>2, <1>3 DEF Counted, One, Type
    <2>3. Owes(a, e, owed)'
        BY <1>2, <1>3 DEF Owes, One, Type
    <2>4. Ran(a, e, owed)'
        BY <1>2, <1>3 DEF Ran, Type
    <2>5. QED
        BY <2>1, <2>2, <2>3, <2>4
<1>5. Pipe'
    BY <1>4 DEF Pipe
<1>6. Own'
    BY <1>1, <1>3 DEF Own, Type
<1>7. QED
    BY <1>1, <1>3, <1>5, <1>6, ProcessStep DEF TypeOK

-----------------------------------------------------------------------------
(* The requests                                                            *)

LEMMA CmdsFacts ==
    ASSUME NEW names \in Seq(CmdName), NEW t \in 0 .. 1
    PROVE  /\ Cmds(names, t) \in Seq(CmdType) /\ Len(Cmds(names, t)) = Len(names)
           /\ \A i \in 1 .. Len(names) :
                  Cmds(names, t)[i].name = names[i] /\ Cmds(names, t)[i].turn = t
<1> DEFINE s == Cmds(names, t)
<1>1. DOMAIN names = 1 .. Len(names) /\ Len(names) \in Nat
    OBVIOUS
<1>2. s = [i \in 1 .. Len(names) |-> Cmd(names[i], t)]
    BY <1>1 DEF Cmds
<1>3. \A i \in 1 .. Len(names) : Cmd(names[i], t) \in CmdType
    BY DEF Cmd, CmdType
<1>4. \A i \in 1 .. Len(names) : s[i].name = names[i] /\ s[i].turn = t
    BY <1>2 DEF Cmd
<1>5. s \in Seq(CmdType) /\ Len(s) = Len(names)
    BY <1>1, <1>2, <1>3
<1>6. QED
    BY <1>4, <1>5

\* A new Debugger, and a new gdb.
LEMMA LaunchStep ==
    ASSUME IInv, NEW k \in Launches, NEW names \in Seq(CmdName), Ask(k), Launch(k, names),
           \A i \in 1 .. Len(names) :
               names[i] \in LaunchNames \cup {n \in {"attach"} : k = "attach"}
    PROVE  IInv'
<1>1. TypeOK
    BY DEF IInv
<1>2. 1 - turn \in 0 .. 1 /\ turn' = 1 - turn
    BY <1>1 DEF TypeOK, Ask
<1>3. /\ cmd_queqe' \in Seq(CmdType)
      /\ \A i \in DOMAIN cmd_queqe' :
             /\ cmd_queqe'[i].name \in LaunchNames \cup {n \in {"attach"} : k = "attach"}
             /\ cmd_queqe'[i].turn = turn'
    <2>1. cmd_queqe' = Cmds(names, 1 - turn)
        BY DEF Launch
    <2>2. DOMAIN cmd_queqe' = 1 .. Len(names)
        BY <1>2, <2>1, CmdsFacts
    <2>3. QED
        BY <1>2, <2>1, <2>2, CmdsFacts
<1>4. /\ debugger_is_started' = TRUE /\ debugger_is_busy' = 1
      /\ prog_is_running' = FALSE /\ prog_is_attached' = FALSE
      /\ flags' = {"starting"} \cup (IF k = "load" THEN {"loading"} ELSE {})
      /\ command_output_sent' = FALSE /\ stdo_acc' = {}
      /\ gdb' = "starting" /\ stdin' = <<>> /\ stdout' = <<>> /\ inferior' = "none"
    BY DEF Launch
<1>5. /\ current_cmd' \in CmdType /\ resumed' \in CmdType
      /\ current_cmd'.name = "no" /\ current_cmd'.turn = turn'
    BY <1>2 DEF Launch, Cmd, CmdType, CmdName
<1>6. k \in Used /\ asked' = k /\ reported' = reported
    BY DEF Ask
<1>7. reply' = 0 /\ ~Pending'
    <2>1. k \notin Asks
        BY KindFacts
    <2>2. "query" \notin LaunchNames \cup {n \in {"attach"} : k = "attach"}
        BY DEF LaunchNames
    <2>3. ~Pending'
        BY <1>3, <1>5, <2>2 DEF Pending
    <2>4. QED
        BY <2>1, <2>3 DEF Ask
<1>8. prog_is_loaded' = (k = "load")
    BY DEF Launch
<1>9. TypeOK'
    <2>1. stdin' \in Seq(CmdType) /\ stdout' \in Seq(LineType)
        BY <1>4
    <2>2. /\ debugger_is_started' \in BOOLEAN /\ prog_is_loaded' \in BOOLEAN
          /\ prog_is_running' \in BOOLEAN /\ prog_is_attached' \in BOOLEAN
          /\ command_output_sent' \in BOOLEAN
        BY <1>4, <1>8, Zenon
    <2>a. reply' \in Int
        BY <1>7
    <2>3. flags' \subseteq {"loading", "starting", "exiting", "solib_event", "stopping"}
        BY <1>4
    <2>4. QED
        BY <1>1, <1>2, <1>3, <1>4, <1>5, <1>6, <2>1, <2>2, <2>3, <2>a DEF TypeOK
<1>10. Pipe'
    <2>1. Len(stdin') = 0 /\ Len(stdout') = 0
        BY <1>4
    <2>2. Lined(0, 0)' /\ Counted(0, 0, 1)' /\ Owes(0, 0, 1)' /\ Ran(0, 0, 1)'
        BY <1>4, <1>5, <2>1 DEF Lined, Counted, Owes, Ran, One, ExecNames
    <2>3. QED
        BY <2>2 DEF Pipe
<1>11. Own'
    BY <1>4, <1>5 DEF Own, Parsers
<1>12. Turns'
    BY <1>3, <1>5 DEF Turns
<1>13. k \notin Runs \cup Steady \cup Quits \cup {"exit"}
    BY KindFacts DEF Steady, Launches, Quits
<1>14. Plan'
    BY <1>3, <1>5, <1>6, <1>13, KindFacts DEF Plan, Runs, Steady
<1>15. Flags'
    <2>1. k = "attach" => prog_is_loaded' = FALSE
        BY <1>8
    <2>2. QED
        BY <1>4, <1>6, <1>13, <2>1 DEF Flags, Launches
<1>16. Working'
    BY <1>4, <1>6, <1>7, <1>12, <1>14, <1>15 DEF Working, Reply, Requests
<1>17. k # "none"
    BY DEF Launches
<1>18. QED
    BY <1>4, <1>6, <1>9, <1>10, <1>11, <1>16, <1>17 DEF IInv

\* An idle debugger has nothing on its way.
LEMMA IdleFacts ==
    ASSUME IInv, debugger_is_started, asked = "none"
    PROVE  /\ TypeOK /\ Own /\ Idle
           /\ Len(stdin) = 0 /\ Len(stdout) = 0
           /\ gdb \in {"on", "dead"} /\ inferior # "running"
           /\ gdb = "dead" => inferior = "none"
<1>1. TypeOK /\ Pipe /\ Own /\ Idle /\ gdb # "off"
    BY DEF IInv
<1>2. PICK a \in 0 .. 2, e \in 0 .. 3, owed \in 0 .. 1 :
          Lined(a, e) /\ Counted(a, e, owed) /\ Owes(a, e, owed) /\ Ran(a, e, owed)
    BY <1>1 DEF Pipe
<1>3. Len(stdin) \in Nat /\ debugger_is_busy = 0
    BY <1>1 DEF TypeOK, Idle
<1>4. a = 2 => (Type(1) = "running" <=> owed = 1 \/ e > 0)
    BY <1>2 DEF Owes, One
<1>5. Len(stdin) = 0 /\ owed = 0 /\ a = 0 /\ e = 0
    <2> DEFINE r == a = 2 /\ Type(1) = "running"
    <2>1. r => a = 2 /\ (owed = 1 \/ e > 0)
        BY <1>4
    <2>2. 0 = One(a > 0) - One(r) + One(e > 0) + Len(stdin) + owed
        BY <1>2, <1>3 DEF Counted
    <2> HIDE DEF r
    <2>3. QED
        BY <1>3, <2>1, <2>2 DEF One
<1>6. Len(stdout) = 0
    BY <1>2, <1>5 DEF Lined
<1>7. gdb = "dead" \/ owed = One(gdb = "starting" \/ inferior = "running")
    BY <1>2 DEF Owes
<1>8. gdb = "dead" => inferior = "none"
    BY <1>2 DEF Owes, One
<1>9. gdb \in {"on", "dead"} /\ inferior # "running"
    BY <1>1, <1>5, <1>7, <1>8 DEF One, Idle, TypeOK
<1>10. QED
    BY <1>1, <1>5, <1>6, <1>8, <1>9

\* A request is made of an idle debugger, which writes its first command.
LEMMA Requesting ==
    ASSUME IInv, NEW k \in Requests \ Launches, NEW names \in Seq(CmdName),
           Len(names) > 0, Request(k, names)
    PROVE  /\ TypeOK /\ debugger_is_started /\ gdb # "off" /\ Known /\ reported \in Need(k)
           /\ Pipe' /\ Own' /\ Turns'
           /\ current_cmd'.name = names[1]
           /\ Len(cmd_queqe') = Len(names) - 1
           /\ \A i \in 1 .. Len(names) - 1 : cmd_queqe'[i].name = names[i + 1]
           /\ debugger_is_busy' = 1 /\ command_output_sent' = FALSE
           /\ current_cmd' \in CmdType /\ cmd_queqe' \in Seq(CmdType)
           /\ stdo_acc' \subseteq 0 .. 1 /\ stdin' \in Seq(CmdType)
           /\ turn' \in 0 .. 1
           /\ flags' = {}
<1> DEFINE q == Cmds(names, 1 - turn)
<1>1. TypeOK
    BY DEF IInv
<1>2. reported \in Need(k) /\ asked = "none" /\ turn' = 1 - turn
    BY DEF Request, Ask
<1>3. debugger_is_started
    BY <1>2, NeedFacts DEF IInv, Off
<1>4. /\ Own /\ Idle
      /\ Len(stdin) = 0 /\ Len(stdout) = 0
      /\ gdb \in {"on", "dead"} /\ inferior # "running"
      /\ gdb = "dead" => inferior = "none"
    BY <1>2, <1>3, IdleFacts
<1>5. 1 - turn \in 0 .. 1
    BY <1>1 DEF TypeOK
<1>6. /\ q \in Seq(CmdType) /\ Len(q) = Len(names)
      /\ \A i \in 1 .. Len(names) : q[i].name = names[i] /\ q[i].turn = 1 - turn
    BY <1>5, CmdsFacts
<1>7. Queue(q)
    BY DEF Request
<1> HIDE DEF q
<1>8. cmd_queqe = <<>> /\ debugger_is_busy = 0 /\ flags = {} /\ current_cmd.name # "keep"
    BY <1>4 DEF Idle
<1>9. cmd_queqe \o q = q /\ q # <<>>
    BY <1>6, <1>8
<1>10. Execute(q)
    BY <1>7, <1>8, <1>9 DEF Queue
<1>11. flags' = {} /\ gdb' = gdb /\ inferior' = inferior /\ stdout' = stdout
    BY <1>8 DEF Request
<1>12. /\ Pipe' /\ Own'
       /\ current_cmd' = q[1] /\ current_cmd' \in CmdType
       /\ cmd_queqe' \in Seq(CmdType) /\ Len(cmd_queqe') = Len(q) - 1
       /\ \A i \in DOMAIN cmd_queqe' : i + 1 \in DOMAIN q /\ cmd_queqe'[i] = q[i + 1]
       /\ debugger_is_busy' = 1
       /\ command_output_sent' = FALSE
       /\ stdo_acc' \subseteq 0 .. 1
       /\ stdin' \in Seq(CmdType)
    <2>1. /\ stdin \in Seq(CmdType) /\ stdout' \in Seq(LineType) /\ Len(stdout') = 0
          /\ current_cmd \in CmdType /\ stdo_acc \subseteq {current_cmd.turn}
        BY <1>1, <1>4, <1>11 DEF TypeOK, Own
    <2>2. Len(q) > 0
        BY <1>6
    <2>3. /\ gdb' \in {"on", "dead"} /\ inferior' # "running"
          /\ gdb' = "dead" => inferior' = "none"
        BY <1>4, <1>11
    <2>4. QED
        BY <1>4, <1>6, <1>8, <1>10, <1>11, <2>1, <2>2, <2>3, Executing
<1>13. /\ current_cmd'.name = names[1] /\ current_cmd'.turn = turn'
       /\ Len(cmd_queqe') = Len(names) - 1
       /\ \A i \in 1 .. Len(names) - 1 :
              cmd_queqe'[i].name = names[i + 1] /\ cmd_queqe'[i].turn = turn'
    <2>1. DOMAIN cmd_queqe' = 1 .. Len(names) - 1 /\ Len(names) \in Nat
        BY <1>6, <1>12
    <2>2. QED
        BY <1>2, <1>6, <1>12, <2>1
<1>14. Turns'
    BY <1>12, <1>13 DEF Turns
<1>15. Known
    BY <1>4 DEF Idle
<1>16. QED
    BY <1>1, <1>2, <1>3, <1>4, <1>5, <1>11, <1>12, <1>13, <1>14, <1>15

LEMMA RequestStep ==
    ASSUME IInv, NEW k \in Requests \ Launches, NEW names \in Seq(CmdName),
           Len(names) > 0, Request(k, names),
           prog_is_loaded' = prog_is_loaded, prog_is_attached' = prog_is_attached,
           prog_is_running' \in BOOLEAN, prog_is_attached => prog_is_running',
           k # "exit" => prog_is_running' = prog_is_running,
           k = "exit" /\ prog_is_running' => names[1] = "detach",
           k \in Asks => \E i \in 1 .. Len(names) : names[i] = "query",
           Plan'
    PROVE  IInv'
<1>1. /\ TypeOK /\ debugger_is_started /\ gdb # "off" /\ Known
      /\ Pipe' /\ Own' /\ Turns'
      /\ current_cmd'.name = names[1]
      /\ Len(cmd_queqe') = Len(names) - 1
      /\ \A i \in 1 .. Len(names) - 1 : cmd_queqe'[i].name = names[i + 1]
      /\ debugger_is_busy' = 1 /\ command_output_sent' = FALSE
      /\ current_cmd' \in CmdType /\ cmd_queqe' \in Seq(CmdType)
      /\ stdo_acc' \subseteq 0 .. 1 /\ stdin' \in Seq(CmdType)
      /\ turn' \in 0 .. 1
      /\ flags' = {}
    BY Requesting
<1>2. /\ debugger_is_started' = debugger_is_started /\ gdb' = gdb /\ stdout' = stdout
      /\ inferior' = inferior /\ resumed' = resumed
      /\ k \in Used /\ asked' = k /\ reported' = reported
      /\ reply' = IF k \in Asks THEN 1 ELSE 0
    BY DEF Request, Ask
<1>3. TypeOK'
    <2>1. prog_is_attached' \in BOOLEAN /\ prog_is_loaded' \in BOOLEAN
          /\ debugger_is_started' \in BOOLEAN
        BY <1>1, <1>2 DEF TypeOK
    <2>a. reply' \in Int
        BY <1>2
    <2>b. command_output_sent' \in BOOLEAN
        BY <1>1
    <2>2. reply' \in Int /\ command_output_sent' \in BOOLEAN
        BY <2>a, <2>b
    <2>3. debugger_is_busy' \in 0 .. 2
        BY <1>1
    <2>4. QED
        BY <1>1, <1>2, <2>1, <2>2, <2>3 DEF TypeOK
<1>4. Reply'
    <2>1. ASSUME k \in Asks
          PROVE  Pending'
        <3>1. PICK i \in 1 .. Len(names) : names[i] = "query"
            BY <2>1
        <3>2. CASE i = 1
            BY <1>1, <3>1, <3>2 DEF Pending
        <3>3. CASE i # 1
            <4>1. Len(names) \in Nat /\ i - 1 \in 1 .. Len(names) - 1 /\ i - 1 + 1 = i
                BY <3>3
            <4>2. i - 1 \in DOMAIN cmd_queqe'
                BY <1>1, <4>1
            <4>3. cmd_queqe'[i - 1].name = names[i - 1 + 1]
                BY <1>1, <4>1
            <4>4. QED
                BY <3>1, <4>1, <4>2, <4>3 DEF Pending
        <3>4. QED
            BY <3>2, <3>3
    <2>2. ASSUME k \notin Asks PROVE ~Pending'
        <3>1. \/ k \in Tells \cup Selects \cup Quits \cup {"exit"}
              \/ k \in {"start"} \cup StepKinds
            BY <2>2, KindFacts DEF Requests, Steady, Runs
        <3>2. CASE k \in Tells \cup Selects \cup Quits \cup {"exit"}
            BY <1>2, <3>2 DEF Plan, Pending, At0, At1
        <3>3. CASE k \in {"start"} \cup StepKinds
            BY <1>2, <3>3 DEF Plan, Pending, At0, At1, At2
        <3>4. QED
            BY <3>1, <3>2, <3>3
    <2>3. QED
        BY <1>2, <2>1, <2>2 DEF Reply
<1>5. Flags'
    <2>1. k \notin Launches /\ k # "load" /\ k # "attach"
        BY DEF Launches
    <2>2. k \in Steady => k # "exit"
        BY KindFacts DEF Steady
    <2>3. k # "exit" => Known'
        BY <1>1, <1>2 DEF Known, GetState
    <2>4. QED
        BY <1>1, <1>2, <2>1, <2>2, <2>3 DEF Flags
<1>6. Working'
    BY <1>1, <1>2, <1>4, <1>5 DEF Working
<1>7. k # "none"
    BY KindFacts
<1>8. QED
    BY <1>1, <1>2, <1>3, <1>6, <1>7 DEF IInv

\* The commands a request may queue.
NameLists == {<<"setup", "exec-run", "info">>, <<"exec-run", "info">>, <<"exec">>,
    <<"setup", "exec">>, <<"query">>, <<"keep", "query">>,
    <<"select", "query", "select">>, <<"tell">>, <<"select">>,
    <<"detach", "gdb-exit">>, <<"gdb-exit">>, <<"detach">>, <<"kill">>,
    <<"features", "sigint">>, <<"features", "sigint", "attach">>}

LEMMA NamesFacts ==
    \A names \in NameLists : names \in Seq(CmdName) /\ Len(names) > 0
<1> SUFFICES ASSUME NEW names \in NameLists
             PROVE  names \in Seq(CmdName) /\ Len(names) > 0
    OBVIOUS
<1>1. \A x \in CmdName : <<x>> \in Seq(CmdName) /\ Len(<<x>>) > 0
    OBVIOUS
<1>2. \A x, y \in CmdName : <<x, y>> \in Seq(CmdName) /\ Len(<<x, y>>) > 0
    OBVIOUS
<1>3. \A x, y, z \in CmdName : <<x, y, z>> \in Seq(CmdName) /\ Len(<<x, y, z>>) > 0
    OBVIOUS
<1>4. \/ \E x \in CmdName : names = <<x>>
      \/ \E x, y \in CmdName : names = <<x, y>>
      \/ \E x, y, z \in CmdName : names = <<x, y, z>>
    BY ZenonT(60) DEF NameLists, CmdName
<1>5. QED
    BY <1>1, <1>2, <1>3, <1>4

\* What the debug manager has been told is what the request goes by.
LEMMA AskFacts ==
    ASSUME IInv, NEW k \in Requests \ Launches, Ask(k)
    PROVE  /\ Known /\ asked' = k
           /\ prog_is_loaded \in BOOLEAN /\ prog_is_running \in BOOLEAN
           /\ prog_is_attached \in BOOLEAN
           /\ prog_is_attached => prog_is_running
           /\ reported = PStopped => prog_is_running
           /\ reported = Loaded => ~prog_is_running
<1>1. TypeOK /\ (prog_is_attached => prog_is_running)
    BY DEF IInv
<1>2. reported \in Need(k) /\ asked = "none" /\ asked' = k
    BY DEF Ask
<1>3. debugger_is_started
    BY <1>2, NeedFacts DEF IInv, Off
<1>4. Known
    BY <1>2, <1>3, IdleFacts DEF Idle
<1>5. /\ reported = PStopped => prog_is_running
      /\ reported = Loaded => ~prog_is_running
    BY <1>1, <1>4 DEF Known, GetState, PStopped, Loaded, Started
<1>6. QED
    BY <1>1, <1>2, <1>4, <1>5 DEF TypeOK

\* A request that leaves what is known of the program alone.
LEMMA PlainStep ==
    ASSUME IInv, NEW k \in Requests \ (Launches \cup {"exit"}), NEW names \in Seq(CmdName),
           Len(names) > 0, Request(k, names), UNCHANGED program,
           k \in Asks => \E i \in 1 .. Len(names) : names[i] = "query",
           Plan'
    PROVE  IInv'
<1>1. Ask(k)
    BY DEF Request
<1>2. /\ prog_is_loaded' = prog_is_loaded /\ prog_is_attached' = prog_is_attached
      /\ prog_is_running' = prog_is_running
    BY DEF program
<1>3. k \in Requests \ Launches /\ k # "exit"
    OBVIOUS
<1>4. prog_is_running' \in BOOLEAN /\ (prog_is_attached => prog_is_running')
    BY <1>1, <1>2, <1>3, AskFacts
<1>5. QED
    BY <1>2, <1>3, <1>4, RequestStep

LEMMA StartStep ==
    ASSUME IInv, Start
    PROVE  IInv'
<1> DEFINE k == "start"
<1>1. k \in Runs /\ k \in Requests \ (Launches \cup {"exit"}) /\ k \notin Asks /\ k \notin StepKinds
    BY KindFacts DEF Runs, Requests, Launches
<1>2. PICK setup \in BOOLEAN :
          Request(k, IF prog_is_running THEN <<>>
                     ELSE IF setup THEN <<"setup", "exec-run", "info">>
                     ELSE <<"exec-run", "info">>)
    BY DEF Start
<1>3. ~prog_is_running
    BY <1>1, <1>2, AskFacts DEF Request, Start
<1>4. PICK names \in {<<"setup", "exec-run", "info">>, <<"exec-run", "info">>} :
          Request(k, names)
    BY <1>2, <1>3
<1>5. names \in Seq(CmdName) /\ Len(names) > 0
    BY NamesFacts DEF NameLists
<1>6. Plan'
    <2>1. asked' = k
        BY <1>4 DEF Request, Ask
    <2>2. /\ current_cmd'.name = names[1]
          /\ Len(cmd_queqe') = Len(names) - 1
          /\ \A i \in 1 .. Len(names) - 1 : cmd_queqe'[i].name = names[i + 1]
        BY <1>1, <1>4, <1>5, Requesting
    <2>3. At2("setup", "exec-run", "info")' \/ At1("exec-run", "info")'
        <3>1. CASE names = <<"setup", "exec-run", "info">>
            BY <2>2, <3>1 DEF At2
        <3>2. CASE names = <<"exec-run", "info">>
            BY <2>2, <3>2 DEF At1
        <3>3. QED
            BY <3>1, <3>2
    <2>4. k \notin Launches \cup Asks \cup Tells \cup Selects \cup Quits \cup {"exit"}
        BY <1>1, KindFacts
    <2>5. QED
        BY <1>1, <2>1, <2>3, <2>4, KindFacts DEF Plan
<1>7. UNCHANGED program
    BY DEF Start
<1>8. QED
    BY <1>1, <1>4, <1>5, <1>6, <1>7, PlainStep

LEMMA RunStep ==
    ASSUME IInv, Run \/ RunTo
    PROVE  IInv'
<1>1. PICK k \in StepKinds, names \in {<<"exec">>, <<"setup", "exec">>} :
          Resume(k, names)
    BY DEF Run, RunTo, StepKinds
<1>2. k \in Runs /\ k \in Requests \ (Launches \cup {"exit"}) /\ k \notin Asks /\ k # "start"
    BY KindFacts DEF Runs, Requests, Launches
<1>3. prog_is_running
    <2>1. reported = PStopped /\ Ask(k)
        BY <1>1, NeedFacts DEF Resume, Request, Ask
    <2>2. QED
        BY <1>2, <2>1, AskFacts
<1>4. Request(k, names) /\ UNCHANGED program
    BY <1>1, <1>3 DEF Resume
<1>5. names \in Seq(CmdName) /\ Len(names) > 0
    BY NamesFacts DEF NameLists
<1>6. Plan'
    <2>1. asked' = k
        BY <1>4 DEF Request, Ask
    <2>2. /\ current_cmd'.name = names[1]
          /\ Len(cmd_queqe') = Len(names) - 1
          /\ \A i \in 1 .. Len(names) - 1 : cmd_queqe'[i].name = names[i + 1]
        BY <1>2, <1>4, <1>5, Requesting
    <2>3. At1("setup", "exec")' \/ At0("exec")'
        <3>1. CASE names = <<"setup", "exec">>
            BY <2>2, <3>1 DEF At1
        <3>2. CASE names = <<"exec">>
            BY <2>2, <3>2 DEF At0
        <3>3. QED
            BY <3>1, <3>2
    <2>4. k \notin Launches \cup Asks \cup Tells \cup Selects \cup Quits \cup {"exit"}
        BY <1>2, KindFacts
    <2>5. QED
        BY <1>2, <2>1, <2>3, <2>4, KindFacts DEF Plan
<1>7. QED
    BY <1>2, <1>4, <1>5, <1>6, PlainStep

LEMMA QueryStep ==
    ASSUME IInv, Query \/ ListLocal \/ InfoThread
    PROVE  IInv'
<1> DEFINE P(k, names) ==
               /\ Request(k, names) /\ UNCHANGED program
               /\ \/ k \in Queries /\ names = <<"query">>
                  \/ k \in Lists /\ names = <<"keep", "query">>
                  \/ k = "info_thread" /\ names = <<"select", "query", "select">>
<1>0. \E k \in Asks : \E names \in NameLists : P(k, names)
    <2>1. CASE Query
        <3>1. PICK k \in Queries : Request(k, <<"query">>) /\ UNCHANGED program
            BY <2>1 DEF Query, Queries
        <3>2. k \in Asks /\ <<"query">> \in NameLists /\ P(k, <<"query">>)
            BY <3>1, KindFacts DEF NameLists
        <3> HIDE DEF P
        <3>3. QED
            BY <3>2
    <2>2. CASE ListLocal
        <3>1. PICK k \in Lists : Request(k, <<"keep", "query">>) /\ UNCHANGED program
            BY <2>2 DEF ListLocal, Lists
        <3>2. k \in Asks /\ <<"keep", "query">> \in NameLists /\ P(k, <<"keep", "query">>)
            BY <3>1, KindFacts DEF NameLists
        <3> HIDE DEF P
        <3>3. QED
            BY <3>2
    <2>3. CASE InfoThread
        <3>1. /\ "info_thread" \in Asks /\ <<"select", "query", "select">> \in NameLists
              /\ P("info_thread", <<"select", "query", "select">>)
            BY <2>3, KindFacts DEF InfoThread, NameLists
        <3> HIDE DEF P
        <3>2. QED
            BY <3>1
    <2>4. QED
        BY <2>1, <2>2, <2>3
<1>1. PICK k \in Asks, names \in NameLists : P(k, names)
    BY <1>0
<1>2. k \in Requests \ (Launches \cup {"exit"}) /\ k \notin Runs
    BY KindFacts DEF Requests, Steady
<1>3. names \in Seq(CmdName) /\ Len(names) > 0 /\ \E i \in 1 .. Len(names) : names[i] = "query"
    <2>1. names \in Seq(CmdName) /\ Len(names) > 0
        BY NamesFacts DEF NameLists
    <2>2. CASE names = <<"query">>
        BY <2>1, <2>2
    <2>3. CASE names = <<"keep", "query">>
        <3>1. 2 \in 1 .. Len(names) /\ names[2] = "query"
            BY <2>3
        <3>2. QED
            BY <2>1, <3>1
    <2>4. CASE names = <<"select", "query", "select">>
        <3>1. 2 \in 1 .. Len(names) /\ names[2] = "query"
            BY <2>4
        <3>2. QED
            BY <2>1, <3>1
    <2>5. QED
        BY <1>1, <2>2, <2>3, <2>4
<1>4. Plan'
    <2>1. asked' = k
        BY <1>1 DEF Request, Ask
    <2>2. /\ current_cmd'.name = names[1]
          /\ Len(cmd_queqe') = Len(names) - 1
          /\ \A i \in 1 .. Len(names) - 1 : cmd_queqe'[i].name = names[i + 1]
        BY <1>1, <1>2, <1>3, Requesting
    <2>3. k \notin Launches \cup Tells \cup Selects \cup Quits \cup {"exit"} \cup {"start"} \cup StepKinds
        BY <1>2, KindFacts DEF Runs
    <2>4. CASE k \in Queries /\ names = <<"query">>
        <3>1. At0("query")' /\ k \notin Lists /\ k # "info_thread"
            BY <2>2, <2>4 DEF At0, Queries, Lists
        <3>2. QED
            BY <2>1, <2>3, <2>4, <3>1 DEF Plan
    <2>5. CASE k \in Lists /\ names = <<"keep", "query">>
        <3>1. At1("keep", "query")' /\ k \notin Queries /\ k # "info_thread"
            BY <2>2, <2>5 DEF At1, Queries, Lists
        <3>2. QED
            BY <2>1, <2>3, <2>5, <3>1 DEF Plan
    <2>6. CASE k = "info_thread" /\ names = <<"select", "query", "select">>
        <3>1. At2("select", "query", "select")' /\ k \notin Queries /\ k \notin Lists
            BY <2>2, <2>6 DEF At2, Queries, Lists
        <3>2. QED
            BY <2>1, <2>3, <2>6, <3>1 DEF Plan
    <2>7. QED
        BY <1>1, <2>4, <2>5, <2>6
<1>5. QED
    BY <1>1, <1>2, <1>3, <1>4, PlainStep

LEMMA TellStep ==
    ASSUME IInv, Tell \/ Select
    PROVE  IInv'
<1> DEFINE P(k, name) ==
               /\ Request(k, <<name>>) /\ UNCHANGED program
               /\ \/ k \in Tells /\ name = "tell"
                  \/ k \in Selects /\ name = "select"
<1>0. \E k \in Tells \cup Selects : \E name \in {"tell", "select"} : P(k, name)
    <2>1. CASE Tell
        <3>1. PICK k \in Tells : Request(k, <<"tell">>) /\ UNCHANGED program
            BY <2>1 DEF Tell, Tells
        <3>2. k \in Tells \cup Selects /\ P(k, "tell")
            BY <3>1
        <3> HIDE DEF P
        <3>3. QED
            BY <3>2
    <2>2. CASE Select
        <3>1. PICK k \in Selects : Request(k, <<"select">>) /\ UNCHANGED program
            BY <2>2 DEF Select, Selects
        <3>2. k \in Tells \cup Selects /\ P(k, "select")
            BY <3>1
        <3> HIDE DEF P
        <3>3. QED
            BY <3>2
    <2>3. QED
        BY <2>1, <2>2
<1>1. PICK k \in Tells \cup Selects, name \in {"tell", "select"} : P(k, name)
    BY <1>0
<1>2. k \in Requests \ (Launches \cup {"exit"}) /\ k \notin Runs \cup Asks
    BY <1>1, KindFacts DEF Requests, Steady
<1>3. <<name>> \in Seq(CmdName) /\ Len(<<name>>) > 0
    BY NamesFacts DEF NameLists
<1>4. Plan'
    <2>1. asked' = k
        BY <1>1 DEF Request, Ask
    <2>a. k \in Requests \ Launches /\ <<name>>[1] = name /\ Len(<<name>>) = 1
        BY <1>2
    <2>b. current_cmd'.name = <<name>>[1] /\ Len(cmd_queqe') = Len(<<name>>) - 1
        BY <1>1, <1>3, <2>a, Requesting
    <2>2. /\ current_cmd'.name = name /\ Len(cmd_queqe') = 0
        BY <2>a, <2>b
    <2>3. k \notin Launches \cup Quits \cup {"exit"} \cup {"start"} \cup StepKinds
                       \cup Lists \cup Queries \cup {"info_thread"}
        BY <1>1, <1>2, KindFacts DEF Runs
    <2>4. At0(name)'
        BY <2>2 DEF At0
    <2>5. (k \in Tells => name = "tell") /\ (k \in Selects => name = "select")
        BY <1>1, KindFacts
    <2>6. QED
        BY <2>1, <2>3, <2>4, <2>5 DEF Plan
<1>5. QED
    BY <1>1, <1>2, <1>3, <1>4, PlainStep

LEMMA QuitStep ==
    ASSUME IInv, Quit
    PROVE  IInv'
<1>1. PICK k \in Quits, names \in {<<"detach", "gdb-exit">>, <<"gdb-exit">>} :
          Request(k, names) /\ UNCHANGED program
    BY DEF Quit, Quits
<1>2. k \in Requests \ (Launches \cup {"exit"}) /\ k \notin Runs \cup Asks
    BY KindFacts DEF Requests, Quits, Launches
<1>3. names \in Seq(CmdName) /\ Len(names) > 0
    BY NamesFacts DEF NameLists
<1>4. Plan'
    <2>1. asked' = k
        BY <1>1 DEF Request, Ask
    <2>2. /\ current_cmd'.name = names[1]
          /\ Len(cmd_queqe') = Len(names) - 1
          /\ \A i \in 1 .. Len(names) - 1 : cmd_queqe'[i].name = names[i + 1]
        BY <1>1, <1>2, <1>3, Requesting
    <2>3. At1("detach", "gdb-exit")' \/ At0("gdb-exit")'
        <3>1. CASE names = <<"detach", "gdb-exit">>
            BY <2>2, <3>1 DEF At1
        <3>2. CASE names = <<"gdb-exit">>
            BY <2>2, <3>2 DEF At0
        <3>3. QED
            BY <3>1, <3>2
    <2>4. k \notin Launches \cup Asks \cup Tells \cup Selects \cup Runs \cup {"exit"}
        BY <1>2, KindFacts
    <2>5. QED
        BY <2>1, <2>3, <2>4, KindFacts DEF Plan, Runs
<1>5. QED
    BY <1>1, <1>2, <1>3, <1>4, PlainStep

LEMMA ExitStep ==
    ASSUME IInv, Exit
    PROVE  IInv'
<1> DEFINE k == "exit"
<1>1. k \in Requests \ Launches /\ k \notin Runs \cup Asks \cup Tells \cup Selects \cup Quits \cup Launches
    BY KindFacts DEF Requests, Launches, Quits
<1>2. Ask(k) /\ reported = PStopped
    BY NeedFacts DEF Exit, Request, Ask
<1>3. /\ prog_is_running /\ prog_is_loaded \in BOOLEAN /\ prog_is_attached \in BOOLEAN
    BY <1>1, <1>2, AskFacts
<1>4. PICK names \in {<<"detach">>, <<"kill">>} :
          Request(k, names) /\ (prog_is_attached => names = <<"detach">>)
    BY <1>3 DEF Exit
<1>5. names \in Seq(CmdName) /\ Len(names) > 0 /\ Len(names) = 1
    BY NamesFacts DEF NameLists
<1>6. /\ prog_is_loaded' = prog_is_loaded /\ prog_is_attached' = prog_is_attached
      /\ prog_is_running' \in BOOLEAN
      /\ prog_is_running' <=> prog_is_attached
    BY <1>3 DEF Exit
<1>7. Plan'
    <2>1. asked' = k
        BY <1>4 DEF Request, Ask
    <2>a. current_cmd'.name = names[1] /\ Len(cmd_queqe') = Len(names) - 1
        BY <1>1, <1>4, <1>5, Requesting
    <2>2. current_cmd'.name = names[1] /\ Len(cmd_queqe') = 0
        BY <1>5, <2>a
    <2>3. At0("detach")' \/ At0("kill")'
        BY <2>2 DEF At0
    <2>4. QED
        BY <1>1, <2>1, <2>3, KindFacts DEF Plan, Runs
<1>8. k \in Asks => \E i \in 1 .. Len(names) : names[i] = "query"
    BY <1>1
<1>9. k = "exit" /\ prog_is_running' => names[1] = "detach"
    BY <1>4, <1>6
<1>10. (prog_is_attached => prog_is_running') /\ (k # "exit" => prog_is_running' = prog_is_running)
    BY <1>6
<1>11. QED
    BY <1>1, <1>4, <1>5, <1>6, <1>7, <1>8, <1>9, <1>10, RequestStep

LEMMA LoadStep ==
    ASSUME IInv, Load \/ Attach
    PROVE  IInv'
<1>1. PICK k \in Launches, names \in {<<"features", "sigint">>, <<"features", "sigint", "attach">>} :
          /\ Ask(k) /\ Launch(k, names)
          /\ k = "load" => names = <<"features", "sigint">>
    BY DEF Load, Attach, Launches
<1>2. names \in Seq(CmdName)
    BY NamesFacts DEF NameLists
<1>3. \A i \in 1 .. Len(names) :
          names[i] \in LaunchNames \cup {n \in {"attach"} : k = "attach"}
    <2>1. CASE names = <<"features", "sigint">>
        BY <2>1 DEF LaunchNames
    <2>2. CASE names = <<"features", "sigint", "attach">>
        BY <1>1, <2>2 DEF LaunchNames, Launches
    <2>3. QED
        BY <2>1, <2>2
<1>4. QED
    BY <1>1, <1>2, <1>3, LaunchStep

-----------------------------------------------------------------------------
(* The theorems                                                            *)

LEMMA ReadStep ==
    ASSUME IInv, Read
    PROVE  IInv'
BY ReadPromptRunningStep, ReadPromptNextStep, ReadPromptReadyStep, ReadDoneStep,
   ReadErrorStep, ReadProgramNotFoundStep, ReadRunningStep, ReadStoppedStep,
   ReadExitedStep, ReadSolibStep DEF Read

LEMMA NextInv ==
    ASSUME IInv, [Next]_vars
    PROVE  IInv'
<1>1. CASE Load \/ Attach \/ Start \/ Run \/ RunTo \/ Query \/ ListLocal \/ InfoThread
               \/ Tell \/ Select \/ Exit \/ Quit
    BY <1>1, LoadStep, StartStep, RunStep, QueryStep, TellStep, ExitStep, QuitStep
<1>2. CASE Abort \/ OnGdbTerminated
    BY <1>2, StoppedStep DEF Abort, OnGdbTerminated
<1>3. CASE Read
    BY <1>3, ReadStep
<1>4. CASE GdbStarts \/ GdbAnswers \/ GdbExits \/ ProgramStops \/ GdbDies
    BY <1>4, GdbStartsStep, GdbAnswersStep, GdbExitsStep, ProgramStopsStep, GdbDiesStep
<1>5. CASE UNCHANGED vars
    <2>1. /\ UNCHANGED <<debugger, process, client>>
          /\ UNCHANGED <<debugger_is_started, debugger_is_busy, program, flags, commands,
                         command_output_sent, stdo_acc, gdb, stdin, stdout, inferior,
                         resumed, reported, asked, reply, turn>>
        BY <1>5 DEF vars, debugger, process, client
    <2>2. TypeOK => TypeOK'
        BY <2>1 DEF TypeOK, program, commands
    <2>3. Pipe => Pipe'
        BY <2>1 DEF Pipe, Lined, Counted, Owes, Ran, Type, One, commands, program
    <2>4. Own => Own'
        BY <2>1 DEF Own, Type, commands
    <2>5. Working => Working'
        BY <2>1, SamePlan, SameFlags, SameReply DEF Working
    <2>6. (Idle => Idle') /\ (Off => Off')
        BY <2>1 DEF Idle, Off, Known, GetState, program, commands
    <2>7. QED
        BY <2>1, <2>2, <2>3, <2>4, <2>5, <2>6 DEF IInv, program
<1>6. QED
    BY <1>1, <1>2, <1>3, <1>4, <1>5 DEF Next

\* The inductive invariant holds in every behaviour of the backend and gdb.
THEOREM Invariant == Spec => []IInv
<1>1. Init => IInv
    BY InitInv
<1>2. IInv /\ [Next]_vars => IInv'
    BY NextInv
<1>3. QED
    BY <1>1, <1>2, PTL DEF Spec

\* The fields keep their types; debugger_is_busy, which is unsigned, counts no
\* more than two prompts and never goes below zero.
THEOREM TypeCorrect == Spec => []TypeOK
<1>1. IInv => TypeOK
    BY DEF IInv
<1>2. QED
    BY <1>1, Invariant, PTL

\* The prompts on their way, by their places.
LEMMA Prompts ==
    ASSUME TypeOK, NEW a \in 0 .. 2, NEW e \in 0 .. 3, Lined(a, e)
    PROVE  Unread("prompt") = One(a > 0) + One(e > 0)
<1> DEFINE S == {i \in DOMAIN stdout : stdout[i].type = "prompt"}
<1>1. DOMAIN stdout = 1 .. a + e
    BY DEF TypeOK, Lined
<1>2. \A i \in 1 .. a + e :
          stdout[i].type = "prompt" <=> (a > 0 /\ i = a) \/ (e > 0 /\ i = a + e)
    <2>1. \A i \in 1 .. a + e : i \in {1, 2, 3, 4, 5}
        OBVIOUS
    <2>2. /\ a = 1 => Type(1) = "prompt"
          /\ a = 2 => Type(1) # "prompt" /\ Type(2) = "prompt"
        BY DEF Lined
    <2>3. /\ e = 1 => Type(a + 1) = "prompt"
          /\ e = 2 => Type(a + 1) # "prompt" /\ Type(a + 2) = "prompt"
          /\ e = 3 => /\ Type(a + 1) # "prompt" /\ Type(a + 2) # "prompt"
                      /\ Type(a + 3) = "prompt"
        BY DEF Lined
    <2>4. CASE a = 0
        BY <2>1, <2>3, <2>4 DEF Type
    <2>5. CASE a = 1
        BY <2>1, <2>2, <2>3, <2>5 DEF Type
    <2>6. CASE a = 2
        BY <2>1, <2>2, <2>3, <2>6 DEF Type
    <2>7. QED
        BY <2>4, <2>5, <2>6
<1>3. S = {i \in 1 .. a + e : (a > 0 /\ i = a) \/ (e > 0 /\ i = a + e)}
    BY <1>1, <1>2
<1>4. Unread("prompt") = Cardinality(S)
    BY DEF Unread
<1> HIDE DEF S
<1>5. CASE a = 0 /\ e = 0
    BY <1>3, <1>4, <1>5, FS_EmptySet DEF One
<1>6. CASE a > 0 /\ e = 0
    <2>1. S = {a}
        BY <1>3, <1>6
    <2>2. Cardinality({a}) = 1
        BY FS_Singleton
    <2>3. One(a > 0) = 1 /\ One(e > 0) = 0
        BY <1>6 DEF One
    <2>4. QED
        BY <1>4, <2>1, <2>2, <2>3
<1>7. CASE a = 0 /\ e > 0
    <2>1. S = {e}
        BY <1>3, <1>7
    <2>2. QED
        BY <1>4, <1>7, <2>1, FS_Singleton DEF One
<1>8. CASE a > 0 /\ e > 0
    <2>1. S = {a} \cup {a + e} /\ a + e \notin {a}
        BY <1>3, <1>8
    <2>2. IsFiniteSet({a}) /\ Cardinality({a}) = 1
        BY FS_Singleton
    <2>3. Cardinality({a} \cup {a + e}) = 2
        BY <2>1, <2>2, FS_AddElement
    <2>4. QED
        BY <1>4, <1>8, <2>1, <2>3 DEF One
<1>9. QED
    BY <1>5, <1>6, <1>7, <1>8

LEMMA Runnings ==
    ASSUME TypeOK, NEW a \in 0 .. 2, NEW e \in 0 .. 3, Lined(a, e)
    PROVE  Unread("running") = One(a = 2 /\ Type(1) = "running")
<1> DEFINE S == {i \in DOMAIN stdout : stdout[i].type = "running"}
<1>1. DOMAIN stdout = 1 .. a + e
    BY DEF TypeOK, Lined
<1>2. \A i \in 1 .. a + e :
          stdout[i].type = "running" => i = 1 /\ a = 2
    <2>1. \A i \in 1 .. a + e : i \in {1, 2, 3, 4, 5}
        OBVIOUS
    <2>2. /\ a = 1 => Type(1) = "prompt"
          /\ a = 2 => Type(2) = "prompt"
        BY DEF Lined
    <2>3. /\ e = 1 => Type(a + 1) = "prompt"
          /\ e = 2 => Type(a + 1) # "running" /\ Type(a + 2) = "prompt"
          /\ e = 3 => /\ Type(a + 1) # "running" /\ Type(a + 2) # "running"
                      /\ Type(a + 3) = "prompt"
        BY DEF Lined
    <2>4. CASE a = 0
        BY <2>1, <2>3, <2>4 DEF Type
    <2>5. CASE a = 1
        BY <2>1, <2>2, <2>3, <2>5 DEF Type
    <2>6. CASE a = 2
        BY <2>1, <2>2, <2>3, <2>6 DEF Type
    <2>7. QED
        BY <2>4, <2>5, <2>6
<1>3. S = IF a = 2 /\ Type(1) = "running" THEN {1} ELSE {}
    BY <1>1, <1>2 DEF Type
<1>4. Unread("running") = Cardinality(S)
    BY DEF Unread
<1> HIDE DEF S
<1>5. QED
    BY <1>3, <1>4, FS_EmptySet, FS_Singleton DEF One

\* debugger_is_busy is the number of prompts that gdb still owes, however many
\* commands the requests queue and whatever gdb answers.
THEOREM PromptsCounted == Spec => []BusyCountsPrompts
<1>1. ASSUME IInv PROVE BusyCountsPrompts
    <2>1. SUFFICES ASSUME gdb # "dead"
                   PROVE  debugger_is_busy + Unread("running") =
                              Unread("prompt") + Len(stdin)
                                  + (IF gdb = "starting" THEN 1 ELSE 0)
                                  + (IF inferior = "running" THEN 1 ELSE 0)
        BY DEF BusyCountsPrompts
    <2>2. TypeOK /\ Pipe
        BY <1>1 DEF IInv
    <2>3. PICK a \in 0 .. 2, e \in 0 .. 3, owed \in 0 .. 1 :
              Lined(a, e) /\ Counted(a, e, owed) /\ Owes(a, e, owed) /\ Ran(a, e, owed)
        BY <2>2 DEF Pipe
    <2>4. owed = (IF gdb = "starting" THEN 1 ELSE 0) + (IF inferior = "running" THEN 1 ELSE 0)
        BY <2>1, <2>3 DEF Owes, One
    <2>5. /\ Unread("prompt") = One(a > 0) + One(e > 0)
          /\ Unread("running") = One(a = 2 /\ Type(1) = "running")
        BY <2>2, <2>3, Prompts, Runnings
    <2>6. Len(stdin) \in Nat
        BY <2>2 DEF TypeOK
    <2>7. QED
        BY <2>3, <2>4, <2>5, <2>6 DEF Counted, One
<1>2. QED
    BY <1>1, Invariant, PTL

\* Each line of gdb is read while the command it answers is current_cmd, and a
\* prompt only after its parser was called.
THEOREM AnswersOwn == Spec => []OwnAnswer
<1>1. ASSUME IInv PROVE OwnAnswer
    <2>1. Own /\ stdout \in Seq(LineType)
        BY <1>1 DEF IInv, TypeOK
    <2>2. stdout # <<>> => Len(stdout) > 0 /\ Head(stdout) = stdout[1]
        BY <2>1
    <2>3. QED
        BY <2>1, <2>2 DEF Own, OwnAnswer, Type
<1>2. QED
    BY <1>1, Invariant, PTL

\* The plugin is idle exactly when it has reported the end of every request, and
\* what it has reported is the state it believes the program is in.
THEOREM ReportsState == Spec => []StateAsReported
<1>1. ASSUME IInv PROVE StateAsReported
    BY <1>1 DEF IInv, StateAsReported, Idle, Working, Known
<1>2. QED
    BY <1>1, Invariant, PTL

-----------------------------------------------------------------------------
(* What a backend promises                                                 *)

\* The contract speaks of the same states and kinds.
LEMMA SameStates ==
    /\ Backend!Stopped = Stopped /\ Backend!State = State
    /\ Backend!Started = Started /\ Backend!Loaded = Loaded
    /\ Backend!PStopped = PStopped /\ Backend!Running = Running
BY DEF State, Stopped, Started, Loaded, PStopped, Running, Backend!State, Backend!Stopped,
   Backend!Started, Backend!Loaded, Backend!PStopped, Backend!Running

LEMMA SameKinds ==
    /\ Backend!BreakKinds = BreakKinds /\ Backend!StepKinds = StepKinds
    /\ Backend!FrameKinds = FrameKinds /\ Backend!StoppedKinds = StoppedKinds
    /\ Backend!AnyKinds = AnyKinds /\ Backend!RunKinds = RunKinds
    /\ Backend!Asks = Asks
<1>1. /\ Backend!BreakKinds = BreakKinds /\ Backend!StepKinds = StepKinds
      /\ Backend!FrameKinds = FrameKinds /\ Backend!StoppedKinds = StoppedKinds
      /\ Backend!AnyKinds = AnyKinds
    BY DEF BreakKinds, StepKinds, FrameKinds, StoppedKinds, AnyKinds, Backend!BreakKinds,
       Backend!StepKinds, Backend!FrameKinds, Backend!StoppedKinds, Backend!AnyKinds
<1>2. Backend!RunKinds = RunKinds
    BY <1>1 DEF RunKinds, Backend!RunKinds
<1>3. Backend!Asks = Asks
    BY <1>1 DEF Asks, Backend!Asks
<1>4. QED
    BY <1>1, <1>2, <1>3

LEMMA SameContract ==
    ASSUME NEW k, NEW s
    PROVE  Backend!Need(k) = Need(k) /\ Backend!EndsOf(k, s) = EndsOf(k, s)
<1>1. Backend!Need(k) = Need(k)
    BY SameStates, SameKinds DEF Need, Backend!Need
<1>2. Backend!EndsOf(k, s) = EndsOf(k, s)
    BY SameStates, SameKinds DEF EndsOf, Backend!EndsOf
<1>3. QED
    BY <1>1, <1>2

\* A request of the debug manager is one the backend's contract allows.
LEMMA AskPromised ==
    ASSUME NEW k, Ask(k)
    PROVE  Backend!Next
<1>1. k \in Used /\ Backend!Request(k)
    BY SameContract, SameKinds DEF Ask, Backend!Request
<1>2. QED
    BY <1>1 DEF Backend!Next

LEMMA ReportPromised ==
    ASSUME IInv, ReadPromptReady
    PROVE  Backend!Next
<1>1. /\ TypeOK /\ asked # "none" /\ Working
    BY Reading DEF ReadPromptReady
<1>2. /\ current_cmd.name \in Parsers => command_output_sent
      /\ current_cmd.name # "gdb-exit"
    BY LastPrompt DEF ReadPromptReady
<1>3. /\ ReadyState \in EndsOf(asked, reported)
      /\ ReadyState \in {Started, Loaded, PStopped}
      /\ reply # 1
    <2>1. (prog_is_attached => prog_is_running) /\ cmd_queqe = <<>>
        BY DEF IInv, ReadPromptReady
    <2>2. QED
        BY <1>1, <1>2, <2>1, Reported
<1>4. Backend!Report(ReadyState)
    BY <1>1, <1>3, SameContract DEF Backend!Report, ReadPromptReady, EmitReady
<1>5. ReadyState \in Backend!State
    BY <1>3, SameStates DEF State, Stopped, Started, Loaded, PStopped, Running
<1>6. QED
    BY <1>4, <1>5 DEF Backend!Next

\* No parser has been called for the command that gdb is still to answer.
Fresh ==
    /\ Len(stdin) > 0 => ~command_output_sent
    /\ Len(stdout) > 0 /\ Type(1) \in {"done", "error"} => ~command_output_sent

\* The next line is never the result of a command.
LEMMA ReadFresh ==
    ASSUME IInv, NEW type, Reads(type), UNCHANGED stdin
    PROVE  Fresh'
<1>1. TypeOK /\ Pipe /\ Len(stdin) = 0
    BY Reading
<1>2. PICK a \in 0 .. 2, e \in 0 .. 3 : Lined(a, e)
    BY <1>1 DEF Pipe
<1>3. /\ Len(stdout) > 0
      /\ a > 0 => Lined(a - 1, e)'
      /\ a = 0 => e > 0 /\ Lined(0, e - 1)'
    BY <1>1, <1>2, ReadLine DEF TypeOK
<1>4. PICK a1 \in 0 .. 1, e1 \in 0 .. 3 : Lined(a1, e1)'
    BY <1>3
<1>5. Len(stdout') > 0 => Type(1)' \notin {"done", "error"}
    BY <1>4 DEF Lined
<1>6. QED
    BY <1>1, <1>5 DEF Fresh

LEMMA QueueFresh ==
    ASSUME Fresh, NEW cmds, Queue(cmds), UNCHANGED stdout
    PROVE  Fresh'
<1>1. CASE debugger_is_busy = 0 /\ cmd_queqe \o cmds # <<>>
    BY <1>1 DEF Queue, Execute, Fresh
<1>2. CASE ~(debugger_is_busy = 0 /\ cmd_queqe \o cmds # <<>>)
    BY <1>2 DEF Queue, Fresh, Type
<1>3. QED
    BY <1>1, <1>2

LEMMA FreshStep ==
    ASSUME IInv, Fresh, [Next]_vars
    PROVE  Fresh'
<1>1. CASE Load \/ Attach
    BY <1>1 DEF Load, Attach, Launch, Fresh
<1>2. CASE Start \/ Run \/ RunTo \/ Query \/ ListLocal \/ InfoThread \/ Tell \/ Select
               \/ Exit \/ Quit
    <2>1. \E k, names : Request(k, names)
        BY <1>2 DEF Start, Run, RunTo, Query, ListLocal, InfoThread, Tell, Select, Exit, Quit,
           Resume
    <2>2. \E cmds : Queue(cmds) /\ UNCHANGED stdout
        BY <2>1 DEF Request
    <2>3. QED
        BY <2>2, QueueFresh
<1>3. CASE Abort \/ OnGdbTerminated
    BY <1>3 DEF Abort, OnGdbTerminated, DebuggerStopped, Fresh
<1>4. CASE Read
    <2>1. CASE ReadPromptNext
        BY <2>1 DEF ReadPromptNext, Execute, Fresh
    <2>2. CASE \/ ReadPromptRunning \/ ReadPromptReady \/ ReadDone \/ ReadError
               \/ ReadProgramNotFound \/ ReadRunning \/ ReadStopped \/ ReadExited \/ ReadSolib
        <3>1. (\E type : Reads(type)) /\ UNCHANGED stdin
            BY <2>2 DEF ReadPromptRunning, ReadPromptReady, ReadDone, ReadError,
               ReadProgramNotFound, ReadRunning, ReadStopped, ReadExited, ReadSolib
        <3>2. QED
            BY <3>1, ReadFresh
    <2>3. QED
        BY <1>4, <2>1, <2>2 DEF Read
<1>5. CASE GdbStarts
    <2>1. stdout \in Seq(LineType) /\ Len(stdout) = 0
        BY <1>5 DEF IInv, TypeOK, Pipe, Owes, GdbStarts
    <2>2. stdout' = Lines(<<"prompt">>, current_cmd)
        BY <1>5, <2>1 DEF GdbStarts, Lines
    <2>3. stdout'[1].type = "prompt"
        BY <2>2 DEF Lines
    <2>4. QED
        BY <1>5, <2>3 DEF Fresh, Type, GdbStarts, debugger
<1>6. CASE GdbAnswers \/ GdbExits
    <2>1. Len(stdin) = 1
        BY <1>6, GdbReading DEF GdbAnswers, GdbExits
    <2>2. command_output_sent' = command_output_sent
        BY <1>6 DEF GdbAnswers, GdbExits, debugger
    <2>3. QED
        BY <2>1, <2>2 DEF Fresh
<1>7. CASE ProgramStops
    <2>1. PICK types \in {<<"stopped", "prompt">>, <<"solib", "stopped", "prompt">>,
                          <<"exited", "prompt">>} :
              stdout' = stdout \o Lines(types, resumed)
        BY <1>7 DEF ProgramStops
    <2> DEFINE t == Lines(types, resumed)
    <2>2. DOMAIN t = 1 .. Len(types) /\ Len(types) \in Nat /\ Len(types) > 0
        BY DEF Lines
    <2>3. t[1].type \notin {"done", "error"}
        BY DEF Lines
    <2>4. t \in Seq({t[i] : i \in 1 .. Len(types)}) /\ Len(t) = Len(types)
        BY <2>2 DEF Lines
    <2>5. stdout \in Seq(LineType)
        BY DEF IInv, TypeOK
    <2> HIDE DEF t
    <2>6. IF Len(stdout) > 0 THEN stdout'[1] = stdout[1] ELSE stdout'[1] = t[1]
        BY <2>1, <2>2, <2>4, <2>5 DEF t
    <2>7. command_output_sent' = command_output_sent /\ stdin' = stdin
        BY <1>7 DEF ProgramStops, debugger
    <2>8. QED
        BY <2>3, <2>5, <2>6, <2>7 DEF Fresh, Type
<1>8. CASE GdbDies \/ UNCHANGED vars
    BY <1>8 DEF GdbDies, vars, debugger, process, Fresh, Type
<1>9. QED
    BY <1>1, <1>2, <1>3, <1>4, <1>5, <1>6, <1>7, <1>8 DEF Next

\* A parser that calls the callback of the request is called when it is owed,
\* and calls it once, but for the list of the breakpoints.
LEMMA ParsePromised ==
    ASSUME IInv, Fresh, NEW failed \in BOOLEAN, NEW type \in {"done", "error"}, Reads(type),
           Parse(failed), UNCHANGED <<reported, asked>>
    PROVE  [Backend!Next \/ AnsweredTwice]_(Backend!vars)
<1>1. /\ TypeOK /\ Working /\ Type(1) = type /\ Len(stdout) > 0
    BY Reading
<1>2. reply \in Int /\ reply' = reply - Calls(failed)
    BY <1>1 DEF Parse, TypeOK
<1>3. CASE current_cmd.name = "query"
    <2>1. reply = 1
        BY <1>1, <1>3 DEF Fresh, Working, Reply, Pending
    <2>2. CASE failed /\ asked = "list_break"
        BY <1>2, <1>3, <2>1, <2>2 DEF Calls, AnsweredTwice
    <2>3. CASE ~(failed /\ asked = "list_break")
        <3>1. reply' = 0
            BY <1>2, <1>3, <2>1, <2>3 DEF Calls
        <3>2. QED
            BY <2>1, <3>1 DEF Backend!Callback, Backend!Next
    <2>4. QED
        BY <2>2, <2>3
<1>4. CASE current_cmd.name # "query"
    <2>1. reply' = reply
        BY <1>2, <1>4 DEF Calls
    <2>2. QED
        BY <2>1 DEF Backend!vars
<1>5. QED
    BY <1>3, <1>4

LEMMA StepPromised ==
    ASSUME IInv, Fresh, [Next]_vars
    PROVE  [Backend!Next \/ AnsweredTwice]_(Backend!vars)
<1>1. CASE Load \/ Attach \/ Start \/ Run \/ RunTo \/ Query \/ ListLocal \/ InfoThread
               \/ Tell \/ Select \/ Exit \/ Quit
    <2>1. \E k : Ask(k)
        BY <1>1 DEF Load, Attach, Start, Run, RunTo, Query, ListLocal, InfoThread, Tell,
           Select, Exit, Quit, Resume, Request
    <2>2. QED
        BY <2>1, AskPromised
<1>2. CASE Abort \/ OnGdbTerminated
    BY <1>2, SameStates
       DEF Abort, OnGdbTerminated, DebuggerStopped, Backend!Ends, Backend!Next
<1>3. CASE ReadPromptReady
    BY <1>3, ReportPromised
<1>4. CASE ReadDone
    <2>1. CASE current_cmd.name = "keep"
        BY <1>4, <2>1 DEF ReadDone, Backend!vars
    <2>2. CASE current_cmd.name # "keep"
        <3>1. Reads("done") /\ Parse(FALSE) /\ UNCHANGED <<reported, asked>>
            BY <1>4, <2>2 DEF ReadDone
        <3>2. QED
            BY <3>1, ParsePromised
    <2>3. QED
        BY <2>1, <2>2
<1>5. CASE ReadError
    <2>1. Reads("error") /\ Parse(TRUE) /\ UNCHANGED <<reported, asked>>
        BY <1>5 DEF ReadError
    <2>2. QED
        BY <2>1, ParsePromised
<1>6. CASE UNCHANGED client
    BY <1>6 DEF client, Backend!vars
<1>7. CASE \/ ReadPromptRunning \/ ReadPromptNext \/ ReadProgramNotFound \/ ReadRunning
           \/ ReadStopped \/ ReadExited \/ ReadSolib
           \/ GdbStarts \/ GdbAnswers \/ GdbExits \/ ProgramStops \/ GdbDies
           \/ UNCHANGED vars
    <2>1. UNCHANGED client
        BY <1>7 DEF ReadPromptRunning, ReadPromptNext, ReadProgramNotFound, ReadRunning,
           ReadStopped, ReadExited, ReadSolib, GdbStarts, GdbAnswers, GdbExits, ProgramStops,
           GdbDies, vars
    <2>2. QED
        BY <1>6, <2>1
<1>8. QED
    BY <1>1, <1>2, <1>3, <1>4, <1>5, <1>7 DEF Next, Read

\* The safety part of what the debug manager relies on: the plugin takes one
\* request at a time, in a state it needs, calls its callback once and before
\* the report, and reports a state the request may end in; only an error of the
\* list of the breakpoints calls the callback once more than was asked for.
THEOREM Implements ==
    Spec => Backend!Init /\ [][Backend!Next \/ AnsweredTwice]_(Backend!vars)
<1>1. Init => Backend!Init
    BY SameStates DEF Init, Backend!Init
<1>2. Init => Fresh
    BY DEF Init, Fresh
<1>3. IInv /\ Fresh /\ [Next]_vars => Fresh'
    BY FreshStep
<1>4. IInv /\ Fresh /\ [Next]_vars => [Backend!Next \/ AnsweredTwice]_(Backend!vars)
    BY StepPromised
<1>5. QED
    BY <1>1, <1>2, <1>3, <1>4, Invariant, PTL DEF Spec

\* Clients that never ask for the list of the breakpoints have a backend that
\* keeps the contract to the letter.
THEOREM ImplementsUnlisted ==
    "list_break" \notin Used => (Spec => Backend!Init /\ [][Backend!Next]_(Backend!vars))
<1> SUFFICES ASSUME "list_break" \notin Used
             PROVE  Spec => Backend!Init /\ [][Backend!Next]_(Backend!vars)
    OBVIOUS
<1>1. TypeOK /\ [Backend!Next \/ AnsweredTwice]_(Backend!vars) => [Backend!Next]_(Backend!vars)
    BY DEF TypeOK, AnsweredTwice
<1>2. QED
    BY <1>1, TypeCorrect, Implements, PTL
=============================================================================
