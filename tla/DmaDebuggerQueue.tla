-------------------------- MODULE DmaDebuggerQueue --------------------------
(***************************************************************************)
(* The command queue of the debug manager (debug-manager/queue.c) with its  *)
(* commands (debug-manager/command.c), between the clients in the debug     *)
(* manager and a debugger backend (an IAnjutaDebugger: the gdb plugin).     *)
(*                                                                         *)
(* Everything runs on the main thread, and the queue is reentered from      *)
(* everywhere: a backend reports from inside the call that gives it a       *)
(* command, a client adds commands from inside the emission of a signal or  *)
(* from the callback of another command, and a command that is refused      *)
(* makes the queue complete the one in progress.  stack is the call stack,  *)
(* innermost call first.  Between two calls of the main loop it is empty.   *)
(*                                                                         *)
(* The backend is what queue.c can see of it: the state it reports when it  *)
(* is idle, whether it is busy, and what it still has to report.  The gdb   *)
(* plugin is the backend that GdbDebugger models.                          *)
(***************************************************************************)
EXTENDS DebuggerCommands, SequenceFilter, FiniteSets

CONSTANTS
    Command,    \* the commands that can exist at the same time
    Used,       \* the kinds of commands the clients use
    none,       \* not a command
    orphan,     \* a command the queue has freed and the backend still works on
    DiesIdle,   \* the backend may also end while it has nothing to do
    AbortsLoad, \* a client may abort the debugger while it loads a program
    QuitsAgain  \* a client may stop the debugger again while it stops

ASSUME ConstantsAssumption ==
    /\ Used \subseteq Kind
    /\ none \notin Command
    /\ orphan \notin Command
    /\ none # orphan
    /\ DiesIdle \in BOOLEAN
    /\ AbortsLoad \in BOOLEAN
    /\ QuitsAgain \in BOOLEAN

-----------------------------------------------------------------------------
VARIABLES
    \* struct _DmaDebuggerQueue
    queue,              \* queue, without the command in progress
    last,               \* the command in progress, or none
    insert_command,     \* the links new commands go before, innermost first
    debugger_state,
    queue_state,        \* the state once the queued commands are done
    stop_on_sharedlib,
    kind,               \* the kind each command has, or had last
    \* the backend
    at,                 \* the state it reports when it is not busy
    working,            \* it is busy
    job,                \* the command it works on, none or orphan
    reply,              \* the callback of that command is still to come
    ends,               \* the states it may be in once it is done
    runs,               \* the program is running
    \* the call stack of the main thread
    stack,
    \* history
    answers,            \* calls of the callback of each command
    phase,              \* the session, by the signals emitted
    crashed             \* freed memory has been used

Session == INSTANCE DebugSession

self == <<queue, last, insert_command, debugger_state, queue_state,
          stop_on_sharedlib, kind>>
backend == <<at, working, job, reply, ends, runs>>
vars == <<self, backend, stack, answers, phase, crashed>>

Init ==
    /\ queue = <<>>
    /\ last = none
    /\ insert_command = <<>>
    /\ debugger_state = Stopped
    /\ queue_state = Stopped
    /\ stop_on_sharedlib = FALSE
    /\ kind = [c \in Command |-> "user"]
    /\ at = Stopped
    /\ working = FALSE
    /\ job = none
    /\ reply = FALSE
    /\ ends = {}
    /\ runs = FALSE
    /\ stack = <<>>
    /\ answers = [c \in Command |-> 0]
    /\ phase = "stopped"
    /\ crashed = FALSE

-----------------------------------------------------------------------------
(* Calls in progress                                                       *)

Frame(fn, state, signal, cmd) ==
    [fn |-> fn, state |-> state, signal |-> signal, cmd |-> cmd,
     refused |-> FALSE]

\* Mutant: completes although the backend is busy.
CompletingBusy(s) == <<Frame("complete", s, "no", none)>>

\* dma_debugger_queue_complete, which does nothing if the backend is busy
Completing(s) == IF s = Busy THEN <<>> ELSE <<Frame("complete", s, "no", none)>>

\* dma_queue_emit_debugger_state
Emitting(s) == Frame("emit", s, "no", none)

\* dma_debugger_queue_execute, and the loop at its end
Executing == Frame("execute", Busy, "no", none)
Sending == Frame("send", Busy, "no", none)

\* on_dma_debugger_stopped, whose last lines read the state again
Stopping == <<Emitting(Stopped), Frame("reread", Busy, "no", none)>>

\* the backend's calls of a command's callback and of debugger-ready
Replying == Frame("callback", Busy, "no", none)
Ready(s) == Frame("ready", s, "no", none)

\* a signal of the plugin, or a callback, about to be emitted, and with its
\* listeners at work; refused: one of them has had a command refused
Opening(signal) == Frame("open", Busy, signal, none)
Window(signal) == Frame("window", Busy, signal, none)

\* a client, or on_dma_sharedlib_event, about to append cmd
Adding(fn, c) == Frame(fn, Busy, "no", c)

Top(fn) == stack # <<>> /\ Head(stack).fn = fn
In(x, s) == \E i \in DOMAIN s : s[i] = x

\* Mutant: the state the backend was in when it was idle.
IdleState == at

GetState == IF working THEN Busy ELSE at

\* A command that is queued or in progress.
Live(c) == In(c, queue) \/ last = c

\* The command the next dma_command_new returns.
Unused == {c \in Command :
    ~Live(c) /\ ~In(c, insert_command) /\ \A i \in DOMAIN stack : stack[i].cmd # c}
New == CHOOSE c \in Unused : TRUE

-----------------------------------------------------------------------------
(* dma_queue_cancel_unexpected                                             *)

\* where the walk stops: a command that is valid and sets the state
Keepers(q, s) ==
    {i \in DOMAIN q : s \in Need(kind[q[i]]) /\ GoingTo(kind[q[i]]) # Busy}

Stays(q, s, c) ==
    \/ s \in Need(kind[c])
    \/ \E i \in Keepers(q, s), j \in DOMAIN q : i < j /\ q[j] = c

Kept(q, s) == Filter(q, {c \in Command : Stays(q, s, c)})
KeptState(q, s) == IF Keepers(q, s) = {} THEN s ELSE queue_state

\* Mutant: only the commands with a callback are told, and none is.
ToldNobody(q, s) == {}

\* the commands whose client is told that they are cancelled
Told(q, s) == {c \in Command : In(c, q) /\ ~Stays(q, s, c) /\ kind[c] \in Asks}

Answer(C) == [c \in Command |-> IF c \in C THEN answers[c] + 1 ELSE answers[c]]

CancelUnexpected(q, s) ==
    /\ queue' = Kept(q, s)
    /\ queue_state' = KeptState(q, s)

-----------------------------------------------------------------------------
(* dma_debugger_queue_complete                                             *)

\* dma_command_free of the command in progress
FreeLast ==
    /\ last' = none
    /\ job' = IF last # none /\ job = last THEN orphan ELSE job

\* Mutant: the commands that the unexpected state makes impossible are kept.
CompleteWithoutCancel ==
    /\ Top("complete")
    /\ stack' = <<Emitting(Head(stack).state), Executing>> \o Tail(stack)
    /\ FreeLast
    /\ UNCHANGED <<queue, queue_state, answers, insert_command, debugger_state,
                   stop_on_sharedlib, kind, at, working, reply, ends, runs,
                   phase, crashed>>

Complete ==
    /\ Top("complete")
    /\ LET s == Head(stack).state IN
       /\ IF last # none /\ GoingTo(kind[last]) # s
          THEN CancelUnexpected(queue, s) /\ answers' = Answer(Told(queue, s))
          ELSE UNCHANGED <<queue, queue_state, answers>>
       /\ stack' = <<Emitting(s), Executing>> \o Tail(stack)
    /\ FreeLast
    /\ UNCHANGED <<insert_command, debugger_state, stop_on_sharedlib, kind,
                   at, working, reply, ends, runs, phase, crashed>>

-----------------------------------------------------------------------------
(* dma_queue_emit_debugger_state                                           *)

\* Mutant: goes to the state at once.
ViaNothing(s) == s

\* The next state on the way to s.
Via(s) ==
    IF debugger_state > Loaded THEN IF s < Loaded THEN Loaded ELSE s
    ELSE IF s < debugger_state THEN debugger_state - 1
    ELSE IF debugger_state < Loaded THEN debugger_state + 1
    ELSE s

\* dma_queue_emit_debugger_state_change: the signal, and the state from then on
Starts(n) == n > Loaded /\ debugger_state < PStopped
SignalOf(n) ==
    CASE n = Stopped -> "debugger-stopped"
      [] n = Started -> IF debugger_state < n THEN "debugger-started"
                        ELSE "program-unloaded"
      [] n = Loaded -> IF debugger_state < n THEN "program-loaded"
                       ELSE "program-exited"
      [] Starts(n) -> "program-started"
      [] n = PStopped /\ debugger_state >= PStopped ->
             IF stop_on_sharedlib THEN "no" ELSE "program-stopped"
      [] n = Running /\ debugger_state >= PStopped -> "program-running"
StateAfter(n) == IF Starts(n) THEN PStopped + Running - n ELSE n

\* the session, for who hears the signal
Hears(p, signal) ==
    CASE signal = "debugger-stopped" -> "stopped"
      [] signal \in {"debugger-started", "program-unloaded"} -> "started"
      [] signal \in {"program-loaded", "program-exited"} -> "loaded"
      [] signal = "program-started" -> "program"
      [] OTHER -> p

HeadLink == IF queue = <<>> THEN none ELSE Head(queue)

EmitStateChange ==
    /\ Top("emit")
    /\ debugger_state # Head(stack).state
    /\ LET n == Via(Head(stack).state)
           signal == SignalOf(n)
       IN  /\ debugger_state' = StateAfter(n)
           /\ stop_on_sharedlib' = (stop_on_sharedlib /\ n = PStopped)
           /\ phase' = Hears(phase, signal)
           /\ IF signal = "no"
              THEN UNCHANGED <<insert_command, stack>>
              ELSE /\ insert_command' = <<HeadLink>> \o insert_command
                   /\ stack' = <<Window(signal)>> \o stack
    /\ UNCHANGED <<queue, last, queue_state, kind, backend, answers, crashed>>

StateEmitted ==
    /\ Top("emit")
    /\ debugger_state = Head(stack).state
    /\ stack' = Tail(stack)
    /\ UNCHANGED <<self, backend, answers, phase, crashed>>

\* program-moved, frame-changed, signal-received or sharedlib-event
OpenWindow ==
    /\ Top("open")
    /\ insert_command' = <<HeadLink>> \o insert_command
    /\ stack' = <<Window(Head(stack).signal)>> \o Tail(stack)
    /\ UNCHANGED <<queue, last, debugger_state, queue_state, stop_on_sharedlib,
                   kind, backend, answers, phase, crashed>>

\* Mutant: the link is left behind.
CloseWindowKeepingLink ==
    /\ Top("window")
    /\ stack' = Tail(stack)
    /\ UNCHANGED <<self, backend, answers, phase, crashed>>

\* The last listener has returned.
CloseWindow ==
    /\ Top("window")
    /\ insert_command' = Tail(insert_command)
    /\ stack' = Tail(stack)
    /\ UNCHANGED <<queue, last, debugger_state, queue_state, stop_on_sharedlib,
                   kind, backend, answers, phase, crashed>>

-----------------------------------------------------------------------------
(* dma_debugger_queue_execute                                              *)

\* Recheck the state in case of desynchronization.
Execute ==
    /\ Top("execute")
    /\ stack' = (IF last # none THEN Completing(GetState) ELSE <<>>)
                    \o <<Sending>> \o Tail(stack)
    /\ UNCHANGED <<self, backend, answers, phase, crashed>>

Sends == Top("send") /\ queue # <<>> /\ last = none

\* dma_command_run hands the command to the backend, which reports later.  A
\* backend that is busy would still do what it has first.
Send ==
    /\ Sends
    /\ kind[Head(queue)] \notin Asynchronous \cup {"set_environment"}
    /\ queue' = Tail(queue)
    /\ last' = Head(queue)
    /\ working' = TRUE
    /\ IF working
       THEN UNCHANGED <<job, reply, ends, runs>>
       ELSE /\ job' = Head(queue)
            /\ reply' = (kind[Head(queue)] \in Asks)
            /\ ends' = EndsOf(kind[Head(queue)], at)
            /\ runs' = FALSE
    /\ UNCHANGED <<insert_command, debugger_state, queue_state,
                   stop_on_sharedlib, kind, at, stack, answers, phase, crashed>>

\* The backend has nothing to set: it is ready before dma_command_run returns.
SendSetEnvironment ==
    /\ Sends
    /\ kind[Head(queue)] = "set_environment"
    /\ queue' = Tail(queue)
    /\ last' = Head(queue)
    /\ stack' = Completing(GetState) \o stack
    /\ UNCHANGED <<insert_command, debugger_state, queue_state,
                   stop_on_sharedlib, kind, backend, answers, phase, crashed>>

\* A signal to the program, if it runs; the backend reports nothing for it.
SendInterrupt ==
    /\ Sends
    /\ kind[Head(queue)] = "interrupt"
    /\ queue' = Tail(queue)
    /\ last' = Head(queue)
    /\ UNCHANGED <<insert_command, debugger_state, queue_state,
                   stop_on_sharedlib, kind, backend, stack, answers, phase,
                   crashed>>

\* The backend ends, and forgets what it had to do.
BackendGone ==
    /\ at' = Stopped
    /\ working' = FALSE
    /\ job' = none
    /\ reply' = FALSE
    /\ ends' = {}
    /\ runs' = FALSE

\* The backend reports debugger-stopped before dma_command_run returns.
SendAbort ==
    /\ Sends
    /\ kind[Head(queue)] = "abort"
    /\ queue' = Tail(queue)
    /\ last' = Head(queue)
    /\ BackendGone
    /\ stack' = Stopping \o stack
    /\ UNCHANGED <<insert_command, debugger_state, queue_state,
                   stop_on_sharedlib, kind, answers, phase, crashed>>

\* a command that is sent by the listener that adds it, as it adds it
FromListener == Len(stack) > 1 /\ stack[2].fn = "window" /\ ~stack[2].refused

\* The backend refuses to load, or the breakpoint of a command that has waited
\* has been set in the meantime: the command ends at once, and the next one is
\* sent.
SendFails ==
    /\ Sends
    /\ ~FromListener
    /\ LET k == kind[Head(queue)] IN
       /\ k \in {"load", "break_line", "break_function", "break_address"}
       /\ IF GoingTo(k) # Busy
          THEN /\ CancelUnexpected(Tail(queue), debugger_state)
               /\ answers' = Answer(Told(Tail(queue), debugger_state))
          ELSE /\ queue' = Tail(queue)
               /\ answers' = Answer({Head(queue)})
               /\ UNCHANGED queue_state
    /\ UNCHANGED <<last, insert_command, debugger_state, stop_on_sharedlib, kind,
                   backend, stack, phase, crashed>>

AllSent ==
    /\ Top("send")
    /\ queue = <<>> \/ last # none
    /\ stack' = Tail(stack)
    /\ UNCHANGED <<self, backend, answers, phase, crashed>>

-----------------------------------------------------------------------------
(* dma_debugger_queue_append                                               *)

\* the link that self->insert_command holds
Link == IF insert_command = <<>> THEN none ELSE Head(insert_command)

\* Mutant: the state the debugger has now, whatever is still queued.
CheckedNow(k) == debugger_state

\* dma_queue_check_state
CheckedState(k) ==
    IF insert_command = <<>> /\ k \notin HighPriority THEN queue_state
    ELSE IF last # none /\ GoingTo(kind[last]) # Busy THEN GoingTo(kind[last])
    ELSE debugger_state

\* Asynchronous and high priority commands go first, and take the commands
\* that cannot follow them away.  An asynchronous one may also take the place of
\* the command in progress.
AppendFirst(c, k, rest) ==
    /\ k \in Asynchronous \cup HighPriority
    /\ IF GoingTo(k) # Busy
       THEN /\ queue' = <<c>> \o Kept(queue, GoingTo(k))
            /\ queue_state' = KeptState(queue, GoingTo(k))
            /\ answers' = [Answer(Told(queue, GoingTo(k))) EXCEPT ![c] = 0]
       ELSE /\ queue' = <<c>> \o queue
            /\ answers' = [answers EXCEPT ![c] = 0]
            /\ UNCHANGED queue_state
    /\ stack' =
        (IF k \in Asynchronous /\ (GoingTo(k) = Stopped \/ debugger_state = Running)
         THEN Completing(debugger_state) ELSE <<>>) \o <<Executing>> \o rest
    /\ UNCHANGED crashed

\* A listener or a callback adds before the command that was first when it was
\* called.  None of them sets the state this way.
AppendBefore(c, k, rest) ==
    /\ k \notin Asynchronous \cup HighPriority
    /\ Link # none
    /\ IF In(Link, queue)
       THEN LET i == CHOOSE j \in DOMAIN queue : queue[j] = Link
            IN  /\ queue' = SubSeq(queue, 1, i - 1) \o <<c>>
                                \o SubSeq(queue, i, Len(queue))
                /\ UNCHANGED crashed
       ELSE crashed' = TRUE /\ UNCHANGED queue
    /\ answers' = [answers EXCEPT ![c] = 0]
    /\ stack' = <<Executing>> \o rest
    /\ UNCHANGED queue_state

AppendLast(c, k, rest) ==
    /\ k \notin Asynchronous \cup HighPriority
    /\ Link = none
    /\ queue' = Append(queue, c)
    /\ queue_state' = IF GoingTo(k) # Busy THEN GoingTo(k) ELSE queue_state
    /\ answers' = [answers EXCEPT ![c] = 0]
    /\ stack' = <<Executing>> \o rest
    /\ UNCHANGED crashed

\* A command that does not fit the state is freed, after a look at whether the
\* command in progress has really ended.  rest is where the call returns,
\* refusedRest if the command is refused.
AppendCommand(c, k, rest, refusedRest) ==
    /\ IF CheckedState(k) \in Need(k)
       THEN /\ kind' = [kind EXCEPT ![c] = k]
            /\ \/ AppendFirst(c, k, rest)
               \/ AppendBefore(c, k, rest)
               \/ AppendLast(c, k, rest)
       ELSE /\ stack' = Completing(GetState) \o refusedRest
            /\ UNCHANGED <<queue, queue_state, kind, answers, crashed>>
    /\ UNCHANGED <<last, insert_command, debugger_state, stop_on_sharedlib,
                   backend, phase>>

-----------------------------------------------------------------------------
(* The clients                                                             *)

\* A menu or a tool bar, from the main loop.  Interrupt is only sensitive while
\* the program runs; a client quits with QuitDebugger.
UserAppends(k) ==
    /\ stack = <<>>
    /\ Unused # {}
    /\ k # "quit"
    /\ k = "interrupt" => debugger_state = Running
    /\ k = "abort" /\ last # none =>
           AbortsLoad \/ kind[last] \notin {"load", "attach"}
    /\ AppendCommand(New, k, <<>>, <<>>)

\* dma_quit_debugger: dma_queue_interrupt, then dma_queue_quit
QuitDebugger ==
    /\ stack = <<>>
    /\ {"interrupt", "quit"} \subseteq Used
    /\ last # none /\ GoingTo(kind[last]) = Stopped => QuitsAgain
    /\ Cardinality(Unused) > 1
    /\ LET next == <<Adding("quit", CHOOSE c \in Unused \ {New} : TRUE)>>
       IN  AppendCommand(New, "interrupt", next, next)

AddQuit ==
    /\ Top("quit")
    /\ AppendCommand(Head(stack).cmd, "quit", Tail(stack), Tail(stack))

\* What the listeners of a signal of the plugin add: the breakpoints when a
\* program is loaded or loads a library, their hit counts and the memory view
\* when it stops, stack, locals, registers and code when it has moved, and a
\* variable to delete, which is refused, once the program has exited.
Adds(signal) ==
    CASE signal \in {"program-loaded", "sharedlib-event"} ->
             BreakKinds \cup {"remove_break"}
      [] signal = "program-stopped" -> {"list_break", "inspect_memory"}
      [] signal = "program-moved" ->
             FrameKinds \cup {"set_thread", "list_register", "disassemble"}
      [] signal = "program-exited" -> {"delete_variable"}
      [] signal = "callback" -> Asks \cup {"delete_variable"}
      [] OTHER -> {}

\* A listener or a callback.  None adds a command after one that is refused.
ListenerAppends(k) ==
    /\ Top("window")
    /\ ~Head(stack).refused
    /\ Unused # {}
    /\ k \in Adds(Head(stack).signal)
    /\ AppendCommand(New, k, stack,
           <<[Head(stack) EXCEPT !.refused = TRUE]>> \o Tail(stack))

-----------------------------------------------------------------------------
(* The backend                                                             *)

\* The output of the backend says that the command is done: the callback comes
\* first, then what has moved, then debugger-ready.
BackendDone(s) ==
    /\ stack = <<>>
    /\ working
    /\ s \in ends
    /\ stack' = (IF reply THEN <<Replying>> ELSE <<>>)
                \o (IF runs /\ s = PStopped THEN <<Opening("program-moved")>> ELSE <<>>)
                \o <<Ready(s)>>
    /\ UNCHANGED <<self, backend, answers, phase, crashed>>

\* dma_debugger_queue_command_callback
CommandCallback ==
    /\ Top("callback")
    /\ reply' = FALSE
    /\ IF last # none /\ queue_state # Stopped
       THEN /\ insert_command' = <<HeadLink>> \o insert_command
            /\ answers' = Answer({last})
            /\ stack' = <<Window("callback")>> \o Tail(stack)
       ELSE /\ stack' = Tail(stack)
            /\ UNCHANGED <<insert_command, answers>>
    /\ UNCHANGED <<queue, last, debugger_state, queue_state, stop_on_sharedlib,
                   kind, at, working, job, ends, runs, phase, crashed>>

Idle(s) ==
    /\ at' = s
    /\ working' = FALSE
    /\ job' = none
    /\ ends' = {}
    /\ runs' = FALSE

\* on_dma_debugger_ready
DebuggerReady ==
    /\ Top("ready")
    /\ Idle(Head(stack).state)
    /\ stack' = Completing(Head(stack).state) \o Tail(stack)
    /\ UNCHANGED <<self, reply, answers, phase, crashed>>

\* on_dma_program_running
ProgramRuns ==
    /\ stack = <<>>
    /\ working
    /\ ~runs
    /\ {Loaded, PStopped} \subseteq ends
    /\ runs' = TRUE
    /\ stack' = <<Emitting(Running)>>
    /\ UNCHANGED <<self, at, working, job, reply, ends, answers, phase, crashed>>

\* on_dma_sharedlib_event: the program has stopped, to load a library, and has
\* to run again once the listeners have set their pending breakpoints
SharedlibEvent ==
    /\ stack = <<>>
    /\ runs
    /\ Unused # {}
    /\ Idle(PStopped)
    /\ stop_on_sharedlib' = TRUE
    /\ stack' = Completing(PStopped)
                    \o <<Opening("sharedlib-event"), Adding("rerun", New)>>
    /\ UNCHANGED <<queue, last, insert_command, debugger_state, queue_state, kind,
                   reply, answers, phase, crashed>>

RunAgain ==
    /\ Top("rerun")
    /\ AppendCommand(Head(stack).cmd, "run", Tail(stack), Tail(stack))

\* on_dma_debugger_stopped: the backend ends, because it was told to or not
BackendEnds ==
    /\ stack = <<>>
    /\ working \/ (DiesIdle /\ at # Stopped)
    /\ BackendGone
    /\ stack' = Stopping
    /\ UNCHANGED <<self, answers, phase, crashed>>

\* Mutant: the command in progress is not completed.
RereadNothing ==
    /\ Top("reread")
    /\ stack' = Tail(stack)
    /\ UNCHANGED <<self, backend, answers, phase, crashed>>

\* the state could have changed while the signals were emitted
Reread ==
    /\ Top("reread")
    /\ stack' = Completing(GetState) \o Tail(stack)
    /\ UNCHANGED <<self, backend, answers, phase, crashed>>

-----------------------------------------------------------------------------
Return ==
    \/ Complete \/ EmitStateChange \/ StateEmitted \/ OpenWindow \/ CloseWindow
    \/ Execute \/ Send \/ SendSetEnvironment \/ SendInterrupt \/ SendAbort
    \/ SendFails \/ AllSent \/ AddQuit \/ RunAgain \/ CommandCallback
    \/ DebuggerReady \/ Reread

Next ==
    \/ Return
    \/ \E k \in Used : UserAppends(k) \/ ListenerAppends(k)
    \/ QuitDebugger
    \/ \E s \in State : BackendDone(s)
    \/ ProgramRuns \/ SharedlibEvent \/ BackendEnds

Spec == Init /\ [][Next]_vars

\* Calls return, and the main loop, which serves all its sources in turn, comes
\* to the output of a backend that works: it reports its end or ends itself.
FairSpec ==
    /\ Spec
    /\ WF_vars(Return)
    /\ SF_vars((\E s \in State : BackendDone(s)) \/ BackendEnds)

-----------------------------------------------------------------------------
(* Properties                                                              *)

Signal == {"debugger-started", "debugger-stopped", "program-loaded",
    "program-unloaded", "program-started", "program-exited", "program-stopped",
    "program-running", "program-moved", "sharedlib-event", "callback"}

Function == {"complete", "emit", "execute", "send", "reread", "callback",
    "ready", "open", "window", "quit", "rerun"}

FrameType == [fn : Function,
              state : Busy .. Running, signal : Signal \cup {"no"},
              cmd : Command \cup {none}, refused : BOOLEAN]

(* The types of the fields.  The states of the queue are never BUSY, the     *)
(* "do nothing marker" of dma_queue_cancel_unexpected and complete.          *)
TypeOK ==
    /\ queue \in Seq(Command)
    /\ last \in Command \cup {none}
    /\ insert_command \in Seq(Command \cup {none})
    /\ debugger_state \in State
    /\ queue_state \in State
    /\ stop_on_sharedlib \in BOOLEAN
    /\ kind \in [Command -> Kind]
    /\ at \in State
    /\ working \in BOOLEAN
    /\ job \in Command \cup {none, orphan}
    /\ reply \in BOOLEAN
    /\ ends \subseteq State
    /\ runs \in BOOLEAN
    /\ stack \in Seq(FrameType)
    /\ answers \in [Command -> Nat]
    /\ phase \in Session!Phase
    /\ crashed \in BOOLEAN

(* Back in the main loop with a backend that has nothing to do, the queue is *)
(* empty, no command is in progress, and the two states the queue keeps are  *)
(* the state of the backend: no command is stuck behind one that has ended,  *)
(* and the next append is checked against the truth (check_state).           *)
InSync ==
    stack = <<>> /\ ~working =>
        /\ queue = <<>>
        /\ last = none
        /\ debugger_state = at
        /\ queue_state = at

(* The queue does not know whose answer the backend gives: it calls the      *)
(* callback of the command in progress (dma_debugger_queue_command_callback),*)
(* so that must be the command the backend has worked on, although commands  *)
(* put first may have taken its place.                                       *)
CallbackToOwner ==
    Top("callback") /\ last # none /\ queue_state # Stopped => job = last

(* insert_command holds bare links of the queue: the link that an append     *)
(* goes before must still be in the queue (dma_debugger_queue_append).       *)
NoUseAfterFree == ~crashed

(* The states are checked when a command is added, for a time at which it is *)
(* sent later: what the backend is given, once the commands before it are    *)
(* done or cancelled, fits the state the backend is in then and the backend  *)
(* is idle.  Asynchronous commands are for a busy backend.                   *)
CommandsFitState ==
    [][last' \notin {last, none} /\ kind[last'] \notin Asynchronous =>
           ~working /\ at \in Need(kind[last'])]_vars

(* However a command and its neighbours are cancelled, its client's callback *)
(* is called once, with a result or with the cancellation: never twice, and  *)
(* not at all only if the debugger stops or is about to.                     *)
AnsweredOnce ==
    [][\A c \in Command :
        /\ answers'[c] <= 1
        /\ Live(c) /\ kind[c] \in Asks /\ ~Live(c)' /\ answers'[c] = 0 =>
               \/ queue_state = Stopped \/ at = Stopped
               \/ \E i \in DOMAIN queue : kind[queue[i]] = "abort"]_vars

(* Whatever state the backend jumps to, the signals emitted follow the life  *)
(* of a session: emit_debugger_state inserts the ones that are missing.      *)
SignalsInOrder == Session!Spec

(* Every command in progress ends, the ones whose end the backend does not   *)
(* report too: an interrupt ends with the run it stops, an abort when        *)
(* debugger-stopped has the state read again.                                *)
CommandsEnd == \A c \in Command : last = c ~> last # c

(* The comment of dma_debugger_queue_clear (queue.c:132): "Queue is empty so *)
(* has the same state than debugger".  It does not when the debugger has     *)
(* ended with nothing in progress.                                           *)
EmptyQueueSameState ==
    stack = <<>> /\ queue = <<>> /\ last = none => queue_state = debugger_state

(* The comment of on_session_save (plugin.c:378): "Close debugger when       *)
(* session changed".  An abort that the queue has taken is given to the      *)
(* backend.  It is not when a program is loading.                            *)
AbortIsSent ==
    [][\A c \in Command :
        In(c, queue) /\ kind[c] = "abort" /\ ~In(c, queue)' => last' = c]_vars
=============================================================================
