------------------------- MODULE AnjutaCommandQueue -------------------------
(***************************************************************************)
(* AnjutaCommandQueue (libanjuta/anjuta-command-queue.c) with the commands *)
(* it runs, as AnjutaCommand starts and finishes them                      *)
(* (libanjuta/anjuta-command.c) and as the command classes complete:       *)
(* later, from a source of the main loop (AnjutaAsyncCommand, a GitCommand *)
(* whose child exits), or at once, inside anjuta_command_start             *)
(* (AnjutaSyncCommand, a GitCommand whose child cannot be executed).       *)
(*                                                                         *)
(* Everything runs on the main thread, and completion is a nested call:    *)
(* anjuta_command_start may emit command-finished, whose handler           *)
(* on_command_finished starts the next command, and so on.  The variable   *)
(* stack is that call stack, innermost call first.                         *)
(*                                                                         *)
(* A client creates each command for one push, connects its own handlers   *)
(* before it pushes, and drops its reference in the last of them, as every *)
(* client in plugins/ does.                                                *)
(***************************************************************************)
EXTENDS Integers, Sequences

CONSTANTS
    Command,  \* the commands the clients create
    Mode,     \* the execute modes to consider
    none      \* not a command

ASSUME ConstantsAssumption ==
    /\ Mode \subseteq {"AUTOMATIC", "MANUAL"}
    /\ none \notin Command

VARIABLES
    \* AnjutaCommandQueuePriv and the life of the queue object
    mode,       \* priv->mode
    queue,      \* priv->queue
    busy,       \* priv->busy
    alive,      \* the queue has not been finalized
    \* the commands
    running,    \* AnjutaCommandPriv.running, for each command
    connected,  \* on_command_finished handlers connected to each command
    owned,      \* the commands whose client still holds its reference
    held,       \* references the queue holds on each command
    active,     \* commands at work outside the main thread's call stack
    \* the call stack of the main thread
    stack,
    \* history
    pushed,     \* the commands pushed, in order
    done,       \* the commands that emitted command-finished, in order
    announced   \* how often the queue emitted finished

self == <<mode, queue, busy, alive>>
cmds == <<running, connected, owned, held, active>>
hist == <<pushed, done, announced>>
vars == <<self, cmds, stack, hist>>

In(c, s) == \E i \in DOMAIN s : s[i] = c

-----------------------------------------------------------------------------
(* Calls in progress                                                       *)

\* anjuta_command_start, after command-started: the class's start method
Starting(c) == [fn |-> "start", cmd |-> c, stage |-> "class", left |-> 0]

\* the emission of command-finished; the class handler has run.  First the
\* client's handlers run, then on_command_finished, left times
Emitting(c) ==
    [fn |-> "emit", cmd |-> c, stage |-> "clients", left |-> connected[c]]

\* on_command_finished, after anjuta_command_start: g_object_unref
Releasing(c) == [fn |-> "unref", cmd |-> c, stage |-> "class", left |-> 0]

\* the emission of the queue's finished signal
Announcing == [fn |-> "finished", cmd |-> none, stage |-> "class", left |-> 0]

Top(fn) == stack # <<>> /\ Head(stack).fn = fn

\* A command is finalized when neither the client nor the queue nor an
\* emission in progress holds it.
Freed(c) ==
    /\ c \notin owned
    /\ held[c] = 0
    /\ \A i \in DOMAIN stack : ~(stack[i].fn = "emit" /\ stack[i].cmd = c)

Init ==
    /\ mode \in Mode
    /\ queue = <<>>
    /\ busy = FALSE
    /\ alive = TRUE
    /\ running = [c \in Command |-> FALSE]
    /\ connected = [c \in Command |-> 0]
    /\ owned = Command
    /\ held = [c \in Command |-> 0]
    /\ active = {}
    /\ stack = <<>>
    /\ pushed = <<>>
    /\ done = <<>>
    /\ announced = 0

-----------------------------------------------------------------------------
(* anjuta_command_start and the completion of a command                    *)

\* Defective variant, see below: the handler is never connected.
StartUnconnected(c, rest) ==
    /\ connected' = connected
    /\ running' = [running EXCEPT ![c] = TRUE]
    /\ stack' = IF running[c] THEN rest ELSE <<Starting(c)>> \o rest

\* The queue connects its handler to c and calls anjuta_command_start, with
\* rest the calls to return to.  A command that runs already is not started
\* again.
ConnectAndStart(c, rest) ==
    /\ connected' = [connected EXCEPT ![c] = @ + 1]
    /\ running' = [running EXCEPT ![c] = TRUE]
    /\ stack' = IF running[c] THEN rest ELSE <<Starting(c)>> \o rest

\* the start method hands the work to a thread or a child process and returns
Launch ==
    /\ Top("start")
    /\ active' = active \cup {Head(stack).cmd}
    /\ stack' = Tail(stack)
    /\ UNCHANGED <<self, running, connected, owned, held, hist>>

\* command-finished: its class handler clears running before the others run
Emit(c, rest) ==
    /\ running' = [running EXCEPT ![c] = FALSE]
    /\ done' = Append(done, c)
    /\ stack' = <<Emitting(c)>> \o rest

\* the start method runs to completion, or fails, before it returns
CompleteInStart ==
    /\ Top("start")
    /\ Emit(Head(stack).cmd, Tail(stack))
    /\ UNCHANGED <<self, connected, owned, held, active, pushed, announced>>

\* the main loop learns that the thread or the child has finished
Complete(c) ==
    /\ stack = <<>>
    /\ c \in active
    /\ active' = active \ {c}
    /\ Emit(c, stack)
    /\ UNCHANGED <<self, connected, owned, held, pushed, announced>>

\* the client's handlers; the last drops the client's reference
ClientHandlers ==
    /\ Top("emit")
    /\ Head(stack).stage = "clients"
    /\ owned' = owned \ {Head(stack).cmd}
    /\ stack' = <<[Head(stack) EXCEPT !.stage = "queue"]>> \o Tail(stack)
    /\ UNCHANGED <<self, running, connected, held, active, hist>>

-----------------------------------------------------------------------------
(* The queue                                                               *)

\* The frame of the emission that calls on_command_finished once more.
Called == <<[Head(stack) EXCEPT !.left = @ - 1]>> \o Tail(stack)

(* Defective variants of some actions.  No specification uses them: each is *)
(* put in the place of the one it varies to show that a property of this    *)
(* module detects the defect.                                               *)

\* g_queue_pop_tail instead of g_queue_pop_head
StartLast ==
    /\ Top("emit")
    /\ Head(stack).stage = "queue"
    /\ Head(stack).left > 0
    /\ queue # <<>>
    /\ queue' = SubSeq(queue, 1, Len(queue) - 1)
    /\ LET c == queue[Len(queue)]
       IN  ConnectAndStart(c, <<Releasing(c)>> \o Called)
    /\ UNCHANGED <<mode, busy, alive, owned, held, active, hist>>

\* on_command_finished drops the command that finished, not the next one
StartNextUnrefFinished ==
    /\ Top("emit")
    /\ Head(stack).stage = "queue"
    /\ Head(stack).left > 0
    /\ queue # <<>>
    /\ queue' = Tail(queue)
    /\ ConnectAndStart(Head(queue), <<Releasing(Head(stack).cmd)>> \o Called)
    /\ UNCHANGED <<mode, busy, alive, owned, held, active, hist>>

\* finished emitted as the last command starts
StartNextAndAnnounce ==
    /\ Top("emit")
    /\ Head(stack).stage = "queue"
    /\ Head(stack).left > 0
    /\ queue # <<>>
    /\ queue' = Tail(queue)
    /\ ConnectAndStart(Head(queue),
           (IF mode = "MANUAL" /\ Len(queue) = 1 THEN <<Announcing>> ELSE <<>>)
               \o <<Releasing(Head(queue))>> \o Called)
    /\ UNCHANGED <<mode, busy, alive, owned, held, active, hist>>

\* busy cleared only where finished is emitted
IdleOnlyIfManual ==
    /\ Top("emit")
    /\ Head(stack).stage = "queue"
    /\ Head(stack).left > 0
    /\ queue = <<>>
    /\ busy' = (mode = "AUTOMATIC")
    /\ stack' = IF mode = "MANUAL" THEN <<Announcing>> \o Called ELSE Called
    /\ UNCHANGED <<mode, queue, alive, cmds, hist>>

\* a push that queues without g_object_ref
PushWithoutRef(c) ==
    /\ alive
    /\ ~In(c, pushed)
    /\ \/ stack = <<>>
       \/ Top("emit") /\ Head(stack).stage = "clients"
    /\ pushed' = Append(pushed, c)
    /\ \/ /\ mode = "AUTOMATIC"
          /\ ~busy
          /\ busy' = TRUE
          /\ ConnectAndStart(c, stack)
          /\ UNCHANGED queue
       \/ /\ mode = "MANUAL" \/ busy
          /\ queue' = Append(queue, c)
          /\ UNCHANGED <<busy, running, connected, stack>>
    /\ UNCHANGED <<mode, alive, owned, held, active, done, announced>>

-----------------------------------------------------------------------------
\* on_command_finished with a next command: connect, start, then unref
StartNext ==
    /\ Top("emit")
    /\ Head(stack).stage = "queue"
    /\ Head(stack).left > 0
    /\ queue # <<>>
    /\ queue' = Tail(queue)
    /\ ConnectAndStart(Head(queue), <<Releasing(Head(queue))>> \o Called)
    /\ UNCHANGED <<mode, busy, alive, owned, held, active, hist>>

\* on_command_finished with nothing left: only a manual queue announces it
BecomeIdle ==
    /\ Top("emit")
    /\ Head(stack).stage = "queue"
    /\ Head(stack).left > 0
    /\ queue = <<>>
    /\ busy' = FALSE
    /\ stack' = IF mode = "MANUAL" THEN <<Announcing>> \o Called ELSE Called
    /\ UNCHANGED <<mode, queue, alive, cmds, hist>>

EndEmission ==
    /\ Top("emit")
    /\ Head(stack).stage = "queue"
    /\ Head(stack).left = 0
    /\ stack' = Tail(stack)
    /\ UNCHANGED <<self, cmds, hist>>

\* g_object_unref of the command on_command_finished has popped and started
ReleaseNext ==
    /\ Top("unref")
    /\ held' = [held EXCEPT ![Head(stack).cmd] = @ - 1]
    /\ stack' = Tail(stack)
    /\ UNCHANGED <<self, running, connected, owned, active, hist>>

\* finished: the client of a manual queue drops the queue in its handler;
\* finalize drops the commands that are still queued
Announce ==
    /\ Top("finished")
    /\ announced' = announced + 1
    /\ alive' = FALSE
    /\ held' = [c \in Command |-> IF In(c, queue) THEN held[c] - 1 ELSE held[c]]
    /\ stack' = Tail(stack)
    /\ UNCHANGED <<mode, queue, busy, running, connected, owned, active,
                   pushed, done>>

\* anjuta_command_queue_push, called from the main loop or from a client's
\* handler of command-finished
Push(c) ==
    /\ alive
    /\ ~In(c, pushed)
    /\ \/ stack = <<>>
       \/ Top("emit") /\ Head(stack).stage = "clients"
    /\ pushed' = Append(pushed, c)
    /\ \/ /\ mode = "AUTOMATIC"
          /\ ~busy
          /\ busy' = TRUE
          /\ ConnectAndStart(c, stack)
          /\ UNCHANGED <<queue, held>>
       \/ /\ mode = "MANUAL" \/ busy
          /\ queue' = Append(queue, c)
          /\ held' = [held EXCEPT ![c] = @ + 1]
          /\ UNCHANGED <<busy, running, connected, stack>>
    /\ UNCHANGED <<mode, alive, owned, active, done, announced>>

\* anjuta_command_queue_start; it pops the first command and does not drop
\* the reference push took.  With nothing queued it does nothing
Start ==
    /\ stack = <<>>
    /\ alive
    /\ mode = "MANUAL"
    /\ ~busy
    /\ queue # <<>>
    /\ queue' = Tail(queue)
    /\ busy' = TRUE
    /\ ConnectAndStart(Head(queue), stack)
    /\ UNCHANGED <<mode, alive, owned, held, active, hist>>

-----------------------------------------------------------------------------
Return ==
    \/ Launch \/ CompleteInStart \/ ClientHandlers
    \/ StartNext \/ BecomeIdle \/ EndEmission \/ ReleaseNext \/ Announce

Next ==
    \/ \E c \in Command : Push(c) \/ Complete(c)
    \/ Start
    \/ Return

Spec == Init /\ [][Next]_vars

\* A call in progress goes on, every launched command finishes, and the client
\* of a manual queue starts it after its pushes.
FairSpec ==
    /\ Spec
    /\ WF_vars(Return)
    /\ \A c \in Command : WF_vars(Complete(c))
    /\ WF_vars(Start)

-----------------------------------------------------------------------------
(* Properties                                                              *)

Frame ==
    [fn : {"start", "emit", "unref"}, cmd : Command,
     stage : {"class", "clients", "queue"}, left : Nat]
        \cup {Announcing}

\* Types and ranges; in particular the queue never drops a reference it does
\* not hold: not every command it starts was taken from the queue, and only
\* those were referenced when they were pushed.
TypeOK ==
    /\ mode \in Mode
    /\ queue \in Seq(Command)
    /\ busy \in BOOLEAN
    /\ alive \in BOOLEAN
    /\ running \in [Command -> BOOLEAN]
    /\ connected \in [Command -> Nat]
    /\ owned \subseteq Command
    /\ held \in [Command -> Nat]
    /\ active \subseteq Command
    /\ stack \in Seq(Frame)
    /\ pushed \in Seq(Command)
    /\ done \in Seq(Command)
    /\ announced \in Nat

\* A command is never finalized while the queue or a call in progress still
\* has to use it: while it is queued, while its start method is about to run,
\* while it works, and while it waits for on_command_finished to unref it.
CommandsAlive ==
    \A c \in Command :
        \/ In(c, queue) /\ alive
        \/ c \in active
        \/ \E i \in DOMAIN stack : stack[i].cmd = c
        => ~Freed(c)

\* on_command_finished is handed the bare queue pointer.  It is never called
\* on a queue its client has dropped in the finished handler.
QueueAlive ==
    ~alive =>
        /\ active = {}
        /\ \A i \in DOMAIN stack :
               /\ stack[i].fn \in {"emit", "unref"}
               /\ stack[i].fn = "emit" =>
                      stack[i].stage = "queue" /\ stack[i].left = 0

\* Neither a command nor the queue is used after it has been finalized.
NoUseAfterFree == CommandsAlive /\ QueueAlive

\* Back in the main loop, the queue is busy exactly when one of its commands
\* is at work: it can neither stall with commands waiting nor refuse to start.
BusyIffWorking ==
    stack = <<>> =>
        /\ busy <=> active # {}
        /\ mode = "AUTOMATIC" /\ queue # <<>> => busy

\* A manual queue emits finished once, after all the commands it was given
\* have finished.
FinishedMeansAllDone ==
    /\ announced <= 1
    /\ announced = 1 => Len(done) = Len(pushed)

\* The command that runs, as SerialRunner sees it.
Current ==
    IF \E c \in Command : running[c]
    THEN CHOOSE c \in Command : running[c]
    ELSE none
Runner == INSTANCE SerialRunner WITH waiting <- queue, current <- Current

\* The queue is a serial runner: commands begin in the order they were pushed,
\* one at a time, each once.
SerialExecution == Runner!Spec

\* Every pushed command runs to its end.
AllPushedRun == Runner!Fairness

\* At most one command runs.
OneAtATime ==
    \A c, d \in Command : running[c] /\ running[d] => c = d
=============================================================================
