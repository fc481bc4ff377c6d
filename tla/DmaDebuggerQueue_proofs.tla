---------------------- MODULE DmaDebuggerQueue_proofs ----------------------
(***************************************************************************)
(* The debugger queue for any number of commands, any kinds the clients    *)
(* use and any backend, however deep the queue is reentered: the signals   *)
(* follow the life of a session, the types of the fields, that the link a  *)
(* new command goes before has never been freed, and, where the runs show  *)
(* that they hold, that the queue and the backend fit.                     *)
(*                                                                         *)
(* The signals.  The phase of the session is a function of debugger_state, *)
(* which only EmitStateChange changes, by one step of the life cycle, and  *)
(* every call on the stack that leads to an emission carries a state of a  *)
(* debugger that is not busy.  This needs neither the queue nor the        *)
(* commands.                                                               *)
(*                                                                         *)
(* The types.  queue, with what a cancellation keeps of it, is a sequence  *)
(* of commands; insert_command holds one link for each emission in         *)
(* progress on the stack, so that Tail is never taken of an empty one.     *)
(*                                                                         *)
(* The links.  A link is freed when its command is completed or cancelled. *)
(* In four steps, each an inductive invariant that uses the ones before:   *)
(*   - CallInv: which calls are where on the stack, how the states they    *)
(*     carry agree with the backend, and which calls are left when the     *)
(*     queue and the backend disagree or an abort waits;                   *)
(*   - PlaceInv: a command is in one place, and a queue that waits for     *)
(*     nothing is about to be sent;                                        *)
(*   - RunningInv: no command for a stopped debugger waits behind one that *)
(*     runs the program, an interrupt waits only behind commands that set  *)
(*     no state, and a command in progress with an idle backend is about   *)
(*     to be completed, or is an interrupt;                                *)
(*   - OpenInv: at most one emission has listeners that may still append.  *)
(*     While they do, nothing is sent ahead of their link; what they       *)
(*     append is sent before it; and if the debugger has ended under them  *)
(*     the queue is emptied, and what they append next is refused.         *)
(*                                                                         *)
(* The backend.  FitInv adds what the queue knows of it.  It is inductive  *)
(* if the backend does not end while it is idle, nothing aborts a load and *)
(* the debugger is not stopped again while it stops (Orderly):             *)
(*   - SettleInv, ReplyInv, SentInv and TellInv: what each call on the     *)
(*     stack says of the state of the backend and of the answer to come;   *)
(*   - WorkInv and JobInv: a busy backend works on the command in progress,*)
(*     which only an interrupt or an abort overtakes;                      *)
(*   - IdleInv: an idle one finds none in progress, but for one whose end  *)
(*     the queue is about to see;                                          *)
(*   - LinkFirstInv, PlanInv and FrontInv: each command of the queue fits  *)
(*     the state that the commands before it announce, and the first ones  *)
(*     fit that of the backend;                                            *)
(*   - AnswerInv: which commands have had their answer.                    *)
(***************************************************************************)
EXTENDS DmaDebuggerQueue, SequenceFilter_proofs

PhaseOf(s) ==
    IF s = Stopped THEN "stopped"
    ELSE IF s = Started THEN "started"
    ELSE IF s = Loaded THEN "loaded"
    ELSE "program"

\* A call on the stack; the ones that report a state report one in State, and
\* the ones about to append a command have one.
Call == {f \in FrameType :
    /\ f.fn \in {"complete", "emit", "ready"} => f.state \in State
    /\ f.fn \in {"quit", "rerun"} => f.cmd \in Command}

CallsInv == stack \in Seq(Call)

BackendInv == at \in State /\ ends \subseteq State

PhaseInv == debugger_state \in State /\ phase = PhaseOf(debugger_state)

IInv == CallsInv /\ BackendInv /\ PhaseInv

-----------------------------------------------------------------------------
\* The calls that Frame makes.
LEMMA FrameIsCall ==
    ASSUME NEW fn \in Function, NEW s \in Busy .. Running,
           NEW x \in Signal \cup {"no"}, NEW c \in Command \cup {none},
           fn \in {"complete", "emit", "ready"} => s \in State,
           fn \in {"quit", "rerun"} => c \in Command
    PROVE  Frame(fn, s, x, c) \in Call
BY DEF Frame, Call, FrameType

\* The calls that the operators of the module make are calls.
LEMMA Calls ==
    /\ Executing \in Call /\ Sending \in Call /\ Replying \in Call
    /\ \A s \in State : Emitting(s) \in Call /\ Ready(s) \in Call
    /\ \A s \in State \cup {Busy} : Completing(s) \in Seq(Call)
    /\ Stopping \in Seq(Call)
    /\ \A x \in Signal : Opening(x) \in Call /\ Window(x) \in Call
    /\ \A c \in Command : Adding("quit", c) \in Call /\ Adding("rerun", c) \in Call
<1> USE FrameIsCall DEF Function, State, Busy, Stopped, Running
<1>1. Executing \in Call /\ Sending \in Call /\ Replying \in Call
  BY DEF Executing, Sending, Replying
<1>2. \A s \in State : Emitting(s) \in Call /\ Ready(s) \in Call
  BY DEF Emitting, Ready
<1>3. \A s \in State \cup {Busy} : Completing(s) \in Seq(Call)
  BY DEF Completing
<1>4. Stopping \in Seq(Call)
  BY <1>2 DEF Stopping
<1>5. \A x \in Signal : Opening(x) \in Call /\ Window(x) \in Call
  BY DEF Opening, Window
<1>6. \A c \in Command : Adding("quit", c) \in Call /\ Adding("rerun", c) \in Call
  BY DEF Adding
<1> QED
  BY <1>1, <1>2, <1>3, <1>4, <1>5, <1>6

\* What a return from, or a call on top of, a stack of calls leaves.
LEMMA CallStack ==
    ASSUME CallsInv, stack # <<>>
    PROVE  /\ Head(stack) \in Call
           /\ Tail(stack) \in Seq(Call)
BY DEF CallsInv

\* The commands that the clients add exist.
LEMMA NewIsCommand ==
    ASSUME Unused # {}
    PROVE  New \in Command
BY DEF New, Unused

-----------------------------------------------------------------------------
\* The next state on the way to a state is one step of the life cycle away.
LEMMA OneStep ==
    ASSUME NEW s \in State, PhaseInv, debugger_state # s,
           debugger_state' = StateAfter(Via(s)),
           phase' = Hears(phase, SignalOf(Via(s)))
    PROVE  /\ PhaseInv'
           /\ SignalOf(Via(s)) \in Signal \cup {"no"}
           /\ phase' # phase => phase' \in Session!Phase /\ <<phase, phase'>> \in Session!LifeCycle
<1> USE DEF PhaseInv, State, Stopped, Started, Loaded, PStopped, Running
<1>1. debugger_state \in 1 .. 5 /\ s \in 1 .. 5
  OBVIOUS
<1>2. /\ debugger_state' \in State
      /\ phase' = PhaseOf(debugger_state')
      /\ SignalOf(Via(s)) \in Signal \cup {"no"}
      /\ \/ phase' = phase
         \/ phase = "stopped" /\ phase' = "started"
         \/ phase = "started" /\ phase' = "loaded"
         \/ phase = "loaded" /\ phase' = "program"
         \/ phase = "program" /\ phase' = "loaded"
         \/ phase = "loaded" /\ phase' = "started"
         \/ phase = "started" /\ phase' = "stopped"
  <2>1. CASE debugger_state = 1
    BY <1>1, <2>1 DEF StateAfter, Via, Hears, SignalOf, Starts, PhaseOf, Signal
  <2>2. CASE debugger_state = 2
    BY <1>1, <2>2 DEF StateAfter, Via, Hears, SignalOf, Starts, PhaseOf, Signal
  <2>3. CASE debugger_state = 3
    BY <1>1, <2>3 DEF StateAfter, Via, Hears, SignalOf, Starts, PhaseOf, Signal
  <2>4. CASE debugger_state = 4
    BY <1>1, <2>4 DEF StateAfter, Via, Hears, SignalOf, Starts, PhaseOf, Signal
  <2>5. CASE debugger_state = 5
    BY <1>1, <2>5 DEF StateAfter, Via, Hears, SignalOf, Starts, PhaseOf, Signal
  <2> QED
    BY <1>1, <2>1, <2>2, <2>3, <2>4, <2>5
<1> QED
  BY <1>2 DEF Session!Phase, Session!LifeCycle

\* The phase, and the state it follows, change in EmitStateChange only.
LEMMA PhaseStep ==
    ASSUME IInv, [Next]_vars
    PROVE  /\ PhaseInv'
           /\ [Session!Next]_phase
<1> USE DEF IInv
<1>1. CASE EmitStateChange
  <2> DEFINE s == Head(stack).state
  <2>1. s \in State /\ debugger_state # s
    BY <1>1, CallStack DEF EmitStateChange, Top, Call
  <2>2. debugger_state' = StateAfter(Via(s)) /\ phase' = Hears(phase, SignalOf(Via(s)))
    BY <1>1 DEF EmitStateChange
  <2> HIDE DEF s
  <2> QED
    BY <2>1, <2>2, OneStep DEF Session!Next
<1>2. CASE ~EmitStateChange
  <2>1. UNCHANGED <<debugger_state, phase>>
    <3> USE DEF self, backend
    <3>1. CASE UNCHANGED vars
      BY <3>1 DEF vars
    <3>2. CASE Return
      BY <1>2, <3>2 DEF Return, Complete, StateEmitted, OpenWindow, CloseWindow,
         Execute, Send, SendSetEnvironment, SendInterrupt, SendAbort, SendFails,
         AllSent, AddQuit, RunAgain, AppendCommand, CommandCallback, DebuggerReady,
         Reread
    <3>3. CASE \E k \in Used : UserAppends(k) \/ ListenerAppends(k)
      BY <3>3 DEF UserAppends, ListenerAppends, AppendCommand
    <3>4. CASE QuitDebugger
      BY <3>4 DEF QuitDebugger, AppendCommand
    <3>5. CASE \E s \in State : BackendDone(s)
      BY <3>5 DEF BackendDone
    <3>6. CASE ProgramRuns \/ SharedlibEvent \/ BackendEnds
      BY <3>6 DEF ProgramRuns, SharedlibEvent, BackendEnds
    <3> QED
      BY <3>1, <3>2, <3>3, <3>4, <3>5, <3>6 DEF Next
  <2> QED
    BY <2>1 DEF PhaseInv
<1> QED
  BY <1>1, <1>2

\* The states the backend may be in are never BUSY.
LEMMA EndsOfType ==
    ASSUME BackendInv, NEW k
    PROVE  EndsOf(k, at) \subseteq State
BY DEF BackendInv, EndsOf, State, Busy, Stopped, Started, Loaded, PStopped, Running

\* The backend is in a state, and can only end in states.
LEMMA BackendStep ==
    ASSUME IInv, [Next]_vars
    PROVE  BackendInv'
<1> USE DEF IInv
<1> USE DEF backend
<1>1. CASE UNCHANGED vars
  BY <1>1 DEF vars, BackendInv
<1>2. CASE Send
  BY <1>2, EndsOfType DEF Send, BackendInv
<1>3. CASE SendAbort
  BY <1>3 DEF SendAbort, BackendGone, BackendInv, State, Stopped, Running
<1>4. CASE DebuggerReady
  BY <1>4, CallStack DEF DebuggerReady, Top, Call, Idle, BackendInv
<1>5. CASE SharedlibEvent
  BY <1>5 DEF SharedlibEvent, Idle, BackendInv, State, Stopped, PStopped, Running
<1>6. CASE BackendEnds
  BY <1>6 DEF BackendEnds, BackendGone, BackendInv, State, Stopped, Running
<1>7. CASE \/ Complete \/ EmitStateChange \/ StateEmitted \/ OpenWindow \/ CloseWindow
           \/ Execute \/ SendSetEnvironment \/ SendInterrupt \/ SendFails \/ AllSent
           \/ AddQuit \/ RunAgain \/ CommandCallback \/ Reread
  BY <1>7 DEF Complete, EmitStateChange, StateEmitted, OpenWindow, CloseWindow, Execute,
     SendSetEnvironment, SendInterrupt, SendFails, AllSent, AddQuit, RunAgain,
     AppendCommand, CommandCallback, Reread, BackendInv
<1>8. CASE \/ \E k \in Used : UserAppends(k) \/ ListenerAppends(k)
           \/ QuitDebugger \/ \E s \in State : BackendDone(s)
           \/ ProgramRuns
  BY <1>8 DEF UserAppends, ListenerAppends, AppendCommand, QuitDebugger, BackendDone,
     ProgramRuns, BackendInv
<1> QED
  BY <1>1, <1>2, <1>3, <1>4, <1>5, <1>6, <1>7, <1>8 DEF Next, Return

\* Where dma_debugger_queue_append leaves the calls, with the two ways it
\* returns.
LEMMA AppendCalls ==
    ASSUME IInv, NEW c, NEW k, NEW rest \in Seq(Call), NEW refused \in Seq(Call),
           AppendCommand(c, k, rest, refused)
    PROVE  CallsInv'
<1> USE DEF IInv
<1>1. Completing(GetState) \in Seq(Call) /\ Completing(debugger_state) \in Seq(Call)
  BY Calls DEF GetState, BackendInv, PhaseInv
<1>2. <<Executing>> \in Seq(Call)
  BY Calls
<1>3. CASE stack' = Completing(GetState) \o refused
  BY <1>1, <1>3 DEF CallsInv
<1>4. CASE AppendFirst(c, k, rest)
  <2>1. PICK first \in Seq(Call) : stack' = first \o <<Executing>> \o rest
    <3>1. <<>> \in Seq(Call)
      OBVIOUS
    <3> QED
      BY <1>1, <1>4, <3>1 DEF AppendFirst
  <2>2. first \o <<Executing>> \in Seq(Call)
    BY <1>2
  <2> QED
    BY <2>1, <2>2 DEF CallsInv
<1>5. CASE stack' = <<Executing>> \o rest
  BY <1>2, <1>5 DEF CallsInv
<1> QED
  BY <1>3, <1>4, <1>5 DEF AppendCommand, AppendBefore, AppendLast

\* The calls on the stack stay calls.
LEMMA CallsStep ==
    ASSUME IInv, [Next]_vars
    PROVE  CallsInv'
<1> USE DEF IInv
<1>0. CASE UNCHANGED vars
  BY <1>0 DEF vars, CallsInv
<1>1. CASE Complete
  BY <1>1, CallStack, Calls DEF Complete, Top, Call, CallsInv
<1>2. CASE EmitStateChange
  <2> DEFINE s == Head(stack).state
  <2>1. s \in State /\ debugger_state # s
    BY <1>2, CallStack DEF EmitStateChange, Top, Call
  <2>2. debugger_state' = StateAfter(Via(s)) /\ phase' = Hears(phase, SignalOf(Via(s)))
    BY <1>2 DEF EmitStateChange
  <2>3. IF SignalOf(Via(s)) = "no" THEN stack' = stack
        ELSE stack' = <<Window(SignalOf(Via(s)))>> \o stack
    BY <1>2 DEF EmitStateChange
  <2> HIDE DEF s
  <2>4. SignalOf(Via(s)) \in Signal \cup {"no"}
    BY <2>1, <2>2, OneStep
  <2>5. SignalOf(Via(s)) \in Signal => <<Window(SignalOf(Via(s)))>> \in Seq(Call)
    BY Calls
  <2> QED
    BY <2>3, <2>4, <2>5, SMTT(30) DEF CallsInv
<1>3. CASE StateEmitted \/ CloseWindow \/ AllSent
  BY <1>3, CallStack DEF StateEmitted, CloseWindow, AllSent, Top, CallsInv
<1>4. CASE OpenWindow
  <2>1. stack # <<>> /\ Head(stack).signal \in Signal \cup {"no"}
    BY <1>4, CallStack DEF OpenWindow, Top, Call, FrameType
  <2>2. Head(stack) \in Call /\ Tail(stack) \in Seq(Call)
    BY <2>1, CallStack
  <2>3. Window(Head(stack).signal) \in Call
    BY <2>1, FrameIsCall DEF Window, Function, Busy, Running
  <2>4. <<Window(Head(stack).signal)>> \in Seq(Call)
    BY <2>3
  <2> QED
    BY <1>4, <2>2, <2>4 DEF OpenWindow, CallsInv
<1>5. CASE Execute
  BY <1>5, CallStack, Calls DEF Execute, Top, GetState, BackendInv, CallsInv
<1>6. CASE Send \/ SendInterrupt \/ SendFails
  BY <1>6 DEF Send, SendInterrupt, SendFails, CallsInv
<1>7. CASE SendSetEnvironment
  BY <1>7, Calls DEF SendSetEnvironment, CallsInv, GetState, BackendInv
<1>8. CASE SendAbort
  BY <1>8, Calls DEF SendAbort, CallsInv
<1>9. CASE AddQuit
  BY <1>9, CallStack, AppendCalls DEF AddQuit, Top
<1>10. CASE RunAgain
  BY <1>10, CallStack, AppendCalls DEF RunAgain, Top
<1>11. CASE CommandCallback
  <2>1. Tail(stack) \in Seq(Call) /\ <<Window("callback")>> \in Seq(Call)
    BY <1>11, CallStack, Calls DEF CommandCallback, Top, Signal
  <2>2. stack' = <<Window("callback")>> \o Tail(stack) \/ stack' = Tail(stack)
    BY <1>11 DEF CommandCallback
  <2> QED
    BY <2>1, <2>2 DEF CallsInv
<1>12. CASE DebuggerReady \/ Reread
  <2>1. Head(stack) \in Call /\ Tail(stack) \in Seq(Call)
    BY <1>12, CallStack DEF DebuggerReady, Reread, Top
  <2>2. CASE DebuggerReady
    BY <2>1, <2>2, Calls DEF DebuggerReady, Top, Call, CallsInv
  <2>3. CASE Reread
    BY <2>1, <2>3, Calls DEF Reread, CallsInv, GetState, BackendInv
  <2> QED
    BY <1>12, <2>2, <2>3
<1>13. ASSUME NEW k \in Used, UserAppends(k) PROVE CallsInv'
  <2>1. AppendCommand(New, k, <<>>, <<>>) /\ <<>> \in Seq(Call)
    BY <1>13 DEF UserAppends
  <2> QED
    BY <2>1, AppendCalls
<1>14. ASSUME NEW k \in Used, ListenerAppends(k) PROVE CallsInv'
  <2>1. Head(stack) \in Call /\ Tail(stack) \in Seq(Call)
    BY <1>14, CallStack DEF ListenerAppends, Top
  <2>2. [Head(stack) EXCEPT !.refused = TRUE] \in Call
    BY <2>1 DEF Call, FrameType
  <2>3. <<[Head(stack) EXCEPT !.refused = TRUE]>> \o Tail(stack) \in Seq(Call)
    BY <2>1, <2>2
  <2>4. AppendCommand(New, k, stack,
            <<[Head(stack) EXCEPT !.refused = TRUE]>> \o Tail(stack))
    BY <1>14 DEF ListenerAppends
  <2> QED
    BY <2>3, <2>4, AppendCalls DEF CallsInv
<1>15. CASE QuitDebugger
  <2> DEFINE q == CHOOSE c \in Unused \ {New} : TRUE
  <2>1. Unused \ {New} # {}
    <3>1. SUFFICES ASSUME Unused \ {New} = {} PROVE FALSE
      OBVIOUS
    <3>2. Unused = {} \/ Unused = {New}
      BY <3>1
    <3>3. Cardinality(Unused) \in {0, 1}
      BY <3>2, FS_EmptySet, FS_Singleton
    <3> QED
      BY <1>15, <3>3 DEF QuitDebugger
  <2>2. q \in Command
    BY <2>1 DEF Unused
  <2>3. AppendCommand(New, "interrupt", <<Adding("quit", q)>>, <<Adding("quit", q)>>)
    BY <1>15 DEF QuitDebugger
  <2> HIDE DEF q
  <2>4. <<Adding("quit", q)>> \in Seq(Call)
    BY <2>2, Calls
  <2> QED
    BY <2>3, <2>4, AppendCalls
<1>16. ASSUME NEW s \in State, BackendDone(s) PROVE CallsInv'
  BY <1>16, Calls DEF Signal, BackendDone, CallsInv
<1>17. CASE ProgramRuns
  BY <1>17, Calls DEF ProgramRuns, CallsInv, State, Running, Stopped
<1>18. CASE SharedlibEvent
  BY <1>18, NewIsCommand, Calls DEF SharedlibEvent, Signal, State, PStopped, Stopped, Running,
     CallsInv
<1>19. CASE BackendEnds
  BY <1>19, Calls DEF BackendEnds, CallsInv
<1> QED
  BY <1>0, <1>1, <1>2, <1>3, <1>4, <1>5, <1>6, <1>7, <1>8, <1>9, <1>10, <1>11,
     <1>12, <1>13, <1>14, <1>15, <1>16, <1>17, <1>18, <1>19 DEF Next, Return

-----------------------------------------------------------------------------
\* The debug manager starts stopped, with no call in progress.
LEMMA InitInv == Init => IInv
BY DEF Init, IInv, CallsInv, BackendInv, PhaseInv, PhaseOf, State, Stopped, Running

\* Whatever state the backend reports or jumps to, each signal of the debug
\* manager is one step of the life of a session (dma_queue_emit_debugger_state
\* inserts the ones that the backend skips), for any commands, any kinds of
\* commands in use and any nesting of the calls.
THEOREM SignalsFollowSession == Spec => SignalsInOrder
<1>1. IInv /\ [Next]_vars => IInv'
  BY PhaseStep, BackendStep, CallsStep DEF IInv
<1>2. Init => Session!Init
  BY DEF Init, Session!Init
<1>3. IInv /\ [Next]_vars => [Session!Next]_phase
  BY PhaseStep
<1> QED
  BY <1>1, <1>2, <1>3, InitInv, PTL DEF Spec, SignalsInOrder, Session!Spec

-----------------------------------------------------------------------------
(* The types                                                               *)

QueueType ==
    /\ queue \in Seq(Command)
    /\ last \in Command \cup {none}
    /\ insert_command \in Seq(Command \cup {none})
    /\ queue_state \in State
    /\ stop_on_sharedlib \in BOOLEAN
    /\ kind \in [Command -> Kind]
    /\ answers \in [Command -> Nat]
    /\ crashed \in BOOLEAN

BackendType ==
    /\ working \in BOOLEAN
    /\ job \in Command \cup {none, orphan}
    /\ reply \in BOOLEAN
    /\ runs \in BOOLEAN

\* What a kind announces is a state or nothing.
LEMMA GoingToType ==
    ASSUME NEW k
    PROVE  GoingTo(k) \in State \cup {Busy}
BY DEF GoingTo, State, Busy, Stopped, Started, Loaded, PStopped, Running

\* Cancelling what a state makes impossible leaves commands in the queue, and a
\* state for when they are done.
LEMMA CancelType ==
    ASSUME QueueType, NEW q \in Seq(Command), NEW s \in State
    PROVE  /\ Kept(q, s) \in Seq(Command)
           /\ KeptState(q, s) \in State
<1>1. Kept(q, s) \in Seq(Command)
  BY FilterIsSeq DEF Kept
<1> QED
  BY <1>1 DEF QueueType, KeptState

\* A client's callback is called a number of times.
LEMMA AnswerType ==
    ASSUME QueueType, NEW C
    PROVE  Answer(C) \in [Command -> Nat]
BY DEF QueueType, Answer

\* The command that is sent, and what is left.
LEMMA HeadType ==
    ASSUME QueueType, queue # <<>>
    PROVE  Head(queue) \in Command /\ Tail(queue) \in Seq(Command)
BY HeadTailProperties DEF QueueType

\* The link that a new emission holds, and what is left when it is over.
LEMMA WindowType ==
    ASSUME QueueType
    PROVE  /\ <<HeadLink>> \o insert_command \in Seq(Command \cup {none})
           /\ insert_command # <<>> => Tail(insert_command) \in Seq(Command \cup {none})
<1>1. HeadLink \in Command \cup {none}
  BY HeadType DEF HeadLink
<1>2. <<HeadLink>> \in Seq(Command \cup {none})
  BY <1>1
<1> QED
  BY <1>2, HeadTailProperties DEF QueueType

-----------------------------------------------------------------------------
(* The windows open on the stack                                           *)

WindowCalls == {f \in Call : f.fn = "window"}
Windows(s) == Len(Filter(s, WindowCalls))
IsWindow(f) == IF f.fn = "window" THEN 1 ELSE 0

\* The emissions in progress in two parts of the stack.
LEMMA WindowsConcat ==
    ASSUME NEW s \in Seq(Call), NEW t \in Seq(Call)
    PROVE  Windows(s \o t) = Windows(s) + Windows(t)
<1>1. Filter(s, WindowCalls) \in Seq(Call) /\ Filter(t, WindowCalls) \in Seq(Call)
  BY FilterIsSeq
<1>2. Filter(s \o t, WindowCalls) = Filter(s, WindowCalls) \o Filter(t, WindowCalls)
  BY FilterConcat
<1> QED
  BY <1>1, <1>2, ConcatProperties DEF Windows

\* Their number.
LEMMA WindowsType ==
    ASSUME NEW s \in Seq(Call)
    PROVE  Windows(s) \in Nat
BY FilterIsSeq, LenProperties DEF Windows

\* The number in one call.
LEMMA WindowsOfOne ==
    ASSUME NEW f \in Call
    PROVE  Windows(<<f>>) = IsWindow(f)
<1>1. <<f>> = Append(<<>>, f) /\ <<>> \in Seq(Call)
  OBVIOUS
<1>2. Filter(Append(<<>>, f), WindowCalls) =
          IF f \in WindowCalls THEN Append(Filter(<<>>, WindowCalls), f)
          ELSE Filter(<<>>, WindowCalls)
  BY <1>1, FilterAppend
<1>3. Filter(<<>>, WindowCalls) = <<>>
  BY FilterEmpty
<1> QED
  BY <1>1, <1>2, <1>3 DEF Windows, WindowCalls, IsWindow

\* A stack with no emission.
LEMMA WindowsNone ==
    ASSUME NEW s \in Seq(Call), \A i \in 1 .. Len(s) : s[i].fn # "window"
    PROVE  Windows(s) = 0
<1>1. Range(Filter(s, WindowCalls)) = Range(s) \cap WindowCalls
  BY FilterRange
<1>2. Range(s) \cap WindowCalls = {}
  BY DEF Range, WindowCalls
<1>3. Filter(s, WindowCalls) \in Seq(Call)
  BY FilterIsSeq
<1>4. Filter(s, WindowCalls) = <<>>
  BY <1>1, <1>2, <1>3 DEF Range
<1> QED
  BY <1>4 DEF Windows

\* The empty stack has none.
LEMMA WindowsEmpty == Windows(<<>>) = 0
BY FilterEmpty DEF Windows

\* The innermost call counts for one if it is an emission.
LEMMA WindowsHead ==
    ASSUME NEW s \in Seq(Call), s # <<>>
    PROVE  Windows(s) = IsWindow(Head(s)) + Windows(Tail(s))
<1>1. Head(s) \in Call /\ Tail(s) \in Seq(Call)
  BY HeadTailProperties
<1>2. <<Head(s)>> \in Seq(Call)
  BY <1>1
<1>3. s = <<Head(s)>> \o Tail(s)
  BY <1>1, <1>2, SeqEqual
<1>4. Windows(<<Head(s)>> \o Tail(s)) = Windows(<<Head(s)>>) + Windows(Tail(s))
  BY <1>1, <1>2, WindowsConcat
<1> QED
  BY <1>1, <1>3, <1>4, WindowsOfOne

-----------------------------------------------------------------------------
(* What a step leaves of the stack: n calls on top of the ones that were    *)
(* below the first m.                                                       *)

Below(n, m) ==
    /\ Len(stack') = Len(stack) + n - m
    /\ \A j \in DOMAIN stack : j > m =>
           j + n - m \in DOMAIN stack' /\ stack'[j + n - m] = stack[j]
    /\ \A i \in DOMAIN stack' : i > n =>
           i + m - n \in DOMAIN stack /\ i + m - n > m /\ stack'[i] = stack[i + m - n]

\* The stack once the innermost call is replaced by the calls p.
LEMMA OnTail ==
    ASSUME CallsInv, stack # <<>>, NEW p \in Seq(Call), stack' = p \o Tail(stack)
    PROVE  /\ Below(Len(p), 1)
           /\ \A i \in 1 .. Len(p) : i \in DOMAIN stack' /\ stack'[i] = p[i]
           /\ Windows(stack') = Windows(p) + Windows(stack) - IsWindow(Head(stack))
<1>1. Tail(stack) \in Seq(Call) /\ Head(stack) \in Call
  BY CallStack
<1>2. Windows(stack') = Windows(p) + Windows(Tail(stack))
  BY <1>1, WindowsConcat
<1>3. Windows(stack) = IsWindow(Head(stack)) + Windows(Tail(stack))
  BY WindowsHead DEF CallsInv
<1>4. Windows(Tail(stack)) \in Nat /\ Windows(p) \in Nat
  BY <1>1, WindowsType
<1>5. /\ Len(Tail(stack)) = Len(stack) - 1 /\ Len(stack) \in Nat /\ Len(p) \in Nat
      /\ \A i \in 1 .. Len(Tail(stack)) : Tail(stack)[i] = stack[i + 1]
      /\ DOMAIN stack = 1 .. Len(stack)
  BY HeadTailProperties, LenProperties DEF CallsInv
<1>6. /\ stack' \in Seq(Call) /\ Len(stack') = Len(p) + Len(Tail(stack))
      /\ \A i \in 1 .. Len(p) + Len(Tail(stack)) : stack'[i] =
             IF i <= Len(p) THEN p[i] ELSE Tail(stack)[i - Len(p)]
  BY <1>1, ConcatProperties
<1>7. DOMAIN stack' = 1 .. Len(stack')
  BY <1>6, LenProperties
<1>8. Below(Len(p), 1)
  <2>1. Len(stack') = Len(stack) + Len(p) - 1
    BY <1>5, <1>6
  <2>2. ASSUME NEW j \in DOMAIN stack, j > 1
        PROVE  /\ j + Len(p) - 1 \in DOMAIN stack'
               /\ stack'[j + Len(p) - 1] = stack[j]
    BY SMTT(30), <1>5, <1>6, <1>7, <2>2
  <2>3. ASSUME NEW i \in DOMAIN stack', i > Len(p)
        PROVE  /\ i + 1 - Len(p) \in DOMAIN stack /\ i + 1 - Len(p) > 1
               /\ stack'[i] = stack[i + 1 - Len(p)]
    BY <1>5, <1>6, <1>7, <2>3
  <2> QED
    BY <2>1, <2>2, <2>3 DEF Below
<1>9. \A i \in 1 .. Len(p) : i \in DOMAIN stack' /\ stack'[i] = p[i]
  BY <1>5, <1>6, <1>7
<1>10. Windows(stack') = Windows(p) + Windows(stack) - IsWindow(Head(stack))
  BY <1>2, <1>3, <1>4 DEF IsWindow
<1> QED
  BY <1>8, <1>9, <1>10

\* The stack once the calls p are pushed.
LEMMA OnStack ==
    ASSUME CallsInv, NEW p \in Seq(Call), stack' = p \o stack
    PROVE  /\ Below(Len(p), 0)
           /\ \A i \in 1 .. Len(p) : i \in DOMAIN stack' /\ stack'[i] = p[i]
           /\ Windows(stack') = Windows(p) + Windows(stack)
<1>1. stack \in Seq(Call)
  BY DEF CallsInv
<1>2. Windows(stack') = Windows(p) + Windows(stack)
  BY <1>1, WindowsConcat
<1>5. /\ Len(stack) \in Nat /\ Len(p) \in Nat
      /\ DOMAIN stack = 1 .. Len(stack)
  BY LenProperties DEF CallsInv
<1>6. /\ stack' \in Seq(Call) /\ Len(stack') = Len(p) + Len(stack)
      /\ \A i \in 1 .. Len(p) + Len(stack) : stack'[i] =
             IF i <= Len(p) THEN p[i] ELSE stack[i - Len(p)]
  BY <1>1, ConcatProperties
<1>7. DOMAIN stack' = 1 .. Len(stack')
  BY <1>6, LenProperties
<1>8. Below(Len(p), 0)
  BY <1>5, <1>6, <1>7 DEF Below
<1>9. \A i \in 1 .. Len(p) : i \in DOMAIN stack' /\ stack'[i] = p[i]
  BY <1>5, <1>6, <1>7
<1> QED
  BY <1>2, <1>8, <1>9

\* The calls that the operators of the module make, and what is in them.
LEMMA Frames ==
    /\ \A s \in State : Emitting(s).fn = "emit" /\ Emitting(s).state = s
    /\ \A s \in State : Ready(s).fn = "ready" /\ Ready(s).state = s
    /\ Executing.fn = "execute" /\ Sending.fn = "send" /\ Replying.fn = "callback"
    /\ \A x : Opening(x).fn = "open" /\ Opening(x).signal = x
    /\ \A x : Window(x).fn = "window" /\ Window(x).signal = x /\ ~Window(x).refused
    /\ \A fn, c : Adding(fn, c).fn = fn /\ Adding(fn, c).cmd = c
    /\ Completing(Busy) = <<>>
    /\ \A s \in State : /\ Len(Completing(s)) = 1
                        /\ Completing(s)[1].fn = "complete" /\ Completing(s)[1].state = s
    /\ Len(Stopping) = 2
    /\ Stopping[1].fn = "emit" /\ Stopping[1].state = Stopped /\ Stopping[2].fn = "reread"
BY DEF Emitting, Ready, Executing, Sending, Replying, Opening, Window, Adding, Completing,
   Stopping, Frame, State, Busy, Stopped, Running

\* n calls are now on top of what was below the first m.
Puts(n, m) ==
    /\ stack' \in Seq(Call)
    /\ n \in Nat /\ DOMAIN stack = 1 .. Len(stack) /\ DOMAIN stack' = 1 .. Len(stack')
    /\ Len(stack) \in Nat /\ Len(stack) >= m
    /\ Below(n, m)
    /\ \A i \in 1 .. n : i \in DOMAIN stack'

\* The same, as Puts says it.
LEMMA PutOnTail ==
    ASSUME CallsInv, stack # <<>>, NEW p \in Seq(Call), stack' = p \o Tail(stack)
    PROVE  /\ Puts(Len(p), 1)
           /\ \A i \in 1 .. Len(p) : stack'[i] = p[i]
           /\ Windows(stack') = Windows(p) + Windows(stack) - IsWindow(stack[1])
<1>1. /\ Below(Len(p), 1)
      /\ \A i \in 1 .. Len(p) : i \in DOMAIN stack' /\ stack'[i] = p[i]
      /\ Windows(stack') = Windows(p) + Windows(stack) - IsWindow(Head(stack))
  BY OnTail
<1>2. Head(stack) = stack[1] /\ Len(stack) >= 1 /\ Len(stack) \in Nat
  BY DEF CallsInv
<1>3. stack' \in Seq(Call)
  BY CallStack, ConcatProperties
<1>4. DOMAIN stack = 1 .. Len(stack) /\ DOMAIN stack' = 1 .. Len(stack') /\ Len(p) \in Nat
  BY <1>3, LenProperties DEF CallsInv
<1> QED
  BY <1>1, <1>2, <1>3, <1>4 DEF Puts

\* The same for a push.
LEMMA PutOnStack ==
    ASSUME CallsInv, NEW p \in Seq(Call), stack' = p \o stack
    PROVE  /\ Puts(Len(p), 0)
           /\ \A i \in 1 .. Len(p) : stack'[i] = p[i]
           /\ Windows(stack') = Windows(p) + Windows(stack)
<1>1. /\ Below(Len(p), 0)
      /\ \A i \in 1 .. Len(p) : i \in DOMAIN stack' /\ stack'[i] = p[i]
      /\ Windows(stack') = Windows(p) + Windows(stack)
  BY OnStack
<1>3. stack' \in Seq(Call)
  BY ConcatProperties DEF CallsInv
<1>4. DOMAIN stack = 1 .. Len(stack) /\ DOMAIN stack' = 1 .. Len(stack') /\ Len(p) \in Nat
      /\ Len(stack) \in Nat
  BY <1>3, LenProperties DEF CallsInv
<1> QED
  BY <1>1, <1>3, <1>4 DEF Puts

\* The innermost call is the first of the stack.
LEMMA TopIs ==
    ASSUME CallsInv, NEW fn, Top(fn)
    PROVE  /\ stack # <<>> /\ Head(stack) = stack[1] /\ stack[1].fn = fn
           /\ 1 \in DOMAIN stack /\ stack[1] \in Call
BY DEF CallsInv, Top

\* The state a backend reports is BUSY while it works (dma_debugger_queue_get_state).
LEMMA StateNow ==
    ASSUME IInv
    PROVE  /\ GetState \in State \cup {Busy}
           /\ GetState = IF working THEN Busy ELSE at
           /\ at \in State /\ debugger_state \in State
BY DEF IInv, BackendInv, PhaseInv, GetState

\* n calls, none of them a window, on what was below the top of the stack.
LEMMA PutOnTailPlain ==
    ASSUME CallsInv, stack # <<>>, NEW p \in Seq(Call), stack' = p \o Tail(stack),
           \A i \in 1 .. Len(p) : p[i].fn # "window", stack[1].fn # "window"
    PROVE  /\ Puts(Len(p), 1)
           /\ \A i \in 1 .. Len(p) : stack'[i] = p[i]
           /\ Windows(stack') = Windows(stack)
<1>1. /\ Puts(Len(p), 1)
      /\ \A i \in 1 .. Len(p) : stack'[i] = p[i]
      /\ Windows(stack') = Windows(p) + Windows(stack) - IsWindow(stack[1])
  BY PutOnTail
<1>2. Windows(p) = 0 /\ Windows(stack) \in Nat
  BY WindowsNone, WindowsType DEF CallsInv
<1> QED
  BY <1>1, <1>2 DEF IsWindow

\* The same for a push.
LEMMA PutOnStackPlain ==
    ASSUME CallsInv, NEW p \in Seq(Call), stack' = p \o stack,
           \A i \in 1 .. Len(p) : p[i].fn # "window"
    PROVE  /\ Puts(Len(p), 0)
           /\ \A i \in 1 .. Len(p) : stack'[i] = p[i]
           /\ Windows(stack') = Windows(stack)
<1>1. /\ Puts(Len(p), 0)
      /\ \A i \in 1 .. Len(p) : stack'[i] = p[i]
      /\ Windows(stack') = Windows(p) + Windows(stack)
  BY PutOnStack
<1>2. Windows(p) = 0 /\ Windows(stack) \in Nat
  BY WindowsNone, WindowsType DEF CallsInv
<1> QED
  BY <1>1, <1>2

\* What dma_debugger_queue_complete calls.
LEMMA CompleteCalls ==
    ASSUME IInv, Complete
    PROVE  /\ Puts(2, 1) /\ stack[1].fn = "complete" /\ stack[1].state \in State
           /\ stack'[1].fn = "emit" /\ stack'[1].state = stack[1].state
           /\ stack'[2].fn = "execute"
           /\ Windows(stack') = Windows(stack)
<1>1. CallsInv /\ stack # <<>> /\ Head(stack) = stack[1] /\ stack[1].fn = "complete"
      /\ stack[1].state \in State
  BY TopIs DEF Complete, IInv, Call
<1> DEFINE p == <<Emitting(stack[1].state), Executing>>
<1>2. p \in Seq(Call) /\ stack' = p \o Tail(stack)
  BY <1>1, Calls DEF Complete
<1>3. Len(p) = 2 /\ p[1].fn = "emit" /\ p[1].state = stack[1].state /\ p[2].fn = "execute"
  BY <1>1, Frames
<1> HIDE DEF p
<1>4. /\ Puts(Len(p), 1) /\ (\A i \in 1 .. Len(p) : stack'[i] = p[i])
      /\ Windows(stack') = Windows(stack)
  <2>1. \A i \in 1 .. Len(p) : p[i].fn # "window"
    BY <1>3
  <2> QED
    BY <1>1, <1>2, <1>3, <2>1, PutOnTailPlain
<1> QED
  BY <1>1, <1>3, <1>4

\* What dma_queue_emit_debugger_state calls.
LEMMA EmitCalls ==
    ASSUME IInv, EmitStateChange
    PROVE  LET s == stack[1].state
               x == SignalOf(Via(s))
           IN  /\ stack[1].fn = "emit" /\ s \in State /\ s # debugger_state
               /\ \/ x = "no" /\ stack' = stack /\ insert_command' = insert_command
                  \/ /\ x # "no" /\ Puts(1, 0)
                     /\ insert_command' = <<HeadLink>> \o insert_command
                     /\ stack'[1].fn = "window" /\ stack'[1].signal = x /\ ~stack'[1].refused
                     /\ Windows(stack') = Windows(stack) + 1
<1>1. CallsInv /\ stack # <<>> /\ Head(stack) = stack[1] /\ stack[1].fn = "emit"
      /\ stack[1].state \in State
  BY TopIs DEF EmitStateChange, IInv, Call
<1> DEFINE x == SignalOf(Via(stack[1].state))
           p == <<Window(x)>>
<1>2. stack[1].state # debugger_state
  BY <1>1 DEF EmitStateChange
<1>3. \/ x = "no" /\ stack' = stack /\ insert_command' = insert_command
      \/ /\ x # "no" /\ stack' = p \o stack
         /\ insert_command' = <<HeadLink>> \o insert_command
  BY <1>1 DEF EmitStateChange
<1>4. x \in Signal \cup {"no"}
  BY <1>1, <1>2, OneStep DEF EmitStateChange, IInv
<1>5. CASE x # "no" /\ stack' = p \o stack
  <2>1. Window(x) \in Call
    BY <1>4, <1>5, Calls
  <2>2. p \in Seq(Call) /\ Len(p) = 1 /\ p[1] = Window(x)
    BY <2>1
  <2>3. Windows(p) = 1
    BY <2>1, WindowsOfOne, Frames DEF IsWindow
  <2>4. p[1].fn = "window" /\ p[1].signal = x /\ ~p[1].refused
    BY <2>2, Frames
  <2> HIDE DEF p, x
  <2>5. /\ Puts(Len(p), 0)
        /\ \A i \in 1 .. Len(p) : stack'[i] = p[i]
        /\ Windows(stack') = Windows(p) + Windows(stack)
    BY <1>1, <1>5, <2>2, PutOnStack
  <2>6. Windows(stack) \in Nat
    BY <1>1, WindowsType DEF CallsInv
  <2>7. Puts(1, 0) /\ stack'[1] = p[1] /\ Windows(stack') = Windows(stack) + 1
    BY <2>2, <2>3, <2>5, <2>6
  <2> QED
    BY <1>1, <1>2, <1>3, <1>5, <2>4, <2>7 DEF x
<1> QED
  BY <1>1, <1>2, <1>3, <1>5

\* A call that returns.
LEMMA PopCalls ==
    ASSUME CallsInv, stack # <<>>, stack' = Tail(stack)
    PROVE  /\ Puts(0, 1)
           /\ Windows(stack') = Windows(stack) - IsWindow(stack[1])
<1>1. <<>> \in Seq(Call) /\ Tail(stack) \in Seq(Call) /\ Len(<<>>) = 0
  BY CallStack
<1>2. stack' = <<>> \o Tail(stack)
  BY <1>1, ConcatEmptySeq
<1>3. Windows(<<>>) = 0 /\ Windows(stack) \in Nat
  BY WindowsEmpty, WindowsType DEF CallsInv
<1>4. /\ Puts(Len(<<>>), 1)
      /\ Windows(stack') = Windows(<<>>) + Windows(stack) - IsWindow(stack[1])
  BY <1>1, <1>2, PutOnTail
<1> QED
  BY <1>1, <1>3, <1>4 DEF IsWindow

\* The listeners of another signal are called.
LEMMA OpenCalls ==
    ASSUME IInv, OpenWindow
    PROVE  /\ stack[1].fn = "open" /\ Puts(1, 1)
           /\ stack'[1].fn = "window" /\ stack'[1].signal = stack[1].signal
           /\ ~stack'[1].refused
           /\ Windows(stack') = Windows(stack) + 1
<1>1. /\ CallsInv /\ stack # <<>> /\ Head(stack) = stack[1] /\ stack[1].fn = "open"
      /\ stack[1].signal \in Signal \cup {"no"}
  BY TopIs DEF OpenWindow, IInv, Call, FrameType
<1> DEFINE p == <<Window(stack[1].signal)>>
<1>2. Window(stack[1].signal) \in Call
  BY <1>1, FrameIsCall DEF Window, Function, Busy, Running
<1>3. p \in Seq(Call) /\ Len(p) = 1 /\ p[1] = Window(stack[1].signal)
  BY <1>2
<1>4. p[1].fn = "window" /\ p[1].signal = stack[1].signal /\ ~p[1].refused
  BY <1>3, Frames
<1>5. Windows(p) = 1
  BY <1>2, WindowsOfOne, Frames DEF IsWindow
<1>6. stack' = p \o Tail(stack)
  BY <1>1 DEF OpenWindow
<1> HIDE DEF p
<1>7. /\ Puts(Len(p), 1) /\ (\A i \in 1 .. Len(p) : stack'[i] = p[i])
      /\ Windows(stack') = Windows(p) + Windows(stack) - IsWindow(stack[1])
  BY <1>1, <1>3, <1>6, PutOnTail
<1>8. Windows(stack) \in Nat
  BY <1>1, WindowsType DEF CallsInv
<1> QED
  BY <1>1, <1>3, <1>4, <1>5, <1>7, <1>8 DEF IsWindow

\* What dma_debugger_queue_command_callback calls.
LEMMA CallbackCalls ==
    ASSUME IInv, CommandCallback
    PROVE  /\ stack[1].fn = "callback"
           /\ \/ /\ last # none /\ queue_state # Stopped
                 /\ Puts(1, 1) /\ stack'[1].fn = "window" /\ stack'[1].signal = "callback"
                 /\ ~stack'[1].refused
                 /\ Windows(stack') = Windows(stack) + 1
                 /\ insert_command' = <<HeadLink>> \o insert_command
              \/ /\ ~(last # none /\ queue_state # Stopped)
                 /\ Puts(0, 1)
                 /\ Windows(stack') = Windows(stack)
                 /\ insert_command' = insert_command
<1>1. CallsInv /\ stack # <<>> /\ Head(stack) = stack[1] /\ stack[1].fn = "callback"
  BY TopIs DEF CommandCallback, IInv
<1>2. Windows(stack) \in Nat
  BY <1>1, WindowsType DEF CallsInv
<1>3. CASE last # none /\ queue_state # Stopped
  <2> DEFINE p == <<Window("callback")>>
  <2>1. Window("callback") \in Call
    BY Calls DEF Signal
  <2>2. p \in Seq(Call) /\ Len(p) = 1 /\ p[1] = Window("callback")
    BY <2>1
  <2>3. p[1].fn = "window" /\ p[1].signal = "callback" /\ ~p[1].refused
    BY <2>2, Frames
  <2>4. Windows(p) = 1
    BY <2>1, WindowsOfOne, Frames DEF IsWindow
  <2>5. stack' = p \o Tail(stack) /\ insert_command' = <<HeadLink>> \o insert_command
    BY <1>3 DEF CommandCallback
  <2> HIDE DEF p
  <2>6. /\ Puts(Len(p), 1) /\ (\A i \in 1 .. Len(p) : stack'[i] = p[i])
        /\ Windows(stack') = Windows(p) + Windows(stack) - IsWindow(stack[1])
    BY <1>1, <2>2, <2>5, PutOnTail
  <2>7. Puts(1, 1) /\ stack'[1] = p[1] /\ Windows(stack') = Windows(stack) + 1
    BY <1>1, <1>2, <2>2, <2>4, <2>6 DEF IsWindow
  <2> QED
    BY <1>1, <1>3, <2>3, <2>5, <2>7
<1>4. CASE ~(last # none /\ queue_state # Stopped)
  BY <1>1, <1>2, <1>4, PopCalls DEF CommandCallback, IsWindow
<1> QED
  BY <1>3, <1>4

\* dma_debugger_queue_complete, on the calls below the top or on top of them.
LEMMA CompletingOnTail ==
    ASSUME CallsInv, stack # <<>>, stack[1].fn # "window", NEW s \in State \cup {Busy},
           stack' = Completing(s) \o Tail(stack)
    PROVE  /\ Windows(stack') = Windows(stack)
           /\ \/ s = Busy /\ Puts(0, 1)
              \/ /\ s # Busy /\ s \in State /\ Puts(1, 1)
                 /\ stack'[1].fn = "complete" /\ stack'[1].state = s
<1> DEFINE p == Completing(s)
<1>1. p \in Seq(Call)
  BY Calls
<1>2. s \in State /\ s # Busy => Len(p) = 1 /\ p[1].fn = "complete" /\ p[1].state = s
  BY Frames
<1>3. s = Busy => Len(p) = 0
  BY Frames
<1>4. \A i \in 1 .. Len(p) : p[i].fn # "window"
  BY <1>2, <1>3
<1>5. stack' = p \o Tail(stack)
  OBVIOUS
<1> HIDE DEF p
<1>6. /\ Puts(Len(p), 1) /\ (\A i \in 1 .. Len(p) : stack'[i] = p[i])
      /\ Windows(stack') = Windows(stack)
  BY <1>1, <1>4, <1>5, PutOnTailPlain
<1>7. CASE s = Busy
  <2>1. Puts(0, 1)
    BY ONLY <1>3, <1>6, <1>7
  <2> QED
    BY <1>6, <1>7, <2>1
<1>8. CASE s # Busy
  <2>1. s \in State /\ Len(p) = 1 /\ p[1].fn = "complete" /\ p[1].state = s
    BY <1>2, <1>8
  <2>2. Puts(1, 1) /\ stack'[1] = p[1]
    BY ONLY <2>1, <1>6
  <2> QED
    BY <1>6, <1>8, <2>1, <2>2
<1> QED
  BY <1>7, <1>8

\* The same for a call from the innermost one.
LEMMA CompletingOnStack ==
    ASSUME CallsInv, NEW s \in State \cup {Busy}, stack' = Completing(s) \o stack
    PROVE  /\ Windows(stack') = Windows(stack)
           /\ \/ s = Busy /\ Puts(0, 0)
              \/ /\ s # Busy /\ s \in State /\ Puts(1, 0)
                 /\ stack'[1].fn = "complete" /\ stack'[1].state = s
<1> DEFINE p == Completing(s)
<1>1. p \in Seq(Call)
  BY Calls
<1>2. s \in State /\ s # Busy => Len(p) = 1 /\ p[1].fn = "complete" /\ p[1].state = s
  BY Frames
<1>3. s = Busy => Len(p) = 0
  BY Frames
<1>4. \A i \in 1 .. Len(p) : p[i].fn # "window"
  BY <1>2, <1>3
<1>5. stack' = p \o stack
  OBVIOUS
<1> HIDE DEF p
<1>6. /\ Puts(Len(p), 0) /\ (\A i \in 1 .. Len(p) : stack'[i] = p[i])
      /\ Windows(stack') = Windows(stack)
  BY <1>1, <1>4, <1>5, PutOnStackPlain
<1>7. CASE s = Busy
  <2>1. Puts(0, 0)
    BY ONLY <1>3, <1>6, <1>7
  <2> QED
    BY <1>6, <1>7, <2>1
<1>8. CASE s # Busy
  <2>1. s \in State /\ Len(p) = 1 /\ p[1].fn = "complete" /\ p[1].state = s
    BY <1>2, <1>8
  <2>2. Puts(1, 0) /\ stack'[1] = p[1]
    BY ONLY <2>1, <1>6
  <2> QED
    BY <1>6, <1>8, <2>1, <2>2
<1> QED
  BY <1>7, <1>8

\* What dma_debugger_queue_execute calls.
LEMMA ExecuteCalls ==
    ASSUME IInv, Execute
    PROVE  /\ stack[1].fn = "execute" /\ Windows(stack') = Windows(stack)
           /\ \/ /\ last = none \/ working
                 /\ Puts(1, 1) /\ stack'[1].fn = "send"
              \/ /\ last # none /\ ~working
                 /\ Puts(2, 1) /\ stack'[1].fn = "complete" /\ stack'[1].state = at
                 /\ stack'[2].fn = "send"
<1>1. CallsInv /\ stack # <<>> /\ Head(stack) = stack[1] /\ stack[1].fn = "execute"
  BY TopIs DEF Execute, IInv
<1>2. /\ GetState = (IF working THEN Busy ELSE at) /\ at \in State
      /\ Completing(Busy) = <<>> /\ Busy \notin State
  BY StateNow, Frames DEF State, Busy, Stopped, Running
<1>3. Tail(stack) \in Seq(Call) /\ <<Sending>> \in Seq(Call)
  BY <1>1, CallStack, Calls
<1>4. CASE last = none \/ working
  <2> DEFINE p == <<Sending>>
  <2>1. p \in Seq(Call) /\ Len(p) = 1 /\ p[1].fn = "send"
    BY <1>3, Frames
  <2>2. stack' = p \o Tail(stack)
    BY <1>2, <1>3, <1>4, ConcatEmptySeq DEF Execute
  <2> HIDE DEF p
  <2>3. \A i \in 1 .. Len(p) : p[i].fn # "window"
    BY <2>1
  <2>4. /\ Puts(Len(p), 1) /\ (\A i \in 1 .. Len(p) : stack'[i] = p[i])
        /\ Windows(stack') = Windows(stack)
    BY <1>1, <2>1, <2>2, <2>3, PutOnTailPlain
  <2> QED
    BY <1>1, <1>4, <2>1, <2>4
<1>5. CASE last # none /\ ~working
  <2> DEFINE p == Completing(at) \o <<Sending>>
  <2>1. Completing(at) \in Seq(Call) /\ Len(Completing(at)) = 1
        /\ Completing(at)[1].fn = "complete" /\ Completing(at)[1].state = at
    BY <1>2, Calls, Frames
  <2>2. p \in Seq(Call) /\ Len(p) = 2 /\ p[1] = Completing(at)[1] /\ p[2] = Sending
    BY <1>3, <2>1, ConcatProperties
  <2>3. p[1].fn = "complete" /\ p[1].state = at /\ p[2].fn = "send"
    BY <2>1, <2>2, Frames
  <2>4. stack' = p \o Tail(stack)
    BY <1>2, <1>5 DEF Execute
  <2> HIDE DEF p
  <2>5. \A i \in 1 .. Len(p) : p[i].fn # "window"
    BY <2>2, <2>3
  <2>6. /\ Puts(Len(p), 1) /\ (\A i \in 1 .. Len(p) : stack'[i] = p[i])
        /\ Windows(stack') = Windows(stack)
    BY <1>1, <2>2, <2>4, <2>5, PutOnTailPlain
  <2> QED
    BY <1>1, <1>5, <2>2, <2>3, <2>6
<1> QED
  BY <1>4, <1>5

\* What the call that sets the environment calls.
LEMMA SetEnvironmentCalls ==
    ASSUME IInv, SendSetEnvironment
    PROVE  /\ stack[1].fn = "send" /\ Windows(stack') = Windows(stack)
           /\ \/ working /\ Puts(0, 0)
              \/ /\ ~working /\ Puts(1, 0)
                 /\ stack'[1].fn = "complete" /\ stack'[1].state = at
<1>1. CallsInv /\ stack[1].fn = "send"
  BY TopIs DEF SendSetEnvironment, Sends, IInv
<1>2. /\ GetState = (IF working THEN Busy ELSE at) /\ at \in State
      /\ GetState \in State \cup {Busy} /\ Busy \notin State
  BY StateNow DEF State, Busy, Stopped, Running
<1>3. stack' = Completing(GetState) \o stack
  BY DEF SendSetEnvironment
<1> QED
  BY <1>1, <1>2, <1>3, CompletingOnStack

\* What the call that aborts the backend calls.
LEMMA AbortCalls ==
    ASSUME IInv, SendAbort
    PROVE  /\ stack[1].fn = "send" /\ Windows(stack') = Windows(stack)
           /\ Puts(2, 0) /\ stack'[1].fn = "emit" /\ stack'[1].state = Stopped
           /\ stack'[2].fn = "reread"
<1>1. CallsInv /\ stack[1].fn = "send"
  BY TopIs DEF SendAbort, Sends, IInv
<1> DEFINE p == Stopping
<1>2. p \in Seq(Call) /\ Len(p) = 2 /\ p[1].fn = "emit" /\ p[1].state = Stopped
      /\ p[2].fn = "reread"
  BY Calls, Frames
<1>3. stack' = p \o stack
  BY DEF SendAbort
<1> HIDE DEF p
<1>4. \A i \in 1 .. Len(p) : p[i].fn # "window"
  BY <1>2
<1>5. /\ Puts(Len(p), 0) /\ (\A i \in 1 .. Len(p) : stack'[i] = p[i])
      /\ Windows(stack') = Windows(stack)
  BY <1>1, <1>2, <1>3, <1>4, PutOnStackPlain
<1> QED
  BY <1>1, <1>2, <1>5

\* What on_dma_debugger_ready calls.
LEMMA ReadyCalls ==
    ASSUME IInv, DebuggerReady
    PROVE  /\ stack[1].fn = "ready" /\ Windows(stack') = Windows(stack)
           /\ at' = stack[1].state /\ at' \in State
           /\ Puts(1, 1) /\ stack'[1].fn = "complete" /\ stack'[1].state = at'
<1>1. /\ CallsInv /\ stack # <<>> /\ stack[1].fn = "ready" /\ Head(stack) = stack[1]
      /\ stack[1].state \in State /\ Busy \notin State
  BY TopIs DEF DebuggerReady, IInv, Call, State, Busy, Stopped, Running
<1>2. stack' = Completing(stack[1].state) \o Tail(stack) /\ at' = stack[1].state
  BY <1>1 DEF DebuggerReady, Idle
<1> QED
  BY <1>1, <1>2, CompletingOnTail

\* What the last lines of on_dma_debugger_stopped call.
LEMMA RereadCalls ==
    ASSUME IInv, Reread
    PROVE  /\ stack[1].fn = "reread" /\ Windows(stack') = Windows(stack)
           /\ \/ working /\ Puts(0, 1)
              \/ /\ ~working /\ Puts(1, 1)
                 /\ stack'[1].fn = "complete" /\ stack'[1].state = at
<1>1. /\ CallsInv /\ stack # <<>> /\ stack[1].fn = "reread"
  BY TopIs DEF Reread, IInv
<1>2. /\ GetState = (IF working THEN Busy ELSE at) /\ at \in State
      /\ GetState \in State \cup {Busy} /\ Busy \notin State
  BY StateNow DEF State, Busy, Stopped, Running
<1>3. stack' = Completing(GetState) \o Tail(stack)
  BY DEF Reread
<1> QED
  BY <1>1, <1>2, <1>3, CompletingOnTail

\* n calls are now on top of rest.
On(n, rest) ==
    /\ stack' \in Seq(Call) /\ Len(stack') = n + Len(rest)
    /\ Len(rest) \in Nat /\ n \in Nat
    /\ DOMAIN stack' = 1 .. Len(stack') /\ DOMAIN rest = 1 .. Len(rest)
    /\ \A i \in 1 .. n : i \in DOMAIN stack'
    /\ \A j \in 1 .. Len(rest) : n + j \in DOMAIN stack' /\ stack'[n + j] = rest[j]
    /\ Windows(stack') = Windows(rest)

\* The stack once the calls p are pushed on the calls rest.
LEMMA OnRest ==
    ASSUME NEW p \in Seq(Call), NEW rest \in Seq(Call), stack' = p \o rest,
           \A i \in 1 .. Len(p) : p[i].fn # "window"
    PROVE  On(Len(p), rest) /\ \A i \in 1 .. Len(p) : stack'[i] = p[i]
<1>1. Windows(stack') = Windows(p) + Windows(rest)
  BY WindowsConcat
<1>2. Windows(p) = 0 /\ Windows(rest) \in Nat
  BY WindowsNone, WindowsType
<1>3. /\ stack' \in Seq(Call) /\ Len(stack') = Len(p) + Len(rest)
      /\ \A i \in 1 .. Len(p) + Len(rest) : stack'[i] =
             IF i <= Len(p) THEN p[i] ELSE rest[i - Len(p)]
  BY ConcatProperties
<1>4. /\ Len(p) \in Nat /\ Len(rest) \in Nat /\ DOMAIN rest = 1 .. Len(rest)
      /\ DOMAIN stack' = 1 .. Len(stack')
  BY <1>3, LenProperties
<1>5. \A i \in 1 .. Len(p) : i \in DOMAIN stack' /\ stack'[i] = p[i]
  BY <1>3, <1>4
<1>6. \A j \in 1 .. Len(rest) : Len(p) + j \in DOMAIN stack' /\ stack'[Len(p) + j] = rest[j]
  BY <1>3, <1>4
<1> QED
  BY <1>1, <1>2, <1>3, <1>4, <1>5, <1>6 DEF On

\* The two calls that an asynchronous command may make.
LEMMA Pair ==
    ASSUME NEW p \in Seq(Call), NEW q \in Seq(Call), Len(p) = 1, Len(q) = 1
    PROVE  p \o q \in Seq(Call) /\ Len(p \o q) = 2 /\ (p \o q)[1] = p[1] /\ (p \o q)[2] = q[1]
<1>1. /\ p \o q \in Seq(Call) /\ Len(p \o q) = Len(p) + Len(q)
      /\ \A i \in 1 .. Len(p) + Len(q) : (p \o q)[i] = IF i <= Len(p) THEN p[i] ELSE q[i - Len(p)]
  BY ConcatProperties
<1> QED
  BY <1>1

\* Where an append leaves the calls (dma_debugger_queue_append): on the way it
\* may complete the command in progress.
LEMMA AppendShape ==
    ASSUME IInv, NEW c, NEW k, NEW rest \in Seq(Call), NEW refused \in Seq(Call),
           AppendCommand(c, k, rest, refused)
    PROVE  \/ /\ CheckedState(k) \in Need(k)
              /\ \/ On(1, rest) /\ stack'[1].fn = "execute"
                 \/ /\ On(2, rest) /\ k \in Asynchronous
                    /\ GoingTo(k) = Stopped \/ debugger_state = Running
                    /\ stack'[1].fn = "complete" /\ stack'[1].state = debugger_state
                    /\ stack'[2].fn = "execute"
           \/ /\ CheckedState(k) \notin Need(k)
              /\ \/ working /\ On(0, refused)
                 \/ /\ ~working /\ On(1, refused)
                    /\ stack'[1].fn = "complete" /\ stack'[1].state = at
<1>1. /\ GetState = (IF working THEN Busy ELSE at) /\ at \in State
      /\ debugger_state \in State /\ Busy \notin State
  BY StateNow DEF State, Busy, Stopped, Running
<1>2. <<Executing>> \in Seq(Call) /\ Len(<<Executing>>) = 1 /\ <<Executing>>[1].fn = "execute"
  BY Calls, Frames
<1>3. \A s \in State : /\ Completing(s) \in Seq(Call) /\ Len(Completing(s)) = 1
                       /\ Completing(s)[1].fn = "complete" /\ Completing(s)[1].state = s
  BY Calls, Frames
<1>4. <<>> \in Seq(Call) /\ Len(<<>>) = 0
  OBVIOUS
<1>5. CASE CheckedState(k) \in Need(k)
  <2>1. CASE stack' = <<Executing>> \o rest
    <3> DEFINE p == <<Executing>>
    <3>1. p \in Seq(Call) /\ Len(p) = 1 /\ p[1].fn = "execute" /\ stack' = p \o rest
      BY <1>2, <2>1
    <3> HIDE DEF p
    <3>2. \A i \in 1 .. Len(p) : p[i].fn # "window"
      BY ONLY <3>1
    <3>3. On(Len(p), rest) /\ \A i \in 1 .. Len(p) : stack'[i] = p[i]
      BY ONLY <3>1, <3>2, OnRest, rest \in Seq(Call)
    <3>4. On(1, rest) /\ stack'[1] = p[1]
      BY ONLY SMTT(30), <3>1, <3>3
    <3> QED
      BY <1>5, <3>1, <3>4
  <2>2. CASE /\ k \in Asynchronous /\ (GoingTo(k) = Stopped \/ debugger_state = Running)
             /\ stack' = Completing(debugger_state) \o <<Executing>> \o rest
    <3> DEFINE a == Completing(debugger_state)
               b == <<Executing>>
               p == a \o b
    <3>1. /\ a \in Seq(Call) /\ b \in Seq(Call) /\ Len(a) = 1 /\ Len(b) = 1
          /\ a[1].fn = "complete" /\ a[1].state = debugger_state /\ b[1].fn = "execute"
      BY <1>1, <1>2, <1>3
    <3>2. stack' = p \o rest
      <4> HIDE DEF a
      <4> QED
        BY <2>2 DEF a
    <3> HIDE DEF a, b
    <3>3. p \in Seq(Call) /\ Len(p) = 2 /\ p[1] = a[1] /\ p[2] = b[1]
      BY <3>1, Pair
    <3> HIDE DEF p
    <3>4. \A i \in 1 .. Len(p) : p[i].fn # "window"
      BY ONLY <3>1, <3>3
    <3>5. On(Len(p), rest) /\ \A i \in 1 .. Len(p) : stack'[i] = p[i]
      BY ONLY <3>2, <3>3, <3>4, OnRest, rest \in Seq(Call)
    <3>6. On(2, rest) /\ stack'[1] = a[1] /\ stack'[2] = b[1]
      BY ONLY <3>3, <3>5
    <3> QED
      BY <1>5, <2>2, <3>1, <3>6
  <2>3. AppendFirst(c, k, rest) \/ AppendBefore(c, k, rest) \/ AppendLast(c, k, rest)
    BY <1>5 DEF AppendCommand
  <2>4. CASE AppendBefore(c, k, rest) \/ AppendLast(c, k, rest)
    BY <2>1, <2>4 DEF AppendBefore, AppendLast
  <2>5. CASE AppendFirst(c, k, rest)
    BY <1>2, <2>1, <2>2, <2>5, ConcatEmptySeq DEF AppendFirst
  <2> QED
    BY <2>3, <2>4, <2>5
<1>6. CASE CheckedState(k) \notin Need(k)
  <2>1. stack' = Completing(GetState) \o refused
    BY <1>6 DEF AppendCommand
  <2>2. CASE working
    <3>1. Completing(GetState) = <<>>
      BY <1>1, <2>2, Frames
    <3>2. \A i \in 1 .. Len(<<>>) : <<>>[i].fn # "window"
      BY <1>4
    <3>3. stack' = <<>> \o refused
      BY <2>1, <3>1
    <3>4. On(Len(<<>>), refused)
      BY ONLY <1>4, <3>2, <3>3, OnRest, refused \in Seq(Call)
    <3> QED
      BY <1>4, <1>6, <2>2, <3>4
  <2>3. CASE ~working
    <3> DEFINE p == Completing(at)
    <3>1. p \in Seq(Call) /\ Len(p) = 1 /\ p[1].fn = "complete" /\ p[1].state = at
      BY <1>1, <1>3
    <3>2. stack' = p \o refused
      BY <1>1, <2>1, <2>3
    <3> HIDE DEF p
    <3>3. \A i \in 1 .. Len(p) : p[i].fn # "window"
      BY ONLY <3>1
    <3>4. On(Len(p), refused) /\ \A i \in 1 .. Len(p) : stack'[i] = p[i]
      BY ONLY <3>1, <3>2, <3>3, OnRest, refused \in Seq(Call)
    <3>5. On(1, refused) /\ stack'[1] = p[1]
      BY ONLY <3>1, <3>4
    <3> QED
      BY <1>6, <2>3, <3>1, <3>5
  <2> QED
    BY <2>2, <2>3
<1> QED
  BY <1>5, <1>6

\* n calls on what a call returns to.
LEMMA OnTailPuts ==
    ASSUME CallsInv, stack # <<>>, stack[1].fn # "window", NEW n, On(n, Tail(stack))
    PROVE  Puts(n, 1) /\ Windows(stack') = Windows(stack)
<1>1. /\ Len(Tail(stack)) = Len(stack) - 1 /\ Len(stack) \in Nat /\ Len(stack) >= 1
      /\ \A i \in 1 .. Len(Tail(stack)) : Tail(stack)[i] = stack[i + 1]
      /\ DOMAIN stack = 1 .. Len(stack) /\ Head(stack) = stack[1]
  BY HeadTailProperties, LenProperties DEF CallsInv
<1>2. /\ stack' \in Seq(Call) /\ Len(stack') = n + Len(Tail(stack)) /\ n \in Nat
      /\ DOMAIN stack' = 1 .. Len(stack')
      /\ \A i \in 1 .. n : i \in DOMAIN stack'
      /\ \A j \in 1 .. Len(Tail(stack)) :
             n + j \in DOMAIN stack' /\ stack'[n + j] = Tail(stack)[j]
      /\ Windows(stack') = Windows(Tail(stack))
  BY DEF On
<1>3. Below(n, 1)
  <2>1. Len(stack') = Len(stack) + n - 1
    BY <1>1, <1>2
  <2>2. ASSUME NEW j \in DOMAIN stack, j > 1
        PROVE  j + n - 1 \in DOMAIN stack' /\ stack'[j + n - 1] = stack[j]
    <3>1. j - 1 \in 1 .. Len(Tail(stack)) /\ n + (j - 1) = j + n - 1 /\ (j - 1) + 1 = j
      BY <1>1, <1>2, <2>2
    <3> QED
      BY <1>1, <1>2, <3>1
  <2>3. ASSUME NEW i \in DOMAIN stack', i > n
        PROVE  /\ i + 1 - n \in DOMAIN stack /\ i + 1 - n > 1
               /\ stack'[i] = stack[i + 1 - n]
    <3>1. i - n \in 1 .. Len(Tail(stack)) /\ n + (i - n) = i /\ (i - n) + 1 = i + 1 - n
      BY <1>1, <1>2, <2>3
    <3> QED
      BY <1>1, <1>2, <3>1
  <2> QED
    BY <2>1, <2>2, <2>3 DEF Below
<1>4. Windows(stack) = IsWindow(Head(stack)) + Windows(Tail(stack))
  BY WindowsHead DEF CallsInv
<1>5. Tail(stack) \in Seq(Call) /\ Windows(Tail(stack)) \in Nat
  BY CallStack, WindowsType
<1> QED
  BY <1>1, <1>2, <1>3, <1>4, <1>5 DEF Puts, IsWindow

\* The same for calls pushed on the whole stack.
LEMMA OnStackPuts ==
    ASSUME CallsInv, NEW n, On(n, stack)
    PROVE  Puts(n, 0) /\ Windows(stack') = Windows(stack)
<1>1. Len(stack) \in Nat /\ DOMAIN stack = 1 .. Len(stack)
  BY LenProperties DEF CallsInv
<1>2. /\ stack' \in Seq(Call) /\ Len(stack') = n + Len(stack) /\ n \in Nat
      /\ DOMAIN stack' = 1 .. Len(stack')
      /\ \A i \in 1 .. n : i \in DOMAIN stack'
      /\ \A j \in 1 .. Len(stack) : n + j \in DOMAIN stack' /\ stack'[n + j] = stack[j]
      /\ Windows(stack') = Windows(stack)
  BY DEF On
<1>3. Below(n, 0)
  <2>1. ASSUME NEW j \in DOMAIN stack, j > 0
        PROVE  j + n - 0 \in DOMAIN stack' /\ stack'[j + n - 0] = stack[j]
    BY <1>1, <1>2
  <2>2. ASSUME NEW i \in DOMAIN stack', i > n
        PROVE  /\ i + 0 - n \in DOMAIN stack /\ i + 0 - n > 0
               /\ stack'[i] = stack[i + 0 - n]
    <3>1. i - n \in 1 .. Len(stack) /\ n + (i - n) = i /\ i + 0 - n = i - n
      BY <1>1, <1>2, <2>2
    <3> QED
      BY <1>1, <1>2, <3>1
  <2> QED
    BY <1>1, <1>2, <2>1, <2>2 DEF Below
<1> QED
  BY <1>1, <1>2, <1>3 DEF Puts

\* n calls on a stack where the top has been replaced.
LEMMA OnReplaced ==
    ASSUME CallsInv, stack # <<>>, NEW f \in Call, f.fn = "window", stack[1].fn = "window",
           NEW n, On(n, <<f>> \o Tail(stack))
    PROVE  /\ Puts(n + 1, 1) /\ stack'[n + 1] = f
           /\ Windows(stack') = Windows(stack)
<1> DEFINE rest == <<f>> \o Tail(stack)
<1>1. /\ Len(Tail(stack)) = Len(stack) - 1 /\ Len(stack) \in Nat /\ Len(stack) >= 1
      /\ \A i \in 1 .. Len(Tail(stack)) : Tail(stack)[i] = stack[i + 1]
      /\ DOMAIN stack = 1 .. Len(stack) /\ Head(stack) = stack[1]
  BY HeadTailProperties, LenProperties DEF CallsInv
<1>2. <<f>> \in Seq(Call) /\ Len(<<f>>) = 1 /\ <<f>>[1] = f /\ Tail(stack) \in Seq(Call)
  BY CallStack
<1>3. /\ Len(rest) = Len(stack) /\ rest[1] = f
      /\ \A j \in 2 .. Len(stack) : rest[j] = stack[j]
  <2>1. /\ Len(rest) = 1 + Len(Tail(stack))
        /\ \A j \in 1 .. 1 + Len(Tail(stack)) : rest[j] = IF j <= 1 THEN <<f>>[j] ELSE Tail(stack)[j - 1]
    BY <1>2, ConcatProperties
  <2> HIDE DEF rest
  <2> QED
    BY <1>1, <1>2, <2>1
<1>4. Windows(rest) = Windows(stack)
  BY <1>1, <1>2, WindowsConcat, WindowsOfOne, WindowsHead DEF IsWindow, CallsInv
<1>5. /\ stack' \in Seq(Call) /\ Len(stack') = n + Len(rest) /\ n \in Nat
      /\ DOMAIN stack' = 1 .. Len(stack')
      /\ \A i \in 1 .. n : i \in DOMAIN stack'
      /\ \A j \in 1 .. Len(rest) : n + j \in DOMAIN stack' /\ stack'[n + j] = rest[j]
      /\ Windows(stack') = Windows(rest)
  BY DEF On
<1> HIDE DEF rest
<1>6. Below(n + 1, 1)
  <2>1. Len(stack') = Len(stack) + (n + 1) - 1
    BY <1>3, <1>5, <1>1
  <2>2. ASSUME NEW j \in DOMAIN stack, j > 1
        PROVE  j + (n + 1) - 1 \in DOMAIN stack' /\ stack'[j + (n + 1) - 1] = stack[j]
    BY <1>1, <1>3, <1>5, <2>2
  <2>3. ASSUME NEW i \in DOMAIN stack', i > n + 1
        PROVE  /\ i + 1 - (n + 1) \in DOMAIN stack /\ i + 1 - (n + 1) > 1
               /\ stack'[i] = stack[i + 1 - (n + 1)]
    <3>0. n \in Nat /\ i \in 1 .. n + Len(stack) /\ i > n + 1 /\ Len(stack) \in Nat
          /\ Len(rest) = Len(stack)
      BY <1>1, <1>3, <1>5, <2>3
    <3>1. /\ i - n \in 1 .. Len(rest) /\ n + (i - n) = i /\ i - n = i + 1 - (n + 1)
          /\ i - n \in 2 .. Len(stack) /\ i - n > 1
      BY ONLY <3>0
    <3> QED
      BY <1>1, <1>3, <1>5, <3>1
  <2> QED
    BY <2>1, <2>2, <2>3 DEF Below
<1>7. stack'[n + 1] = f /\ \A i \in 1 .. n + 1 : i \in DOMAIN stack'
  BY <1>1, <1>3, <1>5
<1> QED
  BY <1>1, <1>4, <1>5, <1>6, <1>7 DEF Puts

\* Where the call that appends for a menu leaves the main loop.
LEMMA UserCalls ==
    ASSUME IInv, NEW k, UserAppends(k)
    PROVE  /\ stack = <<>> /\ stack' \in Seq(Call) /\ DOMAIN stack' = 1 .. Len(stack')
           /\ Windows(stack') = 0 /\ Windows(stack) = 0
           /\ \/ /\ CheckedState(k) \in Need(k)
                 /\ \/ Len(stack') = 1 /\ stack'[1].fn = "execute"
                    \/ /\ Len(stack') = 2 /\ k \in Asynchronous
                       /\ GoingTo(k) = Stopped \/ debugger_state = Running
                       /\ stack'[1].fn = "complete" /\ stack'[1].state = debugger_state
                       /\ stack'[2].fn = "execute"
              \/ /\ CheckedState(k) \notin Need(k)
                 /\ \/ working /\ Len(stack') = 0
                    \/ /\ ~working /\ Len(stack') = 1
                       /\ stack'[1].fn = "complete" /\ stack'[1].state = at
<1>1. AppendCommand(New, k, <<>>, <<>>) /\ stack = <<>>
  BY DEF UserAppends
<1>2. <<>> \in Seq(Call) /\ Len(<<>>) = 0
  OBVIOUS
<1>3. \/ /\ CheckedState(k) \in Need(k)
         /\ \/ On(1, <<>>) /\ stack'[1].fn = "execute"
            \/ /\ On(2, <<>>) /\ k \in Asynchronous
               /\ GoingTo(k) = Stopped \/ debugger_state = Running
               /\ stack'[1].fn = "complete" /\ stack'[1].state = debugger_state
               /\ stack'[2].fn = "execute"
      \/ /\ CheckedState(k) \notin Need(k)
         /\ \/ working /\ On(0, <<>>)
            \/ /\ ~working /\ On(1, <<>>)
               /\ stack'[1].fn = "complete" /\ stack'[1].state = at
  BY <1>1, <1>2, AppendShape
<1>4. \A n \in {0, 1, 2} : On(n, <<>>) =>
          /\ Len(stack') = n /\ stack' \in Seq(Call) /\ DOMAIN stack' = 1 .. Len(stack')
          /\ Windows(stack') = 0
  BY <1>2, WindowsEmpty DEF On
<1> QED
  BY <1>1, <1>3, <1>4, WindowsEmpty

\* Where dma_queue_interrupt leaves dma_quit_debugger.
LEMMA QuitCalls ==
    ASSUME IInv, QuitDebugger
    PROVE  /\ stack = <<>> /\ stack' \in Seq(Call) /\ DOMAIN stack' = 1 .. Len(stack')
           /\ Windows(stack') = 0 /\ Windows(stack) = 0
           /\ Len(stack') >= 1 /\ stack'[Len(stack')].fn = "quit"
           /\ stack'[Len(stack')].cmd \in Unused \ {New}
           /\ \/ /\ CheckedState("interrupt") \in Need("interrupt")
                 /\ \/ Len(stack') = 2 /\ stack'[1].fn = "execute"
                    \/ /\ Len(stack') = 3 /\ debugger_state = Running
                       /\ stack'[1].fn = "complete" /\ stack'[1].state = debugger_state
                       /\ stack'[2].fn = "execute"
              \/ /\ CheckedState("interrupt") \notin Need("interrupt")
                 /\ \/ working /\ Len(stack') = 1
                    \/ /\ ~working /\ Len(stack') = 2
                       /\ stack'[1].fn = "complete" /\ stack'[1].state = at
<1> DEFINE q == CHOOSE c \in Unused \ {New} : TRUE
           next == <<Adding("quit", q)>>
<1>1. Unused \ {New} # {}
  <2>1. SUFFICES ASSUME Unused \ {New} = {} PROVE FALSE
    OBVIOUS
  <2>2. Unused = {} \/ Unused = {New}
    BY <2>1
  <2>3. Cardinality(Unused) \in {0, 1}
    BY <2>2, FS_EmptySet, FS_Singleton
  <2> QED
    BY <2>3 DEF QuitDebugger
<1>2. q \in Unused \ {New} /\ q \in Command
  BY <1>1 DEF Unused
<1>3. AppendCommand(New, "interrupt", next, next) /\ stack = <<>>
  BY DEF QuitDebugger
<1> HIDE DEF q
<1>4. Adding("quit", q) \in Call /\ Adding("quit", q).fn = "quit" /\ Adding("quit", q).cmd = q
  BY <1>2, Calls, Frames
<1>5. next \in Seq(Call) /\ Len(next) = 1 /\ next[1].fn = "quit" /\ next[1].cmd = q
  BY <1>4
<1>6. Windows(next) = 0
  BY <1>4, WindowsOfOne DEF IsWindow
<1> HIDE DEF next
<1>7. \/ /\ CheckedState("interrupt") \in Need("interrupt")
         /\ \/ On(1, next) /\ stack'[1].fn = "execute"
            \/ /\ On(2, next)
               /\ GoingTo("interrupt") = Stopped \/ debugger_state = Running
               /\ stack'[1].fn = "complete" /\ stack'[1].state = debugger_state
               /\ stack'[2].fn = "execute"
      \/ /\ CheckedState("interrupt") \notin Need("interrupt")
         /\ \/ working /\ On(0, next)
            \/ /\ ~working /\ On(1, next)
               /\ stack'[1].fn = "complete" /\ stack'[1].state = at
  BY <1>3, <1>5, AppendShape
<1>8. GoingTo("interrupt") # Stopped
  BY DEF GoingTo, RunKinds, StepKinds, Busy, Stopped
<1>9. \A n \in {0, 1, 2} : On(n, next) =>
          /\ Len(stack') = n + 1 /\ stack' \in Seq(Call) /\ DOMAIN stack' = 1 .. Len(stack')
          /\ Windows(stack') = 0 /\ stack'[n + 1] = next[1]
  BY <1>5, <1>6 DEF On
<1>10. \A n \in {0, 1, 2} : On(n, next) =>
          /\ Len(stack') = n + 1 /\ stack' \in Seq(Call) /\ DOMAIN stack' = 1 .. Len(stack')
          /\ Windows(stack') = 0 /\ stack'[Len(stack')].fn = "quit"
          /\ stack'[Len(stack')].cmd \in Unused \ {New} /\ Len(stack') >= 1
  <2>1. ASSUME NEW n \in {0, 1, 2}, On(n, next)
        PROVE  /\ Len(stack') = n + 1 /\ stack' \in Seq(Call) /\ DOMAIN stack' = 1 .. Len(stack')
               /\ Windows(stack') = 0 /\ stack'[Len(stack')] = next[1] /\ Len(stack') >= 1
    BY <1>9, <2>1
  <2> QED
    BY <1>2, <1>5, <2>1
<1> QED
  BY <1>3, <1>7, <1>8, <1>10, WindowsEmpty

\* A call that appends its command as the last thing it does.
LEMMA FinalAppend ==
    ASSUME IInv, stack # <<>>, stack[1].fn # "window", NEW c, NEW k,
           AppendCommand(c, k, Tail(stack), Tail(stack))
    PROVE  /\ Windows(stack') = Windows(stack)
           /\ \/ /\ CheckedState(k) \in Need(k)
                 /\ \/ Puts(1, 1) /\ stack'[1].fn = "execute"
                    \/ /\ Puts(2, 1) /\ k \in Asynchronous
                       /\ stack'[1].fn = "complete" /\ stack'[1].state = debugger_state
                       /\ stack'[2].fn = "execute"
              \/ /\ CheckedState(k) \notin Need(k)
                 /\ \/ working /\ Puts(0, 1)
                    \/ /\ ~working /\ Puts(1, 1)
                       /\ stack'[1].fn = "complete" /\ stack'[1].state = at
<1>1. CallsInv /\ Tail(stack) \in Seq(Call)
  BY CallStack DEF IInv
<1>2. \/ /\ CheckedState(k) \in Need(k)
         /\ \/ On(1, Tail(stack)) /\ stack'[1].fn = "execute"
            \/ /\ On(2, Tail(stack)) /\ k \in Asynchronous
               /\ GoingTo(k) = Stopped \/ debugger_state = Running
               /\ stack'[1].fn = "complete" /\ stack'[1].state = debugger_state
               /\ stack'[2].fn = "execute"
      \/ /\ CheckedState(k) \notin Need(k)
         /\ \/ working /\ On(0, Tail(stack))
            \/ /\ ~working /\ On(1, Tail(stack))
               /\ stack'[1].fn = "complete" /\ stack'[1].state = at
  BY <1>1, AppendShape
<1>3. \A n \in {0, 1, 2} : On(n, Tail(stack)) => Puts(n, 1) /\ Windows(stack') = Windows(stack)
  BY <1>1, OnTailPuts
<1> QED
  BY <1>2, <1>3

\* What a listener that appends a command calls.
LEMMA ListenerCalls ==
    ASSUME IInv, NEW k, ListenerAppends(k)
    PROVE  /\ stack # <<>> /\ stack[1].fn = "window" /\ ~stack[1].refused
           /\ k \in Adds(stack[1].signal) /\ New \in Command
           /\ Windows(stack') = Windows(stack)
           /\ \/ /\ CheckedState(k) \in Need(k)
                 /\ \/ Puts(1, 0) /\ stack'[1].fn = "execute"
                    \/ /\ Puts(2, 0) /\ k \in Asynchronous
                       /\ stack'[1].fn = "complete" /\ stack'[1].state = debugger_state
                       /\ stack'[2].fn = "execute"
              \/ /\ CheckedState(k) \notin Need(k)
                 /\ \/ /\ working /\ Puts(1, 1) /\ stack'[1].fn = "window"
                       /\ stack'[1].refused
                    \/ /\ ~working /\ Puts(2, 1)
                       /\ stack'[1].fn = "complete" /\ stack'[1].state = at
                       /\ stack'[2].fn = "window" /\ stack'[2].refused
<1> DEFINE f == [stack[1] EXCEPT !.refused = TRUE]
<1>1. /\ CallsInv /\ stack # <<>> /\ Head(stack) = stack[1] /\ stack[1].fn = "window"
      /\ stack[1] \in Call /\ Tail(stack) \in Seq(Call)
  BY TopIs, CallStack DEF ListenerAppends, IInv
<1>2. ~stack[1].refused /\ k \in Adds(stack[1].signal) /\ New \in Command
  BY <1>1, NewIsCommand DEF ListenerAppends
<1>3. AppendCommand(New, k, stack, <<f>> \o Tail(stack))
  BY <1>1 DEF ListenerAppends
<1>4. f \in Call /\ f.fn = "window" /\ f.refused
  BY <1>1 DEF Call, FrameType
<1> HIDE DEF f
<1> DEFINE rest == <<f>> \o Tail(stack)
<1>5. stack \in Seq(Call) /\ rest \in Seq(Call)
  BY <1>1, <1>4 DEF CallsInv
<1>6. \/ /\ CheckedState(k) \in Need(k)
         /\ \/ On(1, stack) /\ stack'[1].fn = "execute"
            \/ /\ On(2, stack) /\ k \in Asynchronous
               /\ GoingTo(k) = Stopped \/ debugger_state = Running
               /\ stack'[1].fn = "complete" /\ stack'[1].state = debugger_state
               /\ stack'[2].fn = "execute"
      \/ /\ CheckedState(k) \notin Need(k)
         /\ \/ working /\ On(0, rest)
            \/ /\ ~working /\ On(1, rest)
               /\ stack'[1].fn = "complete" /\ stack'[1].state = at
  <2> HIDE DEF rest
  <2>1. AppendCommand(New, k, stack, rest)
    BY <1>3 DEF rest
  <2> QED
    BY <1>5, <2>1, AppendShape
<1>7. \A n \in {0, 1, 2} : On(n, stack) => Puts(n, 0) /\ Windows(stack') = Windows(stack)
  BY <1>1, OnStackPuts
<1>8. \A n \in {0, 1, 2} : On(n, rest) =>
          Puts(n + 1, 1) /\ stack'[n + 1] = f /\ Windows(stack') = Windows(stack)
  BY <1>1, <1>4, OnReplaced
<1>9. /\ On(0, rest) => Puts(1, 1) /\ stack'[1] = f /\ Windows(stack') = Windows(stack)
      /\ On(1, rest) => Puts(2, 1) /\ stack'[2] = f /\ Windows(stack') = Windows(stack)
  BY <1>8
<1> HIDE DEF rest
<1> QED
  BY <1>1, <1>2, <1>4, <1>6, <1>7, <1>9

\* What a report of the backend puts on the empty stack of the main loop.
LEMMA DoneCalls ==
    ASSUME IInv, NEW s \in State, BackendDone(s)
    PROVE  /\ stack = <<>> /\ working /\ s \in ends
           /\ stack' \in Seq(Call) /\ DOMAIN stack' = 1 .. Len(stack')
           /\ Windows(stack) = 0 /\ Windows(stack') = 0
           /\ Len(stack') \in 1 .. 3
           /\ stack'[Len(stack')].fn = "ready" /\ stack'[Len(stack')].state = s
           /\ \A i \in 1 .. Len(stack') : i < Len(stack') =>
                  \/ i = 1 /\ stack'[i].fn = "callback" /\ reply
                  \/ stack'[i].fn = "open" /\ stack'[i].signal = "program-moved" /\ runs
<1> DEFINE x == Replying
           y == Opening("program-moved")
           z == Ready(s)
<1>1. x \in Call /\ y \in Call /\ z \in Call
  BY Calls DEF Signal
<1>2. /\ x.fn = "callback" /\ y.fn = "open" /\ y.signal = "program-moved"
      /\ z.fn = "ready" /\ z.state = s
  BY Frames
<1>3. /\ stack = <<>> /\ working /\ s \in ends
      /\ stack' = (IF reply THEN <<x>> ELSE <<>>)
                    \o (IF runs /\ s = PStopped THEN <<y>> ELSE <<>>) \o <<z>>
  BY DEF BackendDone
<1> HIDE DEF x, y, z
<1>4. /\ stack' \in Seq(Call) /\ DOMAIN stack' = 1 .. Len(stack')
      /\ Len(stack') \in 1 .. 3
      /\ stack'[Len(stack')] = z
      /\ \A i \in 1 .. Len(stack') : i < Len(stack') =>
             \/ i = 1 /\ stack'[i] = x /\ reply
             \/ stack'[i] = y /\ runs
  <2>1. CASE reply /\ runs /\ s = PStopped
    <3>1. stack' = <<x>> \o <<y>> \o <<z>>
      BY <1>3, <2>1
    <3>2. stack' = <<x, y, z>>
      BY <1>1, <3>1, Three
    <3> QED
      BY <1>1, <2>1, <3>2
  <2>2. CASE reply /\ ~(runs /\ s = PStopped)
    <3>1. stack' = <<x>> \o <<>> \o <<z>>
      BY <1>3, <2>2
    <3>2. <<x>> \o <<>> = <<x>> /\ <<x>> \o <<z>> = <<x, z>>
      BY <1>1, Two, ConcatEmptySeq
    <3>3. stack' = <<x, z>>
      BY <3>1, <3>2
    <3> QED
      BY <1>1, <2>2, <3>3
  <2>3. CASE ~reply /\ runs /\ s = PStopped
    <3>1. stack' = <<>> \o <<y>> \o <<z>>
      BY <1>3, <2>3
    <3>2. <<>> \o <<y>> = <<y>> /\ <<y>> \o <<z>> = <<y, z>>
      BY <1>1, Two, ConcatEmptySeq
    <3>3. stack' = <<y, z>>
      BY <3>1, <3>2
    <3> QED
      BY <1>1, <2>3, <3>3
  <2>4. CASE ~reply /\ ~(runs /\ s = PStopped)
    <3>1. stack' = <<>> \o <<>> \o <<z>>
      BY <1>3, <2>4
    <3>2. stack' = <<z>>
      BY ONLY <3>1
    <3> QED
      BY <1>1, <2>4, <3>2
  <2> QED
    BY <2>1, <2>2, <2>3, <2>4
<1>5. \A i \in 1 .. Len(stack') : stack'[i].fn # "window"
  BY <1>2, <1>4
<1>6. Windows(stack') = 0 /\ Windows(stack) = 0
  BY <1>3, <1>4, <1>5, WindowsNone, WindowsEmpty
<1> QED
  BY <1>2, <1>3, <1>4, <1>6

\* What on_dma_program_running calls.
LEMMA RunsCalls ==
    ASSUME IInv, ProgramRuns
    PROVE  /\ stack = <<>> /\ stack' \in Seq(Call) /\ DOMAIN stack' = 1 .. Len(stack')
           /\ Windows(stack) = 0 /\ Windows(stack') = 0
           /\ Len(stack') = 1 /\ stack'[1].fn = "emit" /\ stack'[1].state = Running
<1> DEFINE x == Emitting(Running)
<1>1. x \in Call /\ x.fn = "emit" /\ x.state = Running
  BY Calls, Frames DEF State, Running, Stopped
<1>2. stack = <<>> /\ stack' = <<x>>
  BY DEF ProgramRuns
<1> HIDE DEF x
<1>3. stack' \in Seq(Call) /\ DOMAIN stack' = 1 .. Len(stack') /\ Len(stack') = 1
      /\ stack'[1] = x
  BY <1>1, <1>2
<1>4. \A i \in 1 .. Len(stack') : stack'[i].fn # "window"
  BY <1>1, <1>3
<1>5. Windows(stack') = 0
  BY <1>3, <1>4, WindowsNone
<1>6. Windows(stack) = 0
  BY <1>2, WindowsEmpty
<1> QED
  BY <1>1, <1>2, <1>3, <1>5, <1>6

\* What on_dma_sharedlib_event calls.
LEMMA SharedlibCalls ==
    ASSUME IInv, SharedlibEvent
    PROVE  /\ stack = <<>> /\ stack' \in Seq(Call) /\ DOMAIN stack' = 1 .. Len(stack')
           /\ Windows(stack) = 0 /\ Windows(stack') = 0
           /\ Len(stack') = 3
           /\ stack'[1].fn = "complete" /\ stack'[1].state = PStopped
           /\ stack'[2].fn = "open" /\ stack'[2].signal = "sharedlib-event"
           /\ stack'[3].fn = "rerun" /\ stack'[3].cmd = New /\ New \in Unused
<1> DEFINE p == Completing(PStopped)
           x == p[1]
           y == Opening("sharedlib-event")
           z == Adding("rerun", New)
<1>1. PStopped \in State
  BY DEF State, PStopped, Stopped, Running
<1>2. p \in Seq(Call) /\ Len(p) = 1 /\ x.fn = "complete" /\ x.state = PStopped
  BY <1>1, Calls, Frames
<1>3. New \in Command /\ New \in Unused
  BY NewIsCommand DEF SharedlibEvent, New
<1>4. y \in Call /\ z \in Call
  BY <1>3, Calls DEF Signal
<1>5. y.fn = "open" /\ y.signal = "sharedlib-event" /\ z.fn = "rerun" /\ z.cmd = New
  BY Frames
<1>6. stack = <<>> /\ stack' = p \o <<y, z>>
  BY DEF SharedlibEvent
<1> HIDE DEF p, y, z
<1>7. x \in Call
  BY <1>2, Single
<1>8. stack' \in Seq(Call) /\ DOMAIN stack' = 1 .. Len(stack') /\ Len(stack') = 3
      /\ stack'[1] = x /\ stack'[2] = y /\ stack'[3] = z
  <2> HIDE DEF x
  <2>1. p = <<x>>
    BY <1>2, Single DEF x
  <2>2. stack' = <<x, y, z>>
    BY <1>4, <1>6, <1>7, <2>1, Three
  <2> QED
    BY <1>4, <1>7, <2>2
<1>9. \A i \in 1 .. Len(stack') : stack'[i].fn # "window"
  BY <1>2, <1>5, <1>8
<1>10. Windows(stack') = 0 /\ Windows(stack) = 0
  BY <1>6, <1>8, <1>9, WindowsNone, WindowsEmpty
<1> QED
  BY <1>2, <1>3, <1>5, <1>6, <1>8, <1>10

\* What on_dma_debugger_stopped calls.
LEMMA EndsCalls ==
    ASSUME IInv, BackendEnds
    PROVE  /\ stack = <<>> /\ stack' \in Seq(Call) /\ DOMAIN stack' = 1 .. Len(stack')
           /\ Windows(stack) = 0 /\ Windows(stack') = 0
           /\ Len(stack') = 2
           /\ stack'[1].fn = "emit" /\ stack'[1].state = Stopped
           /\ stack'[2].fn = "reread"
<1>1. stack = <<>> /\ stack' = Stopping
  BY DEF BackendEnds
<1>2. /\ stack' \in Seq(Call) /\ Len(stack') = 2
      /\ stack'[1].fn = "emit" /\ stack'[1].state = Stopped
      /\ stack'[2].fn = "reread"
  BY <1>1, Calls, Frames
<1>3. DOMAIN stack' = 1 .. Len(stack')
  BY <1>2, LenProperties
<1>4. Windows(stack') = 0 /\ Windows(stack) = 0
  BY <1>1, <1>2, <1>3, WindowsNone, WindowsEmpty
<1> QED
  BY <1>1, <1>2, <1>3, <1>4

\* A call that returns, none of the windows.
LEMMA ReturnCalls ==
    ASSUME IInv, StateEmitted \/ AllSent
    PROVE  /\ Puts(0, 1) /\ Windows(stack') = Windows(stack)
           /\ StateEmitted => stack[1].fn = "emit" /\ stack[1].state = debugger_state
           /\ AllSent => stack[1].fn = "send" /\ (queue = <<>> \/ last # none)
<1>1. /\ CallsInv /\ stack # <<>> /\ Head(stack) = stack[1] /\ stack[1].fn \in {"emit", "send"}
      /\ stack' = Tail(stack)
      /\ StateEmitted => stack[1].fn = "emit" /\ stack[1].state = debugger_state
      /\ AllSent => stack[1].fn = "send" /\ (queue = <<>> \/ last # none)
  BY TopIs DEF StateEmitted, IInv, AllSent, Top
<1>2. Puts(0, 1) /\ Windows(stack') = Windows(stack) - IsWindow(stack[1])
  BY <1>1, PopCalls
<1>3. Windows(stack) \in Nat
  BY <1>1, WindowsType DEF CallsInv
<1> QED
  BY <1>1, <1>2, <1>3 DEF IsWindow

\* The return of the last listener.
LEMMA CloseCalls ==
    ASSUME IInv, CloseWindow
    PROVE  /\ stack # <<>> /\ stack[1].fn = "window"
           /\ Puts(0, 1) /\ Windows(stack') = Windows(stack) - 1
           /\ Windows(stack) \in Nat /\ Windows(stack) >= 1
<1>1. /\ CallsInv /\ stack # <<>> /\ stack[1].fn = "window" /\ stack' = Tail(stack)
      /\ Head(stack) = stack[1]
  BY TopIs DEF CloseWindow, IInv
<1>2. Puts(0, 1) /\ Windows(stack') = Windows(stack) - IsWindow(stack[1])
  BY <1>1, PopCalls
<1>3. Windows(stack) = IsWindow(Head(stack)) + Windows(Tail(stack))
  BY <1>1, WindowsHead DEF CallsInv
<1>4. Windows(Tail(stack)) \in Nat
  BY <1>1, CallStack, WindowsType
<1> QED
  BY <1>1, <1>2, <1>3, <1>4 DEF IsWindow

-----------------------------------------------------------------------------
(* As many links as windows                                                *)

CountInv == Len(insert_command) = Windows(stack)

\* Each emission in progress holds one link.
LEMMA CountStep ==
    ASSUME IInv, QueueType, CountInv, [Next]_vars
    PROVE  CountInv'
<1>0. /\ Len(insert_command) \in Nat /\ Windows(stack) \in Nat
      /\ insert_command \in Seq(Command \cup {none})
  BY WindowsType, LenProperties DEF IInv, CallsInv, QueueType
<1>1. Len(<<HeadLink>> \o insert_command) = Len(insert_command) + 1
  BY <1>0, HeadType, ConcatProperties DEF HeadLink
<1>2. CASE UNCHANGED vars
  BY <1>2 DEF vars, self, CountInv
<1>3. CASE Complete
  BY <1>3, CompleteCalls DEF Complete, CountInv
<1>4. CASE EmitStateChange
  BY <1>0, <1>1, <1>4, EmitCalls DEF CountInv
<1>5. CASE StateEmitted \/ AllSent
  BY <1>5, ReturnCalls DEF StateEmitted, AllSent, self, CountInv
<1>6. CASE OpenWindow
  BY <1>0, <1>1, <1>6, OpenCalls DEF OpenWindow, CountInv
<1>7. CASE CloseWindow
  BY <1>0, <1>7, CloseCalls, HeadTailProperties DEF CloseWindow, CountInv
<1>8. CASE Execute
  BY <1>8, ExecuteCalls DEF Execute, self, CountInv
<1>9. CASE Send \/ SendInterrupt \/ SendFails
  BY <1>9 DEF Send, SendInterrupt, SendFails, CountInv
<1>10. CASE SendSetEnvironment
  BY <1>10, SetEnvironmentCalls DEF SendSetEnvironment, CountInv
<1>11. CASE SendAbort
  BY <1>11, AbortCalls DEF SendAbort, CountInv
<1>12. CASE AddQuit
  <2>1. stack # <<>> /\ stack[1].fn # "window"
    BY <1>12, TopIs DEF AddQuit, IInv
  <2>2. AppendCommand(Head(stack).cmd, "quit", Tail(stack), Tail(stack))
    BY <1>12 DEF AddQuit
  <2> QED
    BY <2>1, <2>2, FinalAppend DEF AppendCommand, CountInv
<1>13. CASE RunAgain
  <2>1. stack # <<>> /\ stack[1].fn # "window"
    BY <1>13, TopIs DEF RunAgain, IInv
  <2>2. AppendCommand(Head(stack).cmd, "run", Tail(stack), Tail(stack))
    BY <1>13 DEF RunAgain
  <2> QED
    BY <2>1, <2>2, FinalAppend DEF AppendCommand, CountInv
<1>14. CASE CommandCallback
  BY <1>0, <1>1, <1>14, CallbackCalls DEF CountInv
<1>15. CASE DebuggerReady
  BY <1>15, ReadyCalls DEF DebuggerReady, self, CountInv
<1>16. CASE Reread
  BY <1>16, RereadCalls DEF Reread, self, CountInv
<1>17. ASSUME NEW k \in Used, UserAppends(k) PROVE CountInv'
  BY <1>17, UserCalls DEF UserAppends, AppendCommand, CountInv
<1>18. ASSUME NEW k \in Used, ListenerAppends(k) PROVE CountInv'
  BY <1>18, ListenerCalls DEF ListenerAppends, AppendCommand, CountInv
<1>19. CASE QuitDebugger
  BY <1>19, QuitCalls DEF QuitDebugger, AppendCommand, CountInv
<1>20. ASSUME NEW s \in State, BackendDone(s) PROVE CountInv'
  BY <1>20, DoneCalls DEF BackendDone, self, CountInv
<1>21. CASE ProgramRuns
  BY <1>21, RunsCalls DEF ProgramRuns, self, CountInv
<1>22. CASE SharedlibEvent
  BY <1>22, SharedlibCalls DEF SharedlibEvent, CountInv
<1>23. CASE BackendEnds
  BY <1>23, EndsCalls DEF BackendEnds, self, CountInv
<1> QED
  BY <1>2, <1>3, <1>4, <1>5, <1>6, <1>7, <1>8, <1>9, <1>10, <1>11, <1>12, <1>13,
     <1>14, <1>15, <1>16, <1>17, <1>18, <1>19, <1>20, <1>21, <1>22, <1>23 DEF Next, Return

TypeInv == IInv /\ QueueType /\ BackendType /\ CountInv

\* What dma_debugger_queue_append makes of the queue.
LEMMA AppendQueueType ==
    ASSUME IInv, QueueType, NEW c \in Command, NEW k \in Kind, NEW rest, NEW refused,
           AppendCommand(c, k, rest, refused)
    PROVE  QueueType'
<1>1. /\ last' = last /\ insert_command' = insert_command
      /\ stop_on_sharedlib' = stop_on_sharedlib
  BY DEF AppendCommand
<1>2. kind' \in [Command -> Kind]
  BY DEF AppendCommand, QueueType
<1>3. answers' \in [Command -> Nat]
  <2>1. \A C : Answer(C) \in [Command -> Nat]
    BY AnswerType
  <2>2. \A C : [Answer(C) EXCEPT ![c] = 0] \in [Command -> Nat]
    BY <2>1
  <2>3. [answers EXCEPT ![c] = 0] \in [Command -> Nat]
    BY DEF QueueType
  <2>4. \/ answers' = answers \/ answers' = [answers EXCEPT ![c] = 0]
        \/ \E C : answers' = [Answer(C) EXCEPT ![c] = 0]
    BY DEF AppendCommand, AppendFirst, AppendBefore, AppendLast
  <2> QED
    BY <2>2, <2>3, <2>4 DEF QueueType
<1>4. crashed' \in BOOLEAN
  BY DEF AppendCommand, AppendFirst, AppendBefore, AppendLast, QueueType
<1>5. queue_state' \in State
  BY CancelType, GoingToType DEF QueueType, AppendCommand, AppendFirst, AppendBefore, AppendLast
<1>6. queue' \in Seq(Command)
  <2>0. <<c>> \in Seq(Command) /\ queue \in Seq(Command)
    BY DEF QueueType
  <2>1. CASE queue' = queue
    BY <2>0, <2>1
  <2>2. CASE AppendFirst(c, k, rest)
    <3>1. \A s \in State : Kept(queue, s) \in Seq(Command)
      BY CancelType DEF QueueType
    <3>2. GoingTo(k) \in State \cup {Busy}
      BY GoingToType
    <3>3. \/ queue' = <<c>> \o queue
          \/ GoingTo(k) # Busy /\ queue' = <<c>> \o Kept(queue, GoingTo(k))
      BY <2>2 DEF AppendFirst
    <3> QED
      BY <2>0, <3>1, <3>2, <3>3, ConcatProperties
  <2>3. CASE AppendBefore(c, k, rest)
    <3>1. CASE In(Link, queue)
      <4> DEFINE i == CHOOSE j \in DOMAIN queue : queue[j] = Link
      <4>1. i \in 1 .. Len(queue) /\ Len(queue) \in Nat
        BY <2>0, <3>1, LenProperties DEF In
      <4>2. queue' = SubSeq(queue, 1, i - 1) \o <<c>> \o SubSeq(queue, i, Len(queue))
        BY <2>3, <3>1 DEF AppendBefore
      <4> HIDE DEF i
      <4>3. SubSeq(queue, 1, i - 1) \in Seq(Command) /\ SubSeq(queue, i, Len(queue)) \in Seq(Command)
        <5>1. \A j \in 1 .. Len(queue) : queue[j] \in Command
          BY <2>0, ElementOfSeq
        <5>2. i - 1 \in Int /\ i \in Int /\ Len(queue) \in Int /\ 1 \in Int
          BY <4>1
        <5>3. \A j \in 1 .. i - 1 : queue[j] \in Command
          BY <4>1, <5>1
        <5>4. \A j \in i .. Len(queue) : queue[j] \in Command
          BY <4>1, <5>1
        <5> QED
          BY <2>0, <4>1, SubSeqProperties
      <4> QED
        BY <2>0, <4>2, <4>3, ConcatProperties
    <3>2. CASE ~In(Link, queue)
      BY <2>0, <2>3, <3>2 DEF AppendBefore
    <3> QED
      BY <3>1, <3>2
  <2>4. CASE AppendLast(c, k, rest)
    BY <2>0, <2>4, AppendProperties DEF AppendLast
  <2> QED
    BY <2>1, <2>2, <2>3, <2>4 DEF AppendCommand
<1> QED
  BY <1>1, <1>2, <1>3, <1>4, <1>5, <1>6 DEF QueueType

\* The command that a call about to append one carries.
LEMMA CarriedCommand ==
    ASSUME IInv, Top("quit") \/ Top("rerun")
    PROVE  Head(stack).cmd \in Command
BY TopIs DEF IInv, Call

\* The kinds of the commands that are appended.
LEMMA UsedKind == Used \subseteq Kind /\ "quit" \in Kind /\ "run" \in Kind /\ "interrupt" \in Kind
BY ConstantsAssumption DEF Kind, RunKinds, StepKinds

\* dma_quit_debugger appends an interrupt first.
LEMMA QuitAppends ==
    ASSUME QuitDebugger
    PROVE  New \in Command /\ \E next : AppendCommand(New, "interrupt", next, next)
<1>1. Unused # {}
  <2>1. SUFFICES ASSUME Unused = {} PROVE FALSE
    OBVIOUS
  <2> QED
    BY <2>1, FS_EmptySet DEF QuitDebugger
<1> QED
  BY <1>1, NewIsCommand DEF QuitDebugger

\* The types of the queue and of its states.
LEMMA QueueStep ==
    ASSUME TypeInv, [Next]_vars
    PROVE  QueueType'
<1> USE DEF TypeInv
<1>1. CASE UNCHANGED <<self, answers, crashed>>
  BY <1>1 DEF self, QueueType
<1>2. CASE Complete
  <2>1. Head(stack).state \in State
    BY <1>2, TopIs DEF Complete, IInv, Call
  <2>2. queue' \in Seq(Command) /\ queue_state' \in State /\ answers' \in [Command -> Nat]
    BY <1>2, <2>1, CancelType, AnswerType DEF QueueType, Complete, CancelUnexpected
  <2> QED
    BY <1>2, <2>2 DEF Complete, FreeLast, QueueType
<1>3. CASE EmitStateChange
  BY <1>3, EmitCalls, WindowType DEF QueueType, EmitStateChange
<1>4. CASE OpenWindow
  BY <1>4, WindowType DEF OpenWindow, QueueType
<1>5. CASE CloseWindow
  BY <1>5, CloseCalls, WindowType DEF CountInv, CloseWindow, QueueType
<1>6. CASE Send \/ SendSetEnvironment \/ SendInterrupt \/ SendAbort
  BY <1>6, HeadType DEF Send, SendSetEnvironment, SendInterrupt, SendAbort, Sends, backend,
     QueueType
<1>7. CASE SendFails
  BY <1>7, HeadType, CancelType, AnswerType DEF SendFails, Sends, IInv, PhaseInv,
     CancelUnexpected, QueueType
<1>8. CASE AddQuit
  BY <1>8, CarriedCommand, AppendQueueType, UsedKind DEF AddQuit
<1>9. CASE RunAgain
  BY <1>9, CarriedCommand, AppendQueueType, UsedKind DEF RunAgain
<1>10. CASE CommandCallback
  BY <1>10, AnswerType, CallbackCalls, WindowType DEF CommandCallback, QueueType
<1>11. CASE SharedlibEvent
  BY <1>11 DEF SharedlibEvent, QueueType
<1>12. ASSUME NEW k \in Used, UserAppends(k) PROVE QueueType'
  BY <1>12, NewIsCommand, UsedKind, AppendQueueType DEF UserAppends
<1>13. ASSUME NEW k \in Used, ListenerAppends(k) PROVE QueueType'
  BY <1>13, NewIsCommand, UsedKind, AppendQueueType DEF ListenerAppends
<1>14. CASE QuitDebugger
  BY <1>14, QuitAppends, UsedKind, AppendQueueType
<1>15. CASE \/ StateEmitted \/ Execute \/ AllSent \/ DebuggerReady \/ Reread
            \/ (\E s \in State : BackendDone(s)) \/ ProgramRuns \/ BackendEnds
            \/ UNCHANGED vars
  BY <1>1, <1>15 DEF StateEmitted, Execute, AllSent, DebuggerReady, Reread, BackendDone,
     ProgramRuns, BackendEnds, vars
<1> QED
  BY <1>2, <1>3, <1>4, <1>5, <1>6, <1>7, <1>8, <1>9, <1>10, <1>11, <1>12, <1>13,
     <1>14, <1>15 DEF Next, Return

\* The types of what is known of the backend.
LEMMA BackendTypeStep ==
    ASSUME TypeInv, [Next]_vars
    PROVE  BackendType'
<1> USE DEF TypeInv
<1>1. CASE UNCHANGED backend
  BY <1>1 DEF backend, BackendType
<1>2. CASE Complete
  BY <1>2 DEF Complete, FreeLast, BackendType
<1>3. CASE Send
  <2>1. Head(queue) \in Command
    BY <1>3, HeadType DEF Send, Sends
  <2>2. job' \in Command \cup {none, orphan} /\ reply' \in BOOLEAN /\ runs' \in BOOLEAN
    <3>1. CASE working
      BY <1>3, <3>1 DEF Send, BackendType
    <3>2. CASE ~working
      <4>1. job' = Head(queue) /\ runs' = FALSE
        BY <1>3, <3>2 DEF Send
      <4>2. reply' = (kind[Head(queue)] \in Asks)
        BY <1>3, <3>2 DEF Send
      <4>3. reply' \in BOOLEAN
        <5>1. (kind[Head(queue)] \in Asks) \in BOOLEAN
          BY ONLY TRUE
        <5> QED
          BY ONLY <4>2, <5>1, Zenon
      <4> QED
        BY <2>1, <4>1, <4>3
    <3> QED
      BY <3>1, <3>2
  <2> QED
    BY <1>3, <2>2 DEF Send, BackendType
<1>4. CASE SendAbort \/ BackendEnds
  BY <1>4 DEF SendAbort, BackendEnds, BackendGone, BackendType
<1>5. CASE CommandCallback \/ ProgramRuns
  BY <1>5 DEF CommandCallback, ProgramRuns, BackendType
<1>6. CASE DebuggerReady \/ SharedlibEvent
  BY <1>6 DEF DebuggerReady, SharedlibEvent, Idle, BackendType
<1>7. CASE \/ EmitStateChange \/ StateEmitted \/ OpenWindow \/ CloseWindow \/ Execute
           \/ SendSetEnvironment \/ SendInterrupt \/ SendFails \/ AllSent \/ AddQuit
           \/ RunAgain \/ Reread \/ QuitDebugger \/ (\E s \in State : BackendDone(s))
           \/ (\E k \in Used : UserAppends(k) \/ ListenerAppends(k))
           \/ UNCHANGED vars
  <2>1. UNCHANGED backend
    BY <1>7 DEF EmitStateChange, StateEmitted, OpenWindow, CloseWindow, Execute,
       SendSetEnvironment, SendInterrupt, SendFails, AllSent, AddQuit, RunAgain, Reread,
       QuitDebugger, BackendDone, UserAppends, ListenerAppends, AppendCommand, vars
  <2> QED
    BY <1>1, <2>1
<1> QED
  BY <1>2, <1>3, <1>4, <1>5, <1>6, <1>7 DEF Next, Return

\* The types together, with the count of the links.
LEMMA TypeStep ==
    ASSUME TypeInv, [Next]_vars
    PROVE  TypeInv'
BY PhaseStep, BackendStep, CallsStep, QueueStep, BackendTypeStep, CountStep DEF TypeInv, IInv

\* They hold at the start.
LEMMA TypeInit == Init => TypeInv
<1>1. "user" \in Kind
  BY DEF Kind, AnyKinds
<1>2. [c \in Command |-> "user"] \in [Command -> Kind]
  BY <1>1
<1>3. [c \in Command |-> 0] \in [Command -> Nat]
  OBVIOUS
<1>4. <<>> \in Seq(Command) /\ <<>> \in Seq(Command \cup {none}) /\ Len(<<>>) = 0
  OBVIOUS
<1>5. Init => QueueType
  <2>1. SUFFICES ASSUME Init PROVE QueueType
    OBVIOUS
  <2>2. queue = <<>> /\ last = none /\ insert_command = <<>>
    BY <2>1 DEF Init
  <2>3. queue_state = Stopped /\ stop_on_sharedlib = FALSE /\ crashed = FALSE
    BY <2>1 DEF Init
  <2>4. kind \in [Command -> Kind]
    BY <1>2, <2>1 DEF Init
  <2>5. answers \in [Command -> Nat]
    BY <1>3, <2>1 DEF Init
  <2>6. Stopped \in State
    BY DEF State, Stopped, Running
  <2> QED
    BY <1>4, <2>2, <2>3, <2>4, <2>5, <2>6 DEF QueueType
<1>6. Init => BackendType
  BY DEF Init, BackendType
<1>7. Init => CountInv
  BY <1>4, WindowsEmpty DEF Init, CountInv
<1> QED
  BY <1>5, <1>6, <1>7, InitInv DEF TypeInv

\* They are stronger than the types of the run.
LEMMA TypeInvImplies == TypeInv => TypeOK
<1>1. Seq(Call) \subseteq Seq(FrameType)
  BY DEF Call
<1>2. \A s \in State : PhaseOf(s) \in Session!Phase
  BY DEF PhaseOf, Session!Phase
<1> QED
  BY <1>1, <1>2 DEF TypeInv, IInv, CallsInv, BackendInv, PhaseInv, QueueType, BackendType, TypeOK

\* However deep the calls are nested (a signal emitted from inside the emission
\* of another, a command that ends as it is sent), the fields of the queue and of
\* the backend keep their types; and dma_debugger_queue_emit always finds the
\* link that it takes off insert_command, for there are as many links as
\* emissions in progress.
THEOREM QueueTypes == Spec => []TypeOK
<1>1. TypeInv /\ [Next]_vars => TypeInv'
  BY TypeStep
<1> QED
  BY <1>1, TypeInit, TypeInvImplies, PTL DEF Spec

-----------------------------------------------------------------------------
(* The calls in progress, and the backend                                  *)

\* A backend never reports that the program runs as the end of a command.
ReportInv ==
    /\ at # Running /\ Running \notin ends
    /\ \A i \in DOMAIN stack : stack[i].fn = "ready" => stack[i].state # Running

FrameInv ==
    \A i \in DOMAIN stack :
        /\ stack[i].fn \in {"complete", "callback"} => i = 1
        /\ stack[i].fn \in {"ready", "quit", "rerun"} => i = Len(stack)
        /\ stack[i].fn \in {"callback", "ready"} => working
        /\ stack[i].fn = "open" => working \/ at # Stopped
        /\ stack[i].fn \in {"complete", "emit"} /\ ~working => stack[i].state = at

Stacked(F) == \E i \in DOMAIN stack : stack[i].fn \in F
Only(F) == \A i \in DOMAIN stack : stack[i].fn \in F
Steps == {"complete", "emit", "execute", "send"}

SyncInv == ~working => debugger_state = at \/ Stacked({"complete", "emit", "reread"})

\* An abort is sent before anything else happens.
AbortInv ==
    \A k \in 1 .. Len(queue) : kind[queue[k]] = "abort" =>
        /\ k = 1
        /\ Stacked({"complete", "execute", "send"})
        /\ Only(Steps)
        /\ \A i \in DOMAIN stack : stack[i].fn \in {"complete", "emit"} =>
               i = 1 /\ stack[i].state = debugger_state
        /\ Top("complete") \/ last = none

CallInv == TypeInv /\ ReportInv /\ FrameInv /\ SyncInv /\ AbortInv

\* What cancelling leaves of a queue.
LEMMA KeptIs ==
    ASSUME NEW q \in Seq(Command), NEW s
    PROVE  /\ Kept(q, s) \in Seq(Command) /\ Thins(Kept(q, s), q)
           /\ \A i \in 1 .. Len(Kept(q, s)) : Stays(q, s, Kept(q, s)[i])
           /\ \A a \in 1 .. Len(q) : Stays(q, s, q[a]) =>
                  \E i \in 1 .. Len(Kept(q, s)) : Kept(q, s)[i] = q[a]
<1> DEFINE S == {c \in Command : Stays(q, s, c)}
<1>1. Kept(q, s) \in Seq(Command) /\ Thins(Kept(q, s), q)
  BY FilterIsSeq, FilterThins DEF Kept
<1>2. Range(Kept(q, s)) = Range(q) \cap S
  BY FilterRange DEF Kept
<1>3. DOMAIN q = 1 .. Len(q) /\ DOMAIN Kept(q, s) = 1 .. Len(Kept(q, s))
  BY <1>1, LenProperties
<1> HIDE DEF S
<1>4. ASSUME NEW i \in 1 .. Len(Kept(q, s)) PROVE Stays(q, s, Kept(q, s)[i])
  <2>1. Kept(q, s)[i] \in S
    BY <1>2, <1>3 DEF Range
  <2> QED
    BY <2>1 DEF S
<1>5. ASSUME NEW a \in 1 .. Len(q), Stays(q, s, q[a])
      PROVE  \E i \in 1 .. Len(Kept(q, s)) : Kept(q, s)[i] = q[a]
  BY <1>2, <1>3, <1>5, ElementOfSeq DEF S, Range
<1> QED
  BY <1>1, <1>4, <1>5

\* Putting a command first.
LEMMA PutFirst ==
    ASSUME NEW c \in Command, NEW t \in Seq(Command), NEW q, q = <<c>> \o t
    PROVE  /\ q \in Seq(Command) /\ Len(q) = Len(t) + 1 /\ Len(t) \in Nat
           /\ q[1] = c /\ \A j \in 1 .. Len(t) : q[j + 1] = t[j]
           /\ \A i \in 1 .. Len(q) : i = 1 \/ (i - 1 \in 1 .. Len(t) /\ q[i] = t[i - 1])
<1>1. <<c>> \in Seq(Command) /\ Len(<<c>>) = 1 /\ <<c>>[1] = c
  OBVIOUS
<1>2. /\ q \in Seq(Command) /\ Len(q) = 1 + Len(t)
      /\ \A i \in 1 .. 1 + Len(t) : q[i] = IF i <= 1 THEN <<c>>[i] ELSE t[i - 1]
  BY <1>1, ConcatProperties
<1>3. Len(t) \in Nat
  BY LenProperties
<1> QED
  BY <1>1, <1>2, <1>3

\* Putting a command before the one at place i.
Between(c, s, i) == SubSeq(s, 1, i - 1) \o <<c>> \o SubSeq(s, i, Len(s))

\* It is one longer, and moves what follows by one place.
LEMMA PutBetween ==
    ASSUME NEW c \in Command, NEW s \in Seq(Command), NEW i \in 1 .. Len(s), NEW q,
           q = Between(c, s, i)
    PROVE  /\ q \in Seq(Command) /\ Len(q) = Len(s) + 1 /\ Len(s) \in Nat
           /\ q[i] = c
           /\ \A j \in 1 .. Len(q) : j < i => j \in 1 .. Len(s) /\ q[j] = s[j]
           /\ \A j \in 1 .. Len(q) : j > i => j - 1 \in 1 .. Len(s) /\ q[j] = s[j - 1]
<1> DEFINE a == SubSeq(s, 1, i - 1)
           b == <<c>>
           d == SubSeq(s, i, Len(s))
<1>1. Len(s) \in Nat /\ i \in Nat /\ i >= 1 /\ i <= Len(s) /\ \A j \in 1 .. Len(s) : s[j] \in Command
  BY LenProperties, ElementOfSeq
<1>2. a \in Seq(Command) /\ Len(a) = i - 1 /\ \A j \in 1 .. i - 1 : a[j] = s[j]
  <2>1. \A j \in 1 .. i - 1 : s[j] \in Command
    BY <1>1
  <2>2. /\ a \in Seq(Command) /\ Len(a) = IF 1 <= i - 1 THEN (i - 1) - 1 + 1 ELSE 0
        /\ \A j \in 1 .. (i - 1) - 1 + 1 : a[j] = s[1 + j - 1]
    BY <1>1, <2>1, SubSeqProperties
  <2> HIDE DEF a
  <2> QED
    BY <1>1, <2>2
<1>3. d \in Seq(Command) /\ Len(d) = Len(s) - i + 1 /\ \A j \in 1 .. Len(s) - i + 1 : d[j] = s[i + j - 1]
  <2>1. \A j \in i .. Len(s) : s[j] \in Command
    BY <1>1
  <2>2. /\ d \in Seq(Command) /\ Len(d) = IF i <= Len(s) THEN Len(s) - i + 1 ELSE 0
        /\ \A j \in 1 .. Len(s) - i + 1 : d[j] = s[i + j - 1]
    BY <1>1, <2>1, SubSeqProperties
  <2> HIDE DEF d
  <2> QED
    BY <1>1, <2>2
<1>4. b \in Seq(Command) /\ Len(b) = 1 /\ b[1] = c
  OBVIOUS
<1> HIDE DEF a, b, d
<1> DEFINE e == a \o b
<1>5. /\ e \in Seq(Command) /\ Len(e) = i /\ e[i] = c /\ \A j \in 1 .. i - 1 : e[j] = s[j]
  <2>1. /\ e \in Seq(Command) /\ Len(e) = Len(a) + Len(b)
        /\ \A j \in 1 .. Len(a) + Len(b) : e[j] = IF j <= Len(a) THEN a[j] ELSE b[j - Len(a)]
    BY <1>2, <1>4, ConcatProperties
  <2> HIDE DEF e
  <2> QED
    BY <1>1, <1>2, <1>4, <2>1
<1> HIDE DEF e
<1>6. q = e \o d
  BY DEF a, b, d, e, Between
<1>7. /\ q \in Seq(Command) /\ Len(q) = Len(e) + Len(d)
      /\ \A j \in 1 .. Len(e) + Len(d) : q[j] = IF j <= Len(e) THEN e[j] ELSE d[j - Len(e)]
  <2>1. /\ e \o d \in Seq(Command) /\ Len(e \o d) = Len(e) + Len(d)
        /\ \A j \in 1 .. Len(e) + Len(d) : (e \o d)[j] = IF j <= Len(e) THEN e[j] ELSE d[j - Len(e)]
    BY <1>3, <1>5, ConcatProperties
  <2> QED
    BY ONLY <1>6, <2>1
<1>8. Len(q) = Len(s) + 1
  BY <1>1, <1>3, <1>5, <1>7
<1>9. q[i] = c
  BY <1>1, <1>3, <1>5, <1>7
<1>10. \A j \in 1 .. Len(q) : j < i => j \in 1 .. Len(s) /\ q[j] = s[j]
  BY <1>1, <1>3, <1>5, <1>7, <1>8
<1>11. ASSUME NEW j \in 1 .. Len(q), j > i PROVE j - 1 \in 1 .. Len(s) /\ q[j] = s[j - 1]
  <2>1. j - i \in 1 .. Len(s) - i + 1 /\ i + (j - i) - 1 = j - 1 /\ j - 1 \in 1 .. Len(s)
        /\ ~(j <= Len(e)) /\ j \in 1 .. Len(e) + Len(d)
    BY <1>1, <1>3, <1>5, <1>8, <1>11
  <2>2. q[j] = d[j - i] /\ d[j - i] = s[i + (j - i) - 1]
    BY <1>3, <1>5, <1>7, <2>1
  <2> QED
    BY <2>1, <2>2
<1> QED
  BY <1>1, <1>7, <1>8, <1>9, <1>10, <1>11

\* The same with the definition expanded.
LEMMA PutBefore ==
    ASSUME NEW c \in Command, NEW s \in Seq(Command), NEW i \in 1 .. Len(s), NEW q,
           q = SubSeq(s, 1, i - 1) \o <<c>> \o SubSeq(s, i, Len(s))
    PROVE  /\ q \in Seq(Command) /\ Len(q) = Len(s) + 1 /\ Len(s) \in Nat
           /\ q[i] = c
           /\ \A j \in 1 .. Len(q) : j < i => j \in 1 .. Len(s) /\ q[j] = s[j]
           /\ \A j \in 1 .. Len(q) : j > i => j - 1 \in 1 .. Len(s) /\ q[j] = s[j - 1]
<1>1. q = Between(c, s, i)
  BY DEF Between
<1> QED
  BY ONLY <1>1, c \in Command, s \in Seq(Command), i \in 1 .. Len(s), PutBetween

Appending ==
    AddQuit \/ RunAgain \/ QuitDebugger \/ \E k \in Used : UserAppends(k) \/ ListenerAppends(k)

\* A step that appends nothing leaves what was queued, in its order.
LEMMA NoAppendQueue ==
    ASSUME TypeInv, [Next]_vars, ~Appending
    PROVE  kind' = kind /\ crashed' = crashed /\ Thins(queue', queue)
<1> USE DEF TypeInv
<1>0. queue \in Seq(Command) /\ Thins(queue, queue)
  BY ThinsSelf DEF QueueType
<1>1. queue # <<>> => Tail(queue) \in Seq(Command) /\ Thins(Tail(queue), queue)
  BY <1>0, HeadType, TailThins
<1>2. CASE Complete
  BY <1>0, <1>2, KeptIs DEF Complete, CancelUnexpected
<1>3. CASE Send \/ SendSetEnvironment \/ SendInterrupt \/ SendAbort
  BY <1>1, <1>3 DEF Send, SendSetEnvironment, SendInterrupt, SendAbort, Sends
<1>4. CASE SendFails
  BY <1>1, <1>4, KeptIs, ThinsTrans DEF SendFails, CancelUnexpected, Sends
<1>5. CASE UNCHANGED <<queue, kind, crashed>>
  BY <1>0, <1>5
<1>6. CASE \/ EmitStateChange \/ StateEmitted \/ OpenWindow \/ CloseWindow \/ Execute
           \/ AllSent \/ CommandCallback \/ DebuggerReady \/ Reread
           \/ (\E s \in State : BackendDone(s)) \/ ProgramRuns \/ SharedlibEvent
           \/ BackendEnds \/ UNCHANGED vars
  <2>1. UNCHANGED <<queue, kind, crashed>>
    BY <1>6 DEF EmitStateChange, StateEmitted, OpenWindow, CloseWindow, Execute, AllSent,
       CommandCallback, DebuggerReady, Reread, BackendDone, ProgramRuns, SharedlibEvent,
       BackendEnds, vars, self
  <2> QED
    BY <1>5, <2>1
<1> QED
  BY <1>2, <1>3, <1>4, <1>6 DEF Next, Return, Appending

\* The three places of an append.
PutsFirst(c, k) ==
    /\ k \in Asynchronous \cup HighPriority
    /\ \E t \in Seq(Command) :
        /\ queue' = <<c>> \o t
        /\ \/ GoingTo(k) = Busy /\ t = queue /\ queue_state' = queue_state
           \/ /\ GoingTo(k) # Busy /\ t = Kept(queue, GoingTo(k))
              /\ queue_state' = KeptState(queue, GoingTo(k))
    /\ crashed' = crashed

PutsBefore(c, k) ==
    /\ k \notin Asynchronous \cup HighPriority
    /\ Link # none
    /\ \/ /\ ~In(Link, queue) /\ queue' = queue /\ crashed' = TRUE
       \/ /\ crashed' = crashed
          /\ \E i \in 1 .. Len(queue) :
                /\ queue[i] = Link
                /\ queue' = SubSeq(queue, 1, i - 1) \o <<c>> \o SubSeq(queue, i, Len(queue))
    /\ queue_state' = queue_state

PutsLast(c, k) ==
    /\ k \notin Asynchronous \cup HighPriority
    /\ Link = none
    /\ queue' = Append(queue, c)
    /\ queue_state' = IF GoingTo(k) # Busy THEN GoingTo(k) ELSE queue_state
    /\ crashed' = crashed

\* What dma_debugger_queue_append does to the queue.
LEMMA AppendQueue ==
    ASSUME TypeInv, NEW c \in Command, NEW k \in Kind, NEW rest, NEW refused,
           AppendCommand(c, k, rest, refused)
    PROVE  /\ last' = last /\ insert_command' = insert_command
           /\ debugger_state' = debugger_state /\ at' = at /\ working' = working
           /\ ends' = ends /\ runs' = runs /\ job' = job /\ reply' = reply
           /\ \/ /\ CheckedState(k) \notin Need(k)
                 /\ queue' = queue /\ kind' = kind /\ crashed' = crashed
                 /\ queue_state' = queue_state
              \/ /\ CheckedState(k) \in Need(k)
                 /\ kind' = [kind EXCEPT ![c] = k]
                 /\ PutsFirst(c, k) \/ PutsBefore(c, k) \/ PutsLast(c, k)
<1>1. /\ last' = last /\ insert_command' = insert_command
      /\ debugger_state' = debugger_state /\ at' = at /\ working' = working
      /\ ends' = ends /\ runs' = runs /\ job' = job /\ reply' = reply
  BY DEF AppendCommand, backend
<1>2. CASE CheckedState(k) \notin Need(k)
  BY <1>1, <1>2 DEF AppendCommand
<1>3. CASE CheckedState(k) \in Need(k)
  <2>0. queue \in Seq(Command)
    BY DEF TypeInv, QueueType
  <2>1. kind' = [kind EXCEPT ![c] = k]
    BY <1>3 DEF AppendCommand
  <2>2. CASE AppendFirst(c, k, rest)
    <3>1. k \in Asynchronous \cup HighPriority /\ crashed' = crashed
      BY <2>2 DEF AppendFirst
    <3>2. GoingTo(k) # Busy => PutsFirst(c, k)
      BY <2>0, <2>2, <3>1, KeptIs DEF AppendFirst, PutsFirst
    <3>3. GoingTo(k) = Busy => PutsFirst(c, k)
      BY <2>0, <2>2, <3>1 DEF AppendFirst, PutsFirst
    <3>4. PutsFirst(c, k)
      BY <3>2, <3>3
    <3> QED
      BY <1>1, <1>3, <2>1, <3>4
  <2>3. CASE AppendBefore(c, k, rest)
    <3>1. k \notin Asynchronous \cup HighPriority /\ Link # none /\ queue_state' = queue_state
      BY <2>3 DEF AppendBefore
    <3>2. ~In(Link, queue) => PutsBefore(c, k)
      BY <2>3, <3>1 DEF AppendBefore, PutsBefore
    <3>3. ASSUME In(Link, queue) PROVE PutsBefore(c, k)
      <4> DEFINE i == CHOOSE j \in DOMAIN queue : queue[j] = Link
      <4>1. i \in 1 .. Len(queue) /\ queue[i] = Link
        BY <2>0, <3>3, LenProperties DEF In
      <4>2. /\ queue' = SubSeq(queue, 1, i - 1) \o <<c>> \o SubSeq(queue, i, Len(queue))
            /\ crashed' = crashed
        BY <2>3, <3>3 DEF AppendBefore
      <4> HIDE DEF i
      <4> QED
        BY <3>1, <4>1, <4>2 DEF PutsBefore
    <3>4. PutsBefore(c, k)
      BY <3>2, <3>3
    <3> QED
      BY <1>1, <1>3, <2>1, <3>4
  <2>4. CASE AppendLast(c, k, rest)
    <3>1. PutsLast(c, k)
      BY <2>4 DEF AppendLast, PutsLast
    <3> QED
      BY <1>1, <1>3, <2>1, <3>1
  <2> QED
    BY <1>3, <2>2, <2>3, <2>4 DEF AppendCommand
<1> QED
  BY <1>2, <1>3

\* The command that each append adds.
LEMMA Appends ==
    ASSUME TypeInv, Appending
    PROVE  \E c \in Command, k \in Kind :
               /\ \E rest, refused : AppendCommand(c, k, rest, refused)
               /\ \/ AddQuit /\ c = stack[1].cmd /\ k = "quit" /\ stack[1].fn = "quit"
                  \/ RunAgain /\ c = stack[1].cmd /\ k = "run" /\ stack[1].fn = "rerun"
                  \/ QuitDebugger /\ c = New /\ New \in Unused /\ k = "interrupt" /\ stack = <<>>
                  \/ UserAppends(k) /\ k \in Used /\ c = New /\ New \in Unused /\ stack = <<>>
                  \/ /\ ListenerAppends(k) /\ k \in Used /\ c = New /\ New \in Unused
                     /\ stack[1].fn = "window"
<1>1. CASE AddQuit
  BY <1>1, TopIs, CarriedCommand, UsedKind DEF AddQuit, TypeInv, IInv
<1>2. CASE RunAgain
  BY <1>2, TopIs, CarriedCommand, UsedKind DEF RunAgain, TypeInv, IInv
<1>3. Unused # {} => New \in Unused /\ New \in Command
  BY DEF New, Unused
<1>4. CASE QuitDebugger
  <2>1. Unused # {}
    <3>1. SUFFICES ASSUME Unused = {} PROVE FALSE
      OBVIOUS
    <3> QED
      BY <1>4, <3>1, FS_EmptySet DEF QuitDebugger
  <2>2. stack = <<>> /\ \E next : AppendCommand(New, "interrupt", next, next)
    BY <1>4 DEF QuitDebugger
  <2> QED
    BY <1>3, <1>4, <2>1, <2>2, UsedKind
<1>5. ASSUME NEW k \in Used, UserAppends(k)
      PROVE  AppendCommand(New, k, <<>>, <<>>) /\ New \in Unused /\ New \in Command /\ stack = <<>>
  BY <1>3, <1>5 DEF UserAppends
<1>6. ASSUME NEW k \in Used, ListenerAppends(k)
      PROVE  /\ \E refused : AppendCommand(New, k, stack, refused)
             /\ New \in Unused /\ New \in Command /\ stack[1].fn = "window"
  BY <1>3, <1>6, ListenerCalls DEF ListenerAppends, TypeInv
<1> QED
  BY <1>1, <1>2, <1>4, <1>5, <1>6, UsedKind DEF Appending

\* What is queued after an append.
LEMMA AppendOrigin ==
    ASSUME TypeInv, NEW c \in Command, NEW k \in Kind, NEW rest, NEW refused,
           AppendCommand(c, k, rest, refused)
    PROVE  /\ \A i \in 1 .. Len(queue') :
                  queue'[i] = c \/ \E a \in 1 .. Len(queue) : queue'[i] = queue[a]
           /\ \A d \in Command : d # c => kind'[d] = kind[d]
           /\ kind' = kind \/ kind'[c] = k
           /\ kind'[c] \in {k, kind[c]}
<1>0. queue \in Seq(Command) /\ kind \in [Command -> Kind]
  BY DEF TypeInv, QueueType
<1>1. \/ queue' = queue
      \/ PutsFirst(c, k) \/ PutsBefore(c, k) \/ PutsLast(c, k)
  BY AppendQueue
<1>2. kind' = kind \/ kind' = [kind EXCEPT ![c] = k]
  BY AppendQueue
<1>3. /\ \A d \in Command : d # c => kind'[d] = kind[d]
      /\ kind' = kind \/ kind'[c] = k
      /\ kind'[c] \in {k, kind[c]}
  BY <1>0, <1>2
<1>4. \A i \in 1 .. Len(queue') :
          queue'[i] = c \/ \E a \in 1 .. Len(queue) : queue'[i] = queue[a]
  <2>1. CASE queue' = queue
    BY <2>1
  <2>2. CASE PutsFirst(c, k)
    <3>1. PICK t \in Seq(Command) : /\ queue' = <<c>> \o t
                                    /\ t = queue \/ t = Kept(queue, GoingTo(k))
      BY <2>2 DEF PutsFirst
    <3>2. Thins(t, queue)
      BY <1>0, <3>1, KeptIs, ThinsSelf
    <3>3. \A i \in 1 .. Len(t) : \E a \in 1 .. Len(queue) : t[i] = queue[a]
      BY <3>2 DEF Thins
    <3>4. queue'[1] = c /\ \A i \in 1 .. Len(queue') :
              i = 1 \/ (i - 1 \in 1 .. Len(t) /\ queue'[i] = t[i - 1])
      BY <3>1, PutFirst
    <3>5. ASSUME NEW i \in 1 .. Len(queue')
          PROVE  queue'[i] = c \/ \E a \in 1 .. Len(queue) : queue'[i] = queue[a]
      BY <3>3, <3>4
    <3> QED
      BY <3>5
  <2>3. CASE PutsBefore(c, k)
    <3>1. CASE queue' = queue
      BY <3>1
    <3>2. ASSUME NEW i \in 1 .. Len(queue),
                 queue' = SubSeq(queue, 1, i - 1) \o <<c>> \o SubSeq(queue, i, Len(queue))
          PROVE  \A j \in 1 .. Len(queue') :
                     queue'[j] = c \/ \E a \in 1 .. Len(queue) : queue'[j] = queue[a]
      <4>1. /\ Len(queue') \in Nat /\ i \in Nat /\ queue'[i] = c
            /\ \A j \in 1 .. Len(queue') : j < i => j \in 1 .. Len(queue) /\ queue'[j] = queue[j]
            /\ \A j \in 1 .. Len(queue') : j > i =>
                   j - 1 \in 1 .. Len(queue) /\ queue'[j] = queue[j - 1]
        BY <1>0, <3>2, PutBefore
      <4>2. \A j \in 1 .. Len(queue') : j < i \/ j = i \/ j > i
        BY <4>1
      <4> QED
        BY <4>1, <4>2
    <3> QED
      BY <2>3, <3>1, <3>2 DEF PutsBefore
  <2>4. CASE PutsLast(c, k)
    BY <1>0, <2>4, AppendProperties, LenProperties DEF PutsLast
  <2> QED
    BY <1>1, <2>1, <2>2, <2>3, <2>4
<1> QED
  BY <1>3, <1>4

\* No call is lost or gained below the calls that a step makes.
LEMMA FramePuts ==
    ASSUME FrameInv, ReportInv, NEW n \in Nat, NEW m \in {0, 1}, Puts(n, m),
           m = 0 => \A i \in DOMAIN stack : i = 1 => stack[i].fn \notin {"complete", "callback"},
           working' = working, at' = at, ends' = ends,
           \A i \in 1 .. n :
               /\ stack'[i].fn \notin {"callback", "ready", "quit", "rerun", "open"}
               /\ stack'[i].fn = "complete" => i = 1
               /\ stack'[i].fn \in {"complete", "emit"} /\ ~working => stack'[i].state = at
    PROVE  FrameInv' /\ ReportInv'
<1>1. /\ DOMAIN stack = 1 .. Len(stack) /\ DOMAIN stack' = 1 .. Len(stack')
      /\ Len(stack) \in Nat /\ Len(stack) >= m /\ Len(stack') = Len(stack) + n - m
      /\ \A i \in DOMAIN stack' : i > n =>
             i + m - n \in DOMAIN stack /\ i + m - n > m /\ stack'[i] = stack[i + m - n]
  BY DEF Puts, Below
<1>2. ASSUME NEW i \in DOMAIN stack'
      PROVE  /\ stack'[i].fn \in {"complete", "callback"} => i = 1
             /\ stack'[i].fn \in {"ready", "quit", "rerun"} => i = Len(stack')
             /\ stack'[i].fn \in {"callback", "ready"} => working
             /\ stack'[i].fn = "open" => working \/ at # Stopped
             /\ stack'[i].fn \in {"complete", "emit"} /\ ~working => stack'[i].state = at
             /\ stack'[i].fn = "ready" => stack'[i].state # Running
  <2>1. CASE i \in 1 .. n
    BY <2>1
  <2>2. CASE i \notin 1 .. n
    <3> DEFINE j == i + m - n
    <3>1. i > n /\ i \in Nat
      BY <1>1, <2>2
    <3>2. j \in DOMAIN stack /\ j > m /\ stack'[i] = stack[j]
      BY <1>1, <3>1
    <3>3. j = Len(stack) => i = Len(stack')
      <4>1. Len(stack') = Len(stack) + n - m /\ i \in Int /\ n \in Int /\ m \in Int
        BY <1>1, <3>1
      <4>2. i + m - n = Len(stack) => i = Len(stack) + n - m
        BY ONLY <1>1, <4>1
      <4> QED
        BY <4>1, <4>2
    <3>4. stack[j].fn \in {"complete", "callback"} => j = 1 /\ m = 0
      BY <3>2 DEF FrameInv
    <3>5. stack[j].fn \notin {"complete", "callback"}
      BY <3>2, <3>4
    <3>6. /\ stack[j].fn \in {"ready", "quit", "rerun"} => j = Len(stack)
          /\ stack[j].fn \in {"callback", "ready"} => working
          /\ stack[j].fn = "open" => working \/ at # Stopped
          /\ stack[j].fn \in {"complete", "emit"} /\ ~working => stack[j].state = at
      BY <3>2 DEF FrameInv
    <3>7. stack[j].fn = "ready" => stack[j].state # Running
      BY <3>2 DEF ReportInv
    <3> HIDE DEF j
    <3> QED
      BY <3>2, <3>3, <3>5, <3>6, <3>7
  <2> QED
    BY <2>1, <2>2
<1> QED
  BY <1>1, <1>2 DEF FrameInv, ReportInv

\* The states the backend may be in after a command never say that the program
\* runs.
LEMMA EndsOfRunning ==
    ASSUME NEW k, NEW s \in State, s # Running
    PROVE  Running \notin EndsOf(k, s)
BY DEF EndsOf, Running, Stopped, Started, Loaded, PStopped

\* What listeners add is neither asynchronous nor urgent, and sets no state.
LEMMA AsyncKinds ==
    /\ "quit" \notin Asynchronous /\ "run" \notin Asynchronous
    /\ \A x : \A k \in Adds(x) : k \notin Asynchronous \cup HighPriority \cup {"set_environment"}
    /\ \A x : \A k \in Adds(x) : GoingTo(k) = Busy /\ Stopped \notin Need(k)
<1>1. \A x : \A k \in Adds(x) : k \in BreakKinds \cup FrameKinds \cup StoppedKinds \cup AnyKinds
                                     \cup {"remove_break", "list_break"}
  BY DEF Adds, BreakKinds, FrameKinds, StoppedKinds, AnyKinds, Asks
<1>2. ASSUME NEW k \in BreakKinds \cup FrameKinds \cup StoppedKinds \cup AnyKinds
                              \cup {"remove_break", "list_break"}
      PROVE  /\ k \notin Asynchronous \cup HighPriority \cup {"set_environment"}
             /\ GoingTo(k) = Busy /\ Stopped \notin Need(k)
  <2>1. k \notin Asynchronous \cup HighPriority \cup {"set_environment"}
    BY DEF BreakKinds, FrameKinds, StoppedKinds, AnyKinds, Asynchronous, HighPriority
  <2>2. k \notin RunKinds /\ k \notin {"quit", "abort", "unload", "load", "exit", "interrupt"}
        /\ k \notin {"load", "attach"}
    BY DEF BreakKinds, FrameKinds, StoppedKinds, AnyKinds, RunKinds, StepKinds
  <2>3. GoingTo(k) = Busy
    BY <2>2 DEF GoingTo
  <2>4. Stopped \notin Need(k)
    BY <2>2 DEF BreakKinds, FrameKinds, StoppedKinds, AnyKinds, Need, Stopped, Started, Loaded,
       PStopped, Running
  <2> QED
    BY <2>1, <2>3, <2>4
<1> QED
  BY <1>1, <1>2 DEF Asynchronous

\* The places of the calls on the stack, step by step.
LEMMA FrameStep ==
    ASSUME CallInv, [Next]_vars
    PROVE  FrameInv' /\ ReportInv'
<1> USE DEF CallInv, TypeInv
<1>0. /\ CallsInv /\ GetState = (IF working THEN Busy ELSE at) /\ at \in State
      /\ debugger_state \in State
  BY StateNow DEF IInv
<1>1. CASE UNCHANGED vars
  BY <1>1 DEF vars, backend, FrameInv, ReportInv
<1>2. CASE Complete
  <2>1. /\ Puts(2, 1) /\ stack[1].fn = "complete"
        /\ stack'[1].fn = "emit" /\ stack'[1].state = stack[1].state
        /\ stack'[2].fn = "execute"
    BY <1>2, CompleteCalls
  <2>2. 1 \in DOMAIN stack
    BY <2>1 DEF Puts
  <2>3. ~working => stack[1].state = at
    BY <2>1, <2>2 DEF FrameInv
  <2>4. working' = working /\ at' = at /\ ends' = ends
    BY <1>2 DEF Complete
  <2>5. \A i \in 1 .. 2 : i = 1 \/ i = 2
    OBVIOUS
  <2> QED
    BY <2>1, <2>3, <2>4, <2>5, FramePuts
<1>3. CASE EmitStateChange
  BY <1>3, EmitCalls, FramePuts DEF EmitStateChange, backend, FrameInv, ReportInv
<1>4. CASE StateEmitted \/ AllSent
  BY <1>4, ReturnCalls, FramePuts DEF StateEmitted, AllSent, backend
<1>5. CASE OpenWindow
  <2>1. Puts(1, 1) /\ stack'[1].fn = "window" /\ working' = working /\ at' = at /\ ends' = ends
    BY <1>5, OpenCalls DEF OpenWindow, backend
  <2> QED
    BY <2>1, FramePuts
<1>6. CASE CloseWindow
  BY <1>6, CloseCalls, FramePuts DEF CloseWindow, backend
<1>7. CASE Execute
  <2>1. working' = working /\ at' = at /\ ends' = ends
    BY <1>7 DEF Execute, backend
  <2>2. CASE Puts(1, 1) /\ stack'[1].fn = "send"
    BY <2>1, <2>2, FramePuts
  <2>3. CASE Puts(2, 1) /\ stack'[1].fn = "complete" /\ stack'[1].state = at /\ stack'[2].fn = "send"
    BY <2>1, <2>3, FramePuts
  <2> QED
    BY <1>7, <2>2, <2>3, ExecuteCalls
<1>8. CASE Send
  <2>1. stack' = stack /\ at' = at /\ working' = TRUE
    BY <1>8 DEF Send
  <2>2. FrameInv'
    BY <2>1 DEF FrameInv
  <2>3. ends' = ends \/ ends' = EndsOf(kind[Head(queue)], at)
    BY <1>8 DEF Send
  <2>4. Running \notin EndsOf(kind[Head(queue)], at)
    BY <1>0, EndsOfRunning DEF ReportInv
  <2> QED
    BY <2>1, <2>2, <2>3, <2>4 DEF ReportInv
<1>9. CASE SendSetEnvironment
  <2>1. working' = working /\ at' = at /\ ends' = ends /\ stack[1].fn = "send"
    BY <1>9, SetEnvironmentCalls DEF SendSetEnvironment, backend
  <2>2. CASE Puts(0, 0)
    BY <2>1, <2>2, FramePuts
  <2>3. CASE Puts(1, 0) /\ stack'[1].fn = "complete" /\ stack'[1].state = at
    BY <2>1, <2>3, FramePuts
  <2> QED
    BY <1>9, <2>2, <2>3, SetEnvironmentCalls
<1>10. CASE SendInterrupt \/ SendFails
  BY <1>10 DEF SendInterrupt, SendFails, backend, FrameInv, ReportInv
<1>11. CASE SendAbort
  <2>1. /\ Puts(2, 0) /\ stack'[1].fn = "emit" /\ stack'[1].state = Stopped
        /\ stack'[2].fn = "reread" /\ stack[1].fn = "send"
    BY <1>11, AbortCalls
  <2>2. at' = Stopped /\ ends' = {}
    BY <1>11 DEF SendAbort, BackendGone
  <2>3. Only(Steps) /\ \A i \in DOMAIN stack : stack[i].fn \in {"complete", "emit"} => i = 1
    BY <1>11 DEF SendAbort, Sends, QueueType, AbortInv
  <2>4. ASSUME NEW i \in DOMAIN stack', i > 2
        PROVE  stack'[i].fn \in {"execute", "send"}
    BY <2>1, <2>3, <2>4 DEF Puts, Below, Only, Steps
  <2>5. \A i \in DOMAIN stack' : i = 1 \/ i = 2 \/ i > 2
    BY <2>1 DEF Puts
  <2>6. FrameInv'
    BY <2>1, <2>2, <2>4, <2>5 DEF FrameInv
  <2>7. ReportInv'
    BY <2>1, <2>2, <2>4, <2>5 DEF ReportInv, Stopped, Running
  <2> QED
    BY <2>6, <2>7
<1>12. CASE AddQuit \/ RunAgain
  <2>1. /\ stack # <<>> /\ stack[1].fn # "window" /\ working' = working /\ at' = at /\ ends' = ends
        /\ \E c, k : AppendCommand(c, k, Tail(stack), Tail(stack)) /\ k \notin Asynchronous
    <3>1. CASE AddQuit
      <4>1. stack # <<>> /\ stack[1].fn = "quit"
        BY <1>0, <3>1, TopIs DEF AddQuit
      <4>2. AppendCommand(Head(stack).cmd, "quit", Tail(stack), Tail(stack))
        BY <3>1 DEF AddQuit
      <4>3. working' = working /\ at' = at /\ ends' = ends
        BY <4>2 DEF AppendCommand, backend
      <4> QED
        BY <4>1, <4>2, <4>3, AsyncKinds
    <3>2. CASE RunAgain
      <4>1. stack # <<>> /\ stack[1].fn = "rerun"
        BY <1>0, <3>2, TopIs DEF RunAgain
      <4>2. AppendCommand(Head(stack).cmd, "run", Tail(stack), Tail(stack))
        BY <3>2 DEF RunAgain
      <4>3. working' = working /\ at' = at /\ ends' = ends
        BY <4>2 DEF AppendCommand, backend
      <4> QED
        BY <4>1, <4>2, <4>3, AsyncKinds
    <3> QED
      BY <1>12, <3>1, <3>2
  <2>2. \/ Puts(1, 1) /\ stack'[1].fn = "execute"
        \/ Puts(0, 1)
        \/ ~working /\ Puts(1, 1) /\ stack'[1].fn = "complete" /\ stack'[1].state = at
    BY <2>1, FinalAppend
  <2> QED
    BY <2>1, <2>2, FramePuts
<1>13. CASE CommandCallback
  <2>1. working' = working /\ at' = at /\ ends' = ends
    BY <1>13 DEF CommandCallback
  <2>2. (Puts(1, 1) /\ stack'[1].fn = "window") \/ Puts(0, 1)
    BY <1>13, CallbackCalls
  <2> QED
    BY <2>1, <2>2, FramePuts
<1>14. CASE DebuggerReady
  <2>1. /\ stack[1].fn = "ready" /\ Puts(1, 1)
        /\ stack'[1].fn = "complete" /\ stack'[1].state = at' /\ at' = stack[1].state
    BY <1>14, ReadyCalls
  <2>2. at' # Running /\ ends' = {}
    BY <1>14, <2>1 DEF ReportInv, DebuggerReady, Idle, Puts
  <2>3. Len(stack') = 1 /\ DOMAIN stack' = 1 .. 1
    BY <2>1 DEF FrameInv, Puts, Below
  <2>4. \A i \in DOMAIN stack' : i = 1
    BY <2>3
  <2> QED
    BY <2>1, <2>2, <2>4 DEF FrameInv, ReportInv
<1>15. CASE Reread
  <2>1. working' = working /\ at' = at /\ ends' = ends
    BY <1>15 DEF Reread, backend
  <2>2. \/ Puts(0, 1)
        \/ ~working /\ Puts(1, 1) /\ stack'[1].fn = "complete" /\ stack'[1].state = at
    BY <1>15, RereadCalls
  <2> QED
    BY <2>1, <2>2, FramePuts
<1>16. ASSUME NEW k \in Used, UserAppends(k) PROVE FrameInv' /\ ReportInv'
  BY <1>16, UserCalls DEF UserAppends, AppendCommand, backend, SyncInv, Stacked, FrameInv,
     ReportInv
<1>17. ASSUME NEW k \in Used, ListenerAppends(k) PROVE FrameInv' /\ ReportInv'
  <2>1. /\ stack[1].fn = "window" /\ k \notin Asynchronous
        /\ working' = working /\ at' = at /\ ends' = ends
    BY <1>17, ListenerCalls, AsyncKinds DEF ListenerAppends, AppendCommand, backend
  <2>2. CASE Puts(1, 0) /\ stack'[1].fn = "execute"
    BY <2>1, <2>2, FramePuts
  <2>3. CASE Puts(1, 1) /\ stack'[1].fn = "window"
    BY <2>1, <2>3, FramePuts
  <2>4. CASE /\ ~working /\ Puts(2, 1) /\ stack'[1].fn = "complete" /\ stack'[1].state = at
             /\ stack'[2].fn = "window"
    BY <2>1, <2>4, FramePuts
  <2> QED
    BY <1>17, <2>1, <2>2, <2>3, <2>4, ListenerCalls
<1>18. CASE QuitDebugger
  <2>1. /\ stack = <<>> /\ DOMAIN stack' = 1 .. Len(stack') /\ Len(stack') \in 1 .. 3
        /\ working' = working /\ at' = at /\ ends' = ends
    <3>1. working' = working /\ at' = at /\ ends' = ends
      BY <1>18 DEF QuitDebugger, AppendCommand, backend
    <3>2. /\ stack = <<>> /\ DOMAIN stack' = 1 .. Len(stack') /\ Len(stack') \in {1, 2, 3}
      BY <1>18, QuitCalls
    <3> QED
      BY ONLY <3>1, <3>2
  <2>2. ~working => debugger_state = at
    BY <2>1 DEF SyncInv, Stacked
  <2>3. \A i \in DOMAIN stack' :
            \/ i = Len(stack') /\ stack'[i].fn = "quit"
            \/ stack'[i].fn = "execute"
            \/ stack'[i].fn = "complete" /\ i = 1 /\ (~working => stack'[i].state = at)
    BY <1>18, <2>1, <2>2, QuitCalls
  <2> QED
    BY <2>1, <2>3 DEF FrameInv, ReportInv
<1>19. ASSUME NEW s \in State, BackendDone(s) PROVE FrameInv' /\ ReportInv'
  <2>1. /\ working /\ s \in ends /\ DOMAIN stack' = 1 .. Len(stack') /\ Len(stack') \in Nat
        /\ stack'[Len(stack')].fn = "ready" /\ stack'[Len(stack')].state = s
        /\ \A i \in 1 .. Len(stack') : i < Len(stack') =>
               \/ i = 1 /\ stack'[i].fn = "callback"
               \/ stack'[i].fn = "open"
        /\ working' = working /\ at' = at /\ ends' = ends
    <3>1. working' = working /\ at' = at /\ ends' = ends
      BY <1>19 DEF BackendDone, backend
    <3>2. Len(stack') \in Nat
      BY <1>19, DoneCalls
    <3> QED
      BY <1>19, <3>1, <3>2, DoneCalls
  <2>2. s # Running
    BY <2>1 DEF ReportInv
  <2>3. \A i \in DOMAIN stack' :
            \/ i = Len(stack') /\ stack'[i].fn = "ready" /\ stack'[i].state = s
            \/ i = 1 /\ stack'[i].fn = "callback"
            \/ stack'[i].fn = "open"
    BY <2>1
  <2> QED
    BY <2>1, <2>2, <2>3 DEF FrameInv, ReportInv
<1>20. CASE ProgramRuns
  BY <1>20, RunsCalls DEF ProgramRuns, FrameInv, ReportInv
<1>21. CASE SharedlibEvent
  <2>1. at' = PStopped /\ ends' = {}
    BY <1>21 DEF SharedlibEvent, Idle
  <2>2. \A i \in DOMAIN stack' :
            \/ i = 1 /\ stack'[i].fn = "complete" /\ stack'[i].state = PStopped
            \/ stack'[i].fn = "open"
            \/ i = Len(stack') /\ stack'[i].fn = "rerun"
    <3>1. /\ DOMAIN stack' = 1 .. 3 /\ Len(stack') = 3
          /\ stack'[1].fn = "complete" /\ stack'[1].state = PStopped
          /\ stack'[2].fn = "open" /\ stack'[3].fn = "rerun"
      BY <1>21, SharedlibCalls
    <3>2. \A i \in 1 .. 3 : i = 1 \/ i = 2 \/ i = 3
      OBVIOUS
    <3> QED
      BY ONLY <3>1, <3>2
  <2> QED
    BY <2>1, <2>2 DEF FrameInv, ReportInv, PStopped, Running, Stopped
<1>22. CASE BackendEnds
  <2>1. at' = Stopped /\ ends' = {}
    BY <1>22 DEF BackendEnds, BackendGone
  <2>2. \A i \in DOMAIN stack' :
            \/ stack'[i].fn = "emit" /\ stack'[i].state = Stopped
            \/ stack'[i].fn = "reread"
    <3>1. /\ DOMAIN stack' = 1 .. 2 /\ stack'[1].fn = "emit" /\ stack'[1].state = Stopped
          /\ stack'[2].fn = "reread"
      BY <1>22, EndsCalls
    <3>2. \A i \in 1 .. 2 : i = 1 \/ i = 2
      OBVIOUS
    <3> QED
      BY <3>1, <3>2
  <2> QED
    BY <2>1, <2>2 DEF FrameInv, ReportInv, Running, Stopped
<1> QED
  BY <1>1, <1>2, <1>3, <1>4, <1>5, <1>6, <1>7, <1>8, <1>9, <1>10, <1>11, <1>12, <1>13,
     <1>14, <1>15, <1>16, <1>17, <1>18, <1>19, <1>20, <1>21, <1>22 DEF Next, Return

\* Calls below the top stay.
LEMMA StackedPuts ==
    ASSUME NEW F, NEW n, NEW m \in {0, 1}, Puts(n, m), Stacked(F),
           m = 1 => \A i \in DOMAIN stack : i = 1 => stack[i].fn \notin F
    PROVE  Stacked(F)'
<1>1. PICK i \in DOMAIN stack : stack[i].fn \in F
  BY DEF Stacked
<1>2. i > m
  BY <1>1 DEF Puts
<1>3. i + n - m \in DOMAIN stack' /\ stack'[i + n - m] = stack[i]
  BY <1>2 DEF Puts, Below
<1> QED
  BY <1>1, <1>3 DEF Stacked

\* A call that the step pushes.
LEMMA NewStacked ==
    ASSUME NEW F, NEW n \in Nat, NEW m, Puts(n, m), NEW i \in 1 .. n, stack'[i].fn \in F
    PROVE  Stacked(F)'
BY DEF Puts, Stacked

\* debugger_state follows the backend's state.
LEMMA SyncStep ==
    ASSUME CallInv, [Next]_vars
    PROVE  SyncInv'
<1> USE DEF CallInv, TypeInv
<1> DEFINE F == {"complete", "emit", "reread"}
<1>0. /\ CallsInv /\ GetState = (IF working THEN Busy ELSE at) /\ at \in State
      /\ debugger_state \in State
  BY StateNow DEF IInv
<1>1. ASSUME working' = working, at' = at, debugger_state' = debugger_state,
             Stacked(F) => Stacked(F)'
      PROVE  SyncInv'
  BY <1>1 DEF SyncInv
<1>2. ASSUME Stacked(F)'
      PROVE  SyncInv'
  BY <1>2 DEF SyncInv
<1> HIDE DEF F
<1>3. "complete" \in F /\ "emit" \in F /\ "reread" \in F
      /\ \A fn : fn \in F => fn \in {"complete", "emit", "reread"}
  BY DEF F
<1>4. CASE UNCHANGED vars
  BY <1>1, <1>4 DEF vars, backend, self, Stacked
<1>5. CASE Complete
  BY <1>2, <1>3, <1>5, CompleteCalls, NewStacked
<1>6. CASE EmitStateChange
  <2>1. stack[1].fn = "emit" /\ stack # <<>>
    BY <1>6, EmitCalls DEF EmitStateChange, Top
  <2>2. 1 \in DOMAIN stack /\ Stacked(F)
    BY <1>0, <1>3, <2>1 DEF CallsInv, Stacked
  <2>3. CASE stack' = stack
    BY <1>2, <2>2, <2>3 DEF Stacked
  <2>4. CASE Puts(1, 0)
    BY <1>2, <2>2, <2>4, StackedPuts
  <2> QED
    BY <1>6, <2>3, <2>4, EmitCalls
<1>7. CASE StateEmitted
  BY <1>7, ReturnCalls DEF StateEmitted, backend, self, FrameInv, Puts, SyncInv
<1>8. CASE OpenWindow \/ CloseWindow \/ Execute \/ AllSent \/ CommandCallback
  <2>1. working' = working /\ at' = at /\ debugger_state' = debugger_state
    BY <1>8 DEF OpenWindow, CloseWindow, Execute, AllSent, CommandCallback, backend, self
  <2>2. \/ stack[1].fn \in {"open", "window", "execute", "send", "callback"}
    BY <1>8, OpenCalls, CloseCalls, ExecuteCalls, ReturnCalls, CallbackCalls
  <2>3. Puts(0, 1) \/ Puts(1, 1) \/ Puts(2, 1)
    BY <1>8, OpenCalls, CloseCalls, ExecuteCalls, ReturnCalls, CallbackCalls
  <2>4. stack[1].fn \notin F
    BY <1>3, <2>2
  <2> QED
    BY <1>1, <2>1, <2>3, <2>4, StackedPuts
<1>9. CASE Send
  BY <1>9 DEF Send, SyncInv
<1>10. CASE SendSetEnvironment
  <2>1. working' = working /\ at' = at /\ debugger_state' = debugger_state
    BY <1>10 DEF SendSetEnvironment, backend
  <2>2. Puts(0, 0) \/ Puts(1, 0)
    BY <1>10, SetEnvironmentCalls
  <2> QED
    BY <1>1, <2>1, <2>2, StackedPuts
<1>11. CASE SendInterrupt \/ SendFails
  BY <1>1, <1>11 DEF SendInterrupt, SendFails, backend, Stacked
<1>12. CASE SendAbort
  BY <1>2, <1>3, <1>12, AbortCalls, NewStacked
<1>13. CASE AddQuit \/ RunAgain
  <2>1. /\ stack # <<>> /\ stack[1].fn \in {"quit", "rerun"}
        /\ \E c, k : AppendCommand(c, k, Tail(stack), Tail(stack))
    BY <1>0, <1>13, TopIs DEF AddQuit, RunAgain
  <2>2. working' = working /\ at' = at /\ debugger_state' = debugger_state
    BY <2>1 DEF AppendCommand, backend
  <2>3. Puts(0, 1) \/ Puts(1, 1) \/ Puts(2, 1)
    BY <2>1, FinalAppend
  <2>4. stack[1].fn \notin F
    BY <1>3, <2>1
  <2> QED
    BY <1>1, <2>2, <2>3, <2>4, StackedPuts
<1>14. CASE DebuggerReady
  BY <1>2, <1>3, <1>14, ReadyCalls, NewStacked
<1>15. CASE Reread
  <2>1. stack[1].fn = "reread" /\ working' = working
    BY <1>15, RereadCalls DEF Reread, backend
  <2>2. CASE working
    BY <2>1, <2>2 DEF SyncInv
  <2>3. CASE Puts(1, 1) /\ stack'[1].fn = "complete"
    BY <1>2, <1>3, <2>3, NewStacked
  <2> QED
    BY <1>15, <2>2, <2>3, RereadCalls
<1>16. ASSUME NEW k \in Used, UserAppends(k) PROVE SyncInv'
  BY <1>1, <1>16 DEF UserAppends, AppendCommand, backend, Stacked
<1>17. ASSUME NEW k \in Used, ListenerAppends(k) PROVE SyncInv'
  BY <1>1, <1>3, <1>17, ListenerCalls, StackedPuts DEF ListenerAppends, AppendCommand, backend
<1>18. CASE QuitDebugger
  BY <1>1, <1>18 DEF QuitDebugger, AppendCommand, backend, Stacked
<1>19. ASSUME NEW s \in State, BackendDone(s) PROVE SyncInv'
  BY <1>19 DEF BackendDone, backend, SyncInv
<1>20. CASE ProgramRuns
  BY <1>20 DEF ProgramRuns, SyncInv
<1>21. CASE SharedlibEvent \/ BackendEnds
  BY <1>2, <1>3, <1>21, SharedlibCalls, EndsCalls DEF Stacked
<1> QED
  BY <1>4, <1>5, <1>6, <1>7, <1>8, <1>9, <1>10, <1>11, <1>12, <1>13,
     <1>14, <1>15, <1>16, <1>17, <1>18, <1>19, <1>20, <1>21 DEF Next, Return

\* No abort is queued unless the calls in progress are those that send it.
LEMMA AbortOnly ==
    ASSUME CallInv, \/ stack = <<>>
                    \/ \E i \in DOMAIN stack : stack[i].fn \notin Steps
    PROVE  \A k \in 1 .. Len(queue) : kind[queue[k]] # "abort"
BY DEF CallInv, AbortInv, Only, Stacked

\* An abort that is queued is the only one, and the first.
LEMMA AbortThins ==
    ASSUME CallInv, Thins(queue', queue), kind' = kind, Len(queue') \in Nat, Len(queue) \in Nat,
           NEW k \in 1 .. Len(queue'), kind'[queue'[k]] = "abort"
    PROVE  /\ k = 1
           /\ \E a \in 1 .. Len(queue) : a = 1 /\ queue[a] = queue'[k] /\ kind[queue[a]] = "abort"
<1>1. PICK a \in 1 .. Len(queue) : queue[a] = queue'[k]
  BY DEF Thins
<1>2. a = 1 /\ kind[queue[a]] = "abort"
  BY <1>1 DEF CallInv, AbortInv
<1>3. k = 1
  <2>1. SUFFICES ASSUME 1 < k PROVE FALSE
    OBVIOUS
  <2>2. 1 \in 1 .. Len(queue')
    OBVIOUS
  <2>3. PICK i \in 1 .. Len(queue), b \in 1 .. Len(queue) : i < b /\ queue[b] = queue'[k]
    <3>1. \A i, j \in 1 .. Len(queue') : i < j =>
              \E e, f \in 1 .. Len(queue) : e < f /\ queue[e] = queue'[i] /\ queue[f] = queue'[j]
      BY DEF Thins
    <3> QED
      BY ONLY <2>1, <2>2, <3>1, k \in 1 .. Len(queue')
  <2>4. b = 1
    BY <2>3 DEF CallInv, AbortInv
  <2> QED
    BY <2>3, <2>4
<1> QED
  BY <1>1, <1>2, <1>3

\* No abort is queued by a step that thins the queue when there was none.
LEMMA NoAbortThins ==
    ASSUME Thins(queue', queue), kind' = kind,
           \A k \in 1 .. Len(queue) : kind[queue[k]] # "abort"
    PROVE  AbortInv'
<1>1. ASSUME NEW k \in 1 .. Len(queue') PROVE kind'[queue'[k]] # "abort"
  <2>1. PICK a \in 1 .. Len(queue) : queue[a] = queue'[k]
    BY DEF Thins
  <2> QED
    BY <2>1
<1> QED
  BY <1>1 DEF AbortInv

\* An abort or an interrupt of the program completes the command in progress.
LEMMA AsyncCompletes ==
    ASSUME TypeInv, NEW k \in Asynchronous, UserAppends(k), CheckedState(k) \in Need(k),
           GoingTo(k) = Stopped \/ debugger_state = Running
    PROVE  /\ stack' \in Seq(Call) /\ DOMAIN stack' = 1 .. 2 /\ stack' # <<>>
           /\ stack'[1].fn = "complete" /\ stack'[1].state = debugger_state
           /\ stack'[2].fn = "execute"
<1> USE DEF TypeInv
<1>2. stack' = Completing(debugger_state) \o <<Executing>> \o <<>>
  BY DEF UserAppends, AppendCommand, AppendBefore, AppendLast, AppendFirst
<1>3. debugger_state \in State /\ Completing(debugger_state) \in Seq(Call)
      /\ Len(Completing(debugger_state)) = 1
      /\ <<Executing>> \in Seq(Call) /\ Len(<<Executing>>) = 1
  BY StateNow, Calls, Frames
<1>4. Len(stack') = 2
  BY <1>2, <1>3, Pair, ConcatEmptySeq
<1>5. /\ stack' \in Seq(Call) /\ DOMAIN stack' = 1 .. Len(stack')
      /\ \/ Len(stack') = 1
         \/ /\ Len(stack') = 2
            /\ stack'[1].fn = "complete" /\ stack'[1].state = debugger_state
            /\ stack'[2].fn = "execute"
  BY UserCalls
<1>6. Len(stack') # 1 /\ 1 .. Len(stack') = 1 .. 2
  BY ONLY <1>4
<1>7. stack' # <<>>
  BY ONLY <1>4
<1> QED
  BY ONLY <1>5, <1>6, <1>7

\* An abort in the queue is first in it and about to be sent.
LEMMA AbortStep ==
    ASSUME CallInv, [Next]_vars
    PROVE  AbortInv'
<1> USE DEF CallInv, TypeInv
<1>0. /\ CallsInv /\ Len(queue) \in Nat /\ queue \in Seq(Command) /\ kind \in [Command -> Kind]
  BY LenProperties DEF QueueType, IInv
<1>00. queue' \in Seq(Command) /\ Len(queue') \in Nat
  BY QueueStep, LenProperties DEF QueueType
<1>1. CASE Appending
  <2>1. PICK c \in Command, k \in Kind :
               /\ \E rest, refused : AppendCommand(c, k, rest, refused)
               /\ \/ AddQuit /\ c = stack[1].cmd /\ k = "quit" /\ stack[1].fn = "quit"
                  \/ RunAgain /\ c = stack[1].cmd /\ k = "run" /\ stack[1].fn = "rerun"
                  \/ QuitDebugger /\ c = New /\ New \in Unused /\ k = "interrupt" /\ stack = <<>>
                  \/ UserAppends(k) /\ k \in Used /\ c = New /\ New \in Unused /\ stack = <<>>
                  \/ /\ ListenerAppends(k) /\ k \in Used /\ c = New /\ New \in Unused
                     /\ stack[1].fn = "window"
    BY <1>1, Appends
  <2>2. \A i \in 1 .. Len(queue) : kind[queue[i]] # "abort"
    BY <1>0, <2>1, AbortOnly DEF Steps, AddQuit, RunAgain, ListenerAppends, Top, CallsInv
  <2>3. /\ \A i \in 1 .. Len(queue') :
                queue'[i] = c \/ \E a \in 1 .. Len(queue) : queue'[i] = queue[a]
        /\ \A d \in Command : d # c => kind'[d] = kind[d]
        /\ kind'[c] \in {k, kind[c]}
    BY <2>1, AppendOrigin
  <2>4. CASE k # "abort"
    <3>1. ASSUME NEW i \in 1 .. Len(queue'), kind'[queue'[i]] = "abort" PROVE FALSE
      <4>1. CASE \E a \in 1 .. Len(queue) : queue'[i] = queue[a]
        BY <1>0, <2>2, <2>3, <2>4, <3>1, <4>1, ElementOfSeq
      <4>2. CASE queue'[i] = c /\ ~\E a \in 1 .. Len(queue) : queue'[i] = queue[a]
        <5>1. kind' = kind \/ kind'[c] = k
          BY <2>1, AppendOrigin
        <5>2. kind' = kind
          BY <2>4, <3>1, <4>2, <5>1
        <5>3. \/ CheckedState(k) \notin Need(k) /\ queue' = queue
              \/ CheckedState(k) \in Need(k) /\ kind' = [kind EXCEPT ![c] = k]
          BY <2>1, AppendQueue
        <5>4. CASE queue' = queue
          BY <4>2, <5>4
        <5>5. CASE kind' = [kind EXCEPT ![c] = k]
          BY <1>0, <2>4, <3>1, <4>2, <5>5
        <5> QED
          BY <5>3, <5>4, <5>5
      <4> QED
        BY <2>3, <4>1, <4>2
    <3> QED
      BY <3>1 DEF AbortInv
  <2>5. CASE k = "abort"
    <3>1. UserAppends(k) /\ k \in Used /\ c = New /\ New \in Unused /\ stack = <<>>
      BY <2>1, <2>5, AsyncKinds, ListenerCalls DEF Asynchronous
    <3>2. c \notin {queue[a] : a \in 1 .. Len(queue)}
      BY <1>0, <3>1, LenProperties DEF Unused, Live, In
    <3>3. CASE CheckedState(k) \notin Need(k)
      BY <2>1, <2>2, <3>3, AppendQueue DEF AbortInv
    <3>4. CASE CheckedState(k) \in Need(k)
      <4>1. PutsFirst(c, k) /\ kind' = [kind EXCEPT ![c] = k] /\ debugger_state' = debugger_state
            /\ last' = last
        BY <2>1, <2>5, <3>4, AppendQueue DEF Asynchronous, PutsBefore, PutsLast
      <4>2. PICK t \in Seq(Command) : /\ queue' = <<c>> \o t
                                      /\ t = queue \/ t = Kept(queue, GoingTo(k))
        BY <4>1 DEF PutsFirst
      <4>3. \A i \in 1 .. Len(t) : \E a \in 1 .. Len(queue) : t[i] = queue[a]
        <5>1. Thins(t, queue)
          BY <1>0, <4>2, KeptIs, ThinsSelf
        <5> QED
          BY <5>1 DEF Thins
      <4>4. \A i \in 1 .. Len(queue') :
                i = 1 \/ (i - 1 \in 1 .. Len(t) /\ queue'[i] = t[i - 1])
        BY <4>2, PutFirst
      <4>5. ASSUME NEW i \in 1 .. Len(queue'), kind'[queue'[i]] = "abort" PROVE i = 1
        <5>1. SUFFICES ASSUME i # 1 PROVE FALSE
          OBVIOUS
        <5>2. PICK a \in 1 .. Len(queue) : queue'[i] = queue[a]
          BY <4>3, <4>4, <5>1
        <5>3. queue[a] \in Command /\ queue[a] # c
          BY <1>0, <3>2, ElementOfSeq
        <5> QED
          BY <2>2, <2>3, <4>5, <5>2, <5>3
      <4>6. /\ stack' \in Seq(Call) /\ DOMAIN stack' = 1 .. 2 /\ stack' # <<>>
            /\ stack'[1].fn = "complete" /\ stack'[1].state = debugger_state
            /\ stack'[2].fn = "execute"
        BY <2>5, <3>1, <3>4, AsyncCompletes DEF GoingTo, RunKinds, StepKinds, Asynchronous
      <4>7. \A i \in DOMAIN stack' : i = 1 \/ i = 2
        BY <4>6
      <4>8. Only(Steps)' /\ (Top("complete"))' /\ Stacked({"complete", "execute", "send"})'
        BY <4>6, <4>7 DEF Only, Steps, Top, Stacked
      <4>9. \A i \in DOMAIN stack' : stack'[i].fn \in {"complete", "emit"} =>
                i = 1 /\ stack'[i].state = debugger_state'
        BY <4>1, <4>6, <4>7
      <4> QED
        BY <4>5, <4>8, <4>9 DEF AbortInv
    <3> QED
      BY <3>3, <3>4
  <2> QED
    BY <2>4, <2>5
<1>2. CASE ~Appending
  <2>1. kind' = kind /\ Thins(queue', queue)
    BY <1>2, NoAppendQueue
  <2>2. CASE \A k \in 1 .. Len(queue) : kind[queue[k]] # "abort"
    BY <2>1, <2>2, NoAbortThins
  <2>3. ASSUME NEW k \in 1 .. Len(queue), kind[queue[k]] = "abort"
        PROVE  AbortInv'
    <3>1. /\ k = 1 /\ stack # <<>> /\ Only(Steps) /\ Stacked({"complete", "execute", "send"})
          /\ \A i \in DOMAIN stack : stack[i].fn \in {"complete", "emit"} =>
                 i = 1 /\ stack[i].state = debugger_state
          /\ Top("complete") \/ last = none
      BY <2>3 DEF AbortInv, Stacked
    <3>2. Head(stack) = stack[1] /\ 1 \in DOMAIN stack /\ stack[1].fn \in Steps
      BY <1>0, <3>1 DEF CallsInv, Only
    <3>3. queue # <<>> /\ Head(queue) = queue[1] /\ kind[Head(queue)] = "abort"
      BY <1>0, <2>3, <3>1
    <3>4. ASSUME NEW i \in 1 .. Len(queue'), kind'[queue'[i]] = "abort" PROVE i = 1
      BY <1>0, <1>00, <2>1, <3>4, AbortThins
    <3>5. CASE UNCHANGED vars
      BY <3>5 DEF AbortInv, Only, Stacked, Top, vars, self
    <3>6. CASE Complete
      <4>1. /\ Puts(2, 1) /\ stack[1].fn = "complete"
            /\ stack'[1].fn = "emit" /\ stack'[1].state = stack[1].state
            /\ stack'[2].fn = "execute"
        BY <3>6, CompleteCalls
      <4>2. last' = none /\ debugger_state' = debugger_state
        BY <3>6 DEF Complete, FreeLast
      <4>3. stack[1].state = debugger_state
        BY <3>1, <3>2, <4>1
      <4>4. ASSUME NEW i \in DOMAIN stack', i > 2
            PROVE  stack'[i].fn \in {"execute", "send"}
        BY <3>1, <4>1, <4>4 DEF Puts, Below, Only, Steps
      <4>5. \A i \in DOMAIN stack' : i = 1 \/ i = 2 \/ i > 2
        BY <4>1 DEF Puts
      <4>6. Stacked({"complete", "execute", "send"})' /\ Only(Steps)'
        BY <4>1, <4>4, <4>5 DEF Only, Stacked, Steps, Puts
      <4>7. \A i \in DOMAIN stack' : stack'[i].fn \in {"complete", "emit"} =>
                i = 1 /\ stack'[i].state = debugger_state'
        BY <4>1, <4>2, <4>3, <4>4, <4>5
      <4> QED
        BY <3>4, <4>2, <4>6, <4>7 DEF AbortInv
    <3>7. ASSUME ~Top("complete") PROVE last = none /\ stack[1].fn # "complete"
      BY <3>1, <3>2, <3>7 DEF Top
    <3>8. ASSUME NEW p \in Nat, Puts(p, 1), last' = none, debugger_state' = debugger_state,
                 \A i \in 1 .. p : stack'[i].fn = "send", p >= 1 \/ stack[1].fn = "emit"
          PROVE  AbortInv'
      <4>1. Stacked({"complete", "execute", "send"})'
        <5>1. CASE p >= 1
          BY <3>8, <5>1 DEF Puts, Stacked
        <5>2. CASE stack[1].fn = "emit"
          <6>1. PICK j \in DOMAIN stack : stack[j].fn \in {"complete", "execute", "send"}
            BY <3>1 DEF Stacked
          <6>2. j > 1
            BY <5>2, <6>1, <3>8 DEF Puts
          <6>3. j + p - 1 \in DOMAIN stack' /\ stack'[j + p - 1] = stack[j]
            BY <3>8, <6>2 DEF Puts, Below
          <6> QED
            BY <6>1, <6>3 DEF Stacked
        <5> QED
          BY <3>8, <5>1, <5>2
      <4>2. ASSUME NEW i \in DOMAIN stack'
            PROVE  stack'[i].fn \in {"execute", "send"}
        <5>1. CASE i \in 1 .. p
          BY <3>8, <5>1
        <5>2. CASE i \notin 1 .. p
          <6>1. i > p
            BY <3>8, <5>2 DEF Puts
          <6>2. i + 1 - p \in DOMAIN stack /\ stack'[i] = stack[i + 1 - p] /\ i + 1 - p > 1
            BY <3>8, <6>1 DEF Puts, Below
          <6>3. /\ stack[i + 1 - p].fn \in Steps
                /\ stack[i + 1 - p].fn \in {"complete", "emit"} => i + 1 - p = 1
            BY <3>1, <6>2 DEF Only
          <6>4. i + 1 - p # 1
            BY <6>2
          <6> QED
            BY <6>2, <6>3, <6>4 DEF Steps
        <5> QED
          BY <5>1, <5>2
      <4> QED
        BY <3>4, <3>8, <4>1, <4>2 DEF AbortInv, Only, Steps
    <3>9. CASE StateEmitted
      <4>1. Puts(0, 1) /\ stack[1].fn = "emit"
        BY <3>9, ReturnCalls
      <4>2. last' = last /\ debugger_state' = debugger_state /\ stack' = Tail(stack)
        BY <3>9 DEF StateEmitted, self
      <4>3. last = none
        BY <3>1, <3>2, <4>1 DEF Top
      <4>4. \A i \in 1 .. 0 : stack'[i].fn = "send"
        OBVIOUS
      <4> QED
        BY <3>8, <4>1, <4>2, <4>3, <4>4
    <3>10. CASE Execute
      BY <3>1, <3>2, <3>8, <3>10, ExecuteCalls DEF Top, Execute, self
    <3>11. CASE SendAbort
      BY <1>0, <2>1, <3>3, <3>11, HeadTailProperties DEF SendAbort, AbortInv
    <3>12. ~EmitStateChange
      BY <3>1, <3>2, EmitCalls
    <3>13. ~(OpenWindow \/ CloseWindow \/ CommandCallback \/ DebuggerReady \/ Reread)
      BY <3>2, OpenCalls, CloseCalls, CallbackCalls, ReadyCalls, RereadCalls DEF Steps
    <3>14. ~(Send \/ SendSetEnvironment \/ SendInterrupt \/ SendFails)
      BY <3>3 DEF Send, SendSetEnvironment, SendInterrupt, SendFails, Asynchronous
    <3>15. ~AllSent
      BY <3>1, <3>2, <3>3, ReturnCalls DEF Top
    <3>16. ~(ProgramRuns \/ SharedlibEvent \/ BackendEnds \/ \E s \in State : BackendDone(s))
      BY <3>1 DEF ProgramRuns, SharedlibEvent, BackendEnds, BackendDone
    <3> QED
      BY <1>2, <3>5, <3>6, <3>9, <3>10, <3>11, <3>12, <3>13, <3>14, <3>15, <3>16
         DEF Next, Return, Appending
  <2> QED
    BY <2>2, <2>3
<1> QED
  BY <1>1, <1>2

\* The invariant of the calls is inductive.
LEMMA CallStep ==
    ASSUME CallInv, [Next]_vars
    PROVE  CallInv'
BY TypeStep, FrameStep, SyncStep, AbortStep DEF CallInv

\* It holds at the start.
LEMMA CallInit == Init => CallInv
BY TypeInit DEF Init, CallInv, ReportInv, FrameInv, SyncInv, AbortInv, Stopped, Running

-----------------------------------------------------------------------------
(* The commands in the queue                                               *)

\* A command is in one place, and one that a call is about to append in none.
UniqueInv ==
    /\ \A i, j \in 1 .. Len(queue) : queue[i] = queue[j] => i = j
    /\ \A i \in 1 .. Len(queue) : queue[i] # last
    /\ \A i \in DOMAIN stack : stack[i].fn \in {"quit", "rerun"} =>
           /\ \A j \in 1 .. Len(queue) : queue[j] # stack[i].cmd
           /\ last # stack[i].cmd

\* A queue that waits for nothing is about to be sent.
PendingInv == queue # <<>> /\ last = none => Stacked({"complete", "execute", "send"})

PlaceInv == CallInv /\ UniqueInv /\ PendingInv

\* The calls about to append that a step leaves were there before, or the step is
\* the one that makes them.
LEMMA AddersStay ==
    ASSUME CallInv, [Next]_vars, ~QuitDebugger, ~SharedlibEvent,
           NEW i \in DOMAIN stack', stack'[i].fn \in {"quit", "rerun"}
    PROVE  /\ \E j \in DOMAIN stack : stack[j] = stack'[i]
           /\ ~AddQuit /\ ~RunAgain
<1> USE DEF CallInv, TypeInv
<1> DEFINE Stays1 == \E j \in DOMAIN stack : stack[j] = stack'[i]
<1>0. CallsInv
  BY DEF IInv
<1>1. ASSUME NEW n \in Nat, NEW m \in {0, 1}, Puts(n, m),
             \A j \in 1 .. n : stack'[j].fn \notin {"quit", "rerun"}
      PROVE  i + m - n \in DOMAIN stack /\ i + m - n > m /\ stack'[i] = stack[i + m - n]
  <2>1. i > n
    BY <1>1 DEF Puts
  <2> QED
    BY <1>1, <2>1 DEF Puts, Below
<1>2. ASSUME NEW n \in Nat, NEW m \in {0, 1}, Puts(n, m),
             \A j \in 1 .. n : stack'[j].fn \notin {"quit", "rerun"}
      PROVE  Stays1
  BY <1>1, <1>2
<1> HIDE DEF Stays1
<1>20. \A j \in 1 .. 2 : j = 1 \/ j = 2
  OBVIOUS
<1>3. stack' = stack => Stays1
  BY DEF Stays1
<1>4. CASE Complete
  BY <1>0, <1>2, <1>4, <1>20, CompleteCalls, TopIs DEF AddQuit, RunAgain, Stays1
<1>5. CASE EmitStateChange
  BY <1>0, <1>2, <1>3, <1>5, EmitCalls, TopIs DEF AddQuit, RunAgain, Stays1
<1>6. CASE StateEmitted \/ AllSent
  BY <1>0, <1>2, <1>6, ReturnCalls, TopIs DEF AddQuit, RunAgain, Stays1
<1>7. CASE OpenWindow \/ CloseWindow \/ CommandCallback
  BY <1>0, <1>2, <1>7, OpenCalls, CloseCalls, CallbackCalls, TopIs DEF AddQuit, RunAgain, Stays1
<1>8. CASE Execute
  BY <1>0, <1>2, <1>8, <1>20, ExecuteCalls, TopIs DEF AddQuit, RunAgain, Stays1
<1>9. CASE Send \/ SendInterrupt \/ SendFails \/ UNCHANGED vars
  <2>1. stack' = stack
    BY <1>9 DEF Send, SendInterrupt, SendFails, vars
  <2>2. ~AddQuit /\ ~RunAgain
    <3>1. Send \/ SendInterrupt \/ SendFails => ~AddQuit /\ ~RunAgain
      BY DEF Send, SendInterrupt, SendFails, Sends, Top, AddQuit, RunAgain
    <3>2. ASSUME UNCHANGED vars, AddQuit \/ RunAgain PROVE FALSE
      <4>1. \E c, k : AppendCommand(c, k, Tail(stack), Tail(stack))
            /\ stack # <<>> /\ stack[1].fn # "window" /\ k \notin Asynchronous
        BY <1>0, <3>2, TopIs, AsyncKinds DEF AddQuit, RunAgain
      <4>2. (Puts(1, 1) /\ stack'[1].fn = "execute") \/ Puts(0, 1)
            \/ (Puts(1, 1) /\ stack'[1].fn = "complete")
        BY <4>1, FinalAppend
      <4>3. stack[1].fn \in {"quit", "rerun"}
        BY <1>0, <3>2, TopIs DEF AddQuit, RunAgain
      <4>4. stack' = stack
        BY <3>2 DEF vars
      <4>5. CASE Puts(0, 1)
        BY <4>4, <4>5 DEF Puts, Below
      <4> QED
        BY <4>2, <4>3, <4>4, <4>5
    <3> QED
      BY <1>9, <3>1, <3>2
  <2> QED
    BY <1>3, <2>1, <2>2 DEF Stays1
<1>10. CASE SendSetEnvironment
  BY <1>0, <1>2, <1>10, SetEnvironmentCalls, TopIs DEF AddQuit, RunAgain, Stays1
<1>11. CASE SendAbort
  BY <1>0, <1>2, <1>11, <1>20, AbortCalls, TopIs DEF AddQuit, RunAgain, Stays1
<1>12. ~AddQuit /\ ~RunAgain
  <2>1. SUFFICES ASSUME AddQuit \/ RunAgain PROVE FALSE
    OBVIOUS
  <2>2. \E c, k : AppendCommand(c, k, Tail(stack), Tail(stack))
        /\ stack # <<>> /\ stack[1].fn \in {"quit", "rerun"} /\ k \notin Asynchronous
    BY <1>0, <2>1, TopIs, AsyncKinds DEF AddQuit, RunAgain
  <2>3. \/ Puts(1, 1) /\ stack'[1].fn = "execute"
        \/ Puts(0, 1)
        \/ Puts(1, 1) /\ stack'[1].fn = "complete"
    BY <2>2, FinalAppend
  <2>4. PICK n \in {0, 1} : Puts(n, 1) /\ \A j \in 1 .. n : stack'[j].fn \notin {"quit", "rerun"}
    BY <2>3
  <2>5. i + 1 - n \in DOMAIN stack /\ i + 1 - n > 1
    BY <1>1, <2>4
  <2>6. 1 \in DOMAIN stack /\ DOMAIN stack = 1 .. Len(stack)
    BY <1>0, <2>2, TopIs, LenProperties DEF CallsInv
  <2>7. 1 = Len(stack)
    BY <2>2, <2>6 DEF FrameInv
  <2>8. i + 1 - n \in 1 .. 1
    BY ONLY <2>5, <2>6, <2>7
  <2> QED
    BY ONLY <2>5, <2>8, SMT
<1>13. CASE DebuggerReady \/ Reread
  BY <1>2, <1>12, <1>13, ReadyCalls, RereadCalls DEF Stays1
<1>14. ASSUME NEW k \in Used, UserAppends(k) PROVE FALSE
  BY <1>14, UserCalls
<1>15. ASSUME NEW k \in Used, ListenerAppends(k) PROVE Stays1
  BY <1>2, <1>15, <1>20, ListenerCalls, AsyncKinds
<1>16. ASSUME NEW s \in State, BackendDone(s) PROVE FALSE
  BY <1>16, DoneCalls
<1>17. CASE ProgramRuns \/ BackendEnds
  BY <1>17, RunsCalls, EndsCalls
<1>18. Stays1
  BY <1>2, <1>3, <1>4, <1>5, <1>6, <1>7, <1>8, <1>9, <1>10, <1>11, <1>12, <1>13, <1>14,
     <1>15, <1>16, <1>17 DEF Next, Return, Stays1
<1> QED
  BY <1>12, <1>18 DEF Stays1

\* The command that is added is nowhere, and the kinds of the others stay.
LEMMA AddedCommand ==
    ASSUME CallInv, UniqueInv, Appending
    PROVE  \E c \in Command, k \in Kind :
               /\ \E rest, refused : AppendCommand(c, k, rest, refused)
               /\ \/ AddQuit /\ c = stack[1].cmd /\ k = "quit" /\ stack[1].fn = "quit"
                  \/ RunAgain /\ c = stack[1].cmd /\ k = "run" /\ stack[1].fn = "rerun"
                  \/ QuitDebugger /\ c = New /\ New \in Unused /\ k = "interrupt" /\ stack = <<>>
                  \/ UserAppends(k) /\ k \in Used /\ c = New /\ New \in Unused /\ stack = <<>>
                  \/ /\ ListenerAppends(k) /\ k \in Used /\ c = New /\ New \in Unused
                     /\ stack[1].fn = "window"
               /\ last # c /\ \A j \in 1 .. Len(queue) : queue[j] # c
               /\ \A j \in 1 .. Len(queue) : kind'[queue[j]] = kind[queue[j]]
               /\ last # none => kind'[last] = kind[last]
               /\ \A j \in 1 .. Len(insert_command) : insert_command[j] # c \/ AddQuit \/ RunAgain
<1> USE DEF CallInv, TypeInv
<1>1. PICK c \in Command, k \in Kind :
               /\ \E rest, refused : AppendCommand(c, k, rest, refused)
               /\ \/ AddQuit /\ c = stack[1].cmd /\ k = "quit" /\ stack[1].fn = "quit"
                  \/ RunAgain /\ c = stack[1].cmd /\ k = "run" /\ stack[1].fn = "rerun"
                  \/ QuitDebugger /\ c = New /\ New \in Unused /\ k = "interrupt" /\ stack = <<>>
                  \/ UserAppends(k) /\ k \in Used /\ c = New /\ New \in Unused /\ stack = <<>>
                  \/ /\ ListenerAppends(k) /\ k \in Used /\ c = New /\ New \in Unused
                     /\ stack[1].fn = "window"
  BY Appends
<1>2. queue \in Seq(Command) /\ DOMAIN queue = 1 .. Len(queue)
      /\ insert_command \in Seq(Command \cup {none})
      /\ DOMAIN insert_command = 1 .. Len(insert_command)
  BY LenProperties DEF QueueType
<1>3. last # c /\ \A j \in 1 .. Len(queue) : queue[j] # c
  BY <1>1, <1>2, TopIs DEF Unused, Live, In, AddQuit, RunAgain, IInv, UniqueInv
<1>4. \A d \in Command : d # c => kind'[d] = kind[d]
  BY <1>1, AppendOrigin
<1>5. \A j \in 1 .. Len(queue) : queue[j] \in Command
  BY <1>2, ElementOfSeq
<1>6. last # none => last \in Command
  BY DEF QueueType
<1>7. AddQuit \/ RunAgain \/ \A j \in 1 .. Len(insert_command) : insert_command[j] # c
  BY <1>1, <1>2 DEF Unused, In
<1> QED
  BY <1>1, <1>3, <1>4, <1>5, <1>6, <1>7

\* What a step that appends nothing does to the queue and the command in progress.
LEMMA QueueMoves ==
    ASSUME TypeInv, [Next]_vars, ~Appending
    PROVE  \/ last' = last /\ Thins(queue', queue)
           \/ Complete /\ last' = none /\ Thins(queue', queue)
           \/ /\ Send \/ SendSetEnvironment \/ SendInterrupt \/ SendAbort
              /\ queue # <<>> /\ last = none /\ last' = Head(queue) /\ queue' = Tail(queue)
<1>1. Thins(queue', queue)
  BY NoAppendQueue
<1>2. CASE Complete
  BY <1>1, <1>2 DEF Complete, FreeLast
<1>3. CASE Send \/ SendSetEnvironment \/ SendInterrupt \/ SendAbort
  BY <1>3 DEF Send, SendSetEnvironment, SendInterrupt, SendAbort, Sends
<1>4. CASE EmitStateChange \/ StateEmitted \/ OpenWindow \/ CloseWindow \/ Execute \/ AllSent
  BY <1>1, <1>4 DEF EmitStateChange, StateEmitted, OpenWindow, CloseWindow, Execute, AllSent, self
<1>5. CASE SendFails \/ CommandCallback \/ DebuggerReady \/ Reread \/ UNCHANGED vars
  BY <1>1, <1>5 DEF SendFails, CommandCallback, DebuggerReady, Reread, vars, self
<1>6. CASE ProgramRuns \/ SharedlibEvent \/ BackendEnds \/ \E s \in State : BackendDone(s)
  BY <1>1, <1>6 DEF ProgramRuns, SharedlibEvent, BackendEnds, BackendDone, self
<1> QED
  BY <1>2, <1>3, <1>4, <1>5, <1>6 DEF Next, Return, Appending

\* The places of the queue before and after, as sequences.
LEMMA Places ==
    ASSUME TypeInv
    PROVE  /\ queue \in Seq(Command) /\ Len(queue) \in Nat /\ DOMAIN queue = 1 .. Len(queue)
           /\ \A j \in 1 .. Len(queue) : queue[j] \in Command
           /\ last \in Command \cup {none} /\ none \notin Command
           /\ kind \in [Command -> Kind]
           /\ queue # <<>> => /\ Head(queue) = queue[1] /\ 1 \in 1 .. Len(queue)
                              /\ Tail(queue) \in Seq(Command)
                              /\ Len(Tail(queue)) = Len(queue) - 1
                              /\ \A j \in 1 .. Len(queue) - 1 :
                                     /\ Tail(queue)[j] = queue[j + 1]
                                     /\ j + 1 \in 1 .. Len(queue)
<1>1. queue \in Seq(Command) /\ last \in Command \cup {none} /\ kind \in [Command -> Kind]
  BY DEF TypeInv, QueueType
<1>2. Len(queue) \in Nat /\ DOMAIN queue = 1 .. Len(queue)
      /\ \A j \in 1 .. Len(queue) : queue[j] \in Command
  BY <1>1, LenProperties, ElementOfSeq
<1>3. ASSUME queue # <<>>
      PROVE /\ Head(queue) = queue[1] /\ 1 \in 1 .. Len(queue)
            /\ Tail(queue) \in Seq(Command)
            /\ Len(Tail(queue)) = Len(queue) - 1
            /\ \A j \in 1 .. Len(queue) - 1 : Tail(queue)[j] = queue[j + 1]
  BY <1>1, <1>2, <1>3, HeadTailProperties, EmptySeq
<1> QED
  BY <1>1, <1>2, <1>3, ConstantsAssumption

\* The commands the calls carry, whatever the step.
LEMMA CarriedStay ==
    ASSUME CallInv, UniqueInv, [Next]_vars,
           NEW i \in DOMAIN stack', stack'[i].fn \in {"quit", "rerun"}
    PROVE  LET d == stack'[i].cmd IN
           /\ d \in Command
           /\ last # d /\ \A j \in 1 .. Len(queue) : queue[j] # d
           /\ ~AddQuit /\ ~RunAgain
           /\ \A k \in Used : UserAppends(k) \/ ListenerAppends(k) => d # New
           /\ QuitDebugger => d # New
<1> USE DEF CallInv, TypeInv
<1>0. CallsInv /\ CallsInv' /\ DOMAIN queue = 1 .. Len(queue)
  BY CallStep, LenProperties DEF IInv, QueueType
<1>1. stack'[i] \in Call /\ stack'[i].cmd \in Command
  <2>1. stack'[i] \in Call
    BY <1>0 DEF CallsInv
  <2> QED
    BY <2>1 DEF Call
<1>2. ASSUME stack'[i].cmd \in Unused
      PROVE  LET d == stack'[i].cmd IN
             last # d /\ \A j \in 1 .. Len(queue) : queue[j] # d
  BY <1>0, <1>2 DEF Unused, Live, In
<1>3. CASE QuitDebugger
  <2>1. /\ stack = <<>> /\ DOMAIN stack' = 1 .. Len(stack') /\ Len(stack') \in {1, 2, 3}
        /\ stack'[Len(stack')].cmd \in Unused \ {New}
        /\ Len(stack') = 2 => stack'[1].fn \in {"execute", "complete"}
        /\ Len(stack') = 3 => stack'[1].fn = "complete" /\ stack'[2].fn = "execute"
    <3>1. /\ \/ Len(stack') = 2 /\ stack'[1].fn = "execute"
             \/ Len(stack') = 3 /\ stack'[1].fn = "complete" /\ stack'[2].fn = "execute"
             \/ Len(stack') = 1
             \/ Len(stack') = 2 /\ stack'[1].fn = "complete"
      BY <1>3, QuitCalls
    <3>2. /\ stack = <<>> /\ DOMAIN stack' = 1 .. Len(stack')
          /\ stack'[Len(stack')].cmd \in Unused \ {New}
      BY <1>3, QuitCalls
    <3> QED
      BY ONLY <3>1, <3>2
  <2>2. i \in {1, 2, 3}
    BY <2>1
  <2>3. i = Len(stack')
    BY <2>1, <2>2
  <2>4. ~AddQuit /\ ~RunAgain
    BY <2>1 DEF AddQuit, RunAgain, Top
  <2>5. stack'[i].cmd \in Unused \ {New}
    BY ONLY <2>1, <2>3
  <2>6. stack'[i].cmd # New /\ stack'[i].cmd \in Unused
    BY ONLY <2>5
  <2> QED
    BY <1>1, <1>2, <2>4, <2>6
<1>4. CASE SharedlibEvent
  <2>1. /\ stack = <<>> /\ DOMAIN stack' = 1 .. Len(stack') /\ Len(stack') = 3
        /\ stack'[1].fn = "complete" /\ stack'[2].fn = "open"
        /\ stack'[3].cmd = New /\ New \in Unused
    BY <1>0, <1>4, SharedlibCalls
  <2>2. i \in {1, 2, 3}
    BY <2>1
  <2>3. i = 3
    BY <2>1, <2>2
  <2>4. stack' # <<>>
    BY <2>1
  <2>5. ~AddQuit /\ ~RunAgain
    BY <2>1 DEF AddQuit, RunAgain, Top
  <2>6. ~QuitDebugger /\ \A k \in Used : ~UserAppends(k) /\ ~ListenerAppends(k)
    <3>1. stack'[3].cmd = New
      BY <2>1
    <3>2. \A k \in Used : ~ListenerAppends(k)
      BY <2>1 DEF ListenerAppends, Top
    <3>3. \A k \in Used : UserAppends(k) => FALSE
      BY <2>1, UserCalls
    <3>4. QuitDebugger => FALSE
      BY <2>1, QuitCalls
    <3> QED
      BY <3>2, <3>3, <3>4
  <2> QED
    BY <1>1, <1>2, <2>1, <2>3, <2>5, <2>6
<1>5. CASE ~QuitDebugger /\ ~SharedlibEvent
  <2>1. PICK j \in DOMAIN stack : stack[j] = stack'[i]
    BY <1>5, AddersStay
  <2>2. ~AddQuit /\ ~RunAgain
    BY <1>5, AddersStay
  <2>3. last # stack'[i].cmd /\ \A a \in 1 .. Len(queue) : queue[a] # stack'[i].cmd
    BY <2>1 DEF UniqueInv
  <2>4. ASSUME NEW k \in Used, UserAppends(k) \/ ListenerAppends(k)
        PROVE  stack'[i].cmd # New
    BY <2>1, <2>4 DEF UserAppends, ListenerAppends, New, Unused
  <2> QED
    BY <1>1, <1>5, <2>2, <2>3, <2>4
<1> QED
  BY <1>3, <1>4, <1>5

\* A command stays in one place.
LEMMA UniqueStep ==
    ASSUME CallInv, UniqueInv, [Next]_vars
    PROVE  UniqueInv'
<1> USE DEF CallInv, TypeInv
<1>0. TypeInv'
  BY TypeStep
<1>1. /\ queue \in Seq(Command) /\ Len(queue) \in Nat /\ none \notin Command
      /\ \A j \in 1 .. Len(queue) : queue[j] \in Command
      /\ queue' \in Seq(Command) /\ Len(queue') \in Nat
      /\ \A j \in 1 .. Len(queue') : queue'[j] \in Command
  <2>1. queue' \in Seq(Command)
    BY <1>0 DEF QueueType
  <2> QED
    BY <2>1, Places, LenProperties, ElementOfSeq
<1>2. /\ \A a, b \in 1 .. Len(queue) : queue[a] = queue[b] => a = b
      /\ \A a \in 1 .. Len(queue) : queue[a] # last
  BY DEF UniqueInv
<1>3. ASSUME Thins(queue', queue)
      PROVE  /\ \A a, b \in 1 .. Len(queue') : queue'[a] = queue'[b] => a = b
             /\ \A a \in 1 .. Len(queue') : \E b \in 1 .. Len(queue) : queue'[a] = queue[b]
  BY <1>1, <1>2, <1>3, ThinsDistinct DEF Thins
<1>4. CASE ~Appending
  <2>1. Thins(queue', queue)
    BY <1>4, NoAppendQueue
  <2>2. \A a \in 1 .. Len(queue') : queue'[a] # last'
    <3>1. CASE last' = last
      BY <1>2, <1>3, <2>1, <3>1
    <3>2. CASE last' = none
      BY <1>1, <3>2
    <3>3. CASE queue # <<>> /\ last = none /\ last' = Head(queue) /\ queue' = Tail(queue)
      BY <1>2, <3>3, Places
    <3> QED
      BY <1>4, <3>1, <3>2, <3>3, QueueMoves
  <2>3. ASSUME NEW i \in DOMAIN stack', stack'[i].fn \in {"quit", "rerun"}
        PROVE  /\ \A j \in 1 .. Len(queue') : queue'[j] # stack'[i].cmd
               /\ last' # stack'[i].cmd
    BY <1>1, <1>3, <1>4, <2>1, <2>3, CarriedStay, Places, QueueMoves
  <2>4. \A a, b \in 1 .. Len(queue') : queue'[a] = queue'[b] => a = b
    BY <1>3, <2>1
  <2> QED
    BY <2>2, <2>3, <2>4 DEF UniqueInv
<1>5. CASE Appending
  <2>1. PICK c \in Command, k \in Kind :
               /\ \E rest, refused : AppendCommand(c, k, rest, refused)
               /\ \/ AddQuit
                  \/ RunAgain
                  \/ QuitDebugger /\ c = New
                  \/ UserAppends(k) /\ k \in Used /\ c = New
                  \/ ListenerAppends(k) /\ k \in Used /\ c = New
               /\ last # c /\ \A j \in 1 .. Len(queue) : queue[j] # c
    BY <1>5, AddedCommand
  <2>2. last' = last
    BY <2>1, AppendQueue
  <2>3. \A i \in 1 .. Len(queue') :
            queue'[i] = c \/ \E a \in 1 .. Len(queue) : queue'[i] = queue[a]
    BY <2>1, AppendOrigin
  <2>4. \A a \in 1 .. Len(queue') : queue'[a] # last'
    BY <1>2, <2>1, <2>2, <2>3
  <2>5. \A a, b \in 1 .. Len(queue') : queue'[a] = queue'[b] => a = b
    <3>1. CASE queue' = queue
      BY <1>2, <3>1
    <3>2. CASE PutsFirst(c, k)
      <4>1. PICK t \in Seq(Command) : /\ queue' = <<c>> \o t
                                      /\ t = queue \/ t = Kept(queue, GoingTo(k))
        BY <3>2 DEF PutsFirst
      <4>2. Thins(t, queue)
        BY <1>1, <4>1, KeptIs, ThinsSelf
      <4>3. /\ queue'[1] = c /\ Len(t) \in Nat
            /\ \A i \in 1 .. Len(queue') : i = 1 \/ (i - 1 \in 1 .. Len(t) /\ queue'[i] = t[i - 1])
        BY <4>1, PutFirst
      <4>4. \A a, b \in 1 .. Len(t) : t[a] = t[b] => a = b
        BY <1>1, <1>2, <4>2, <4>3, ThinsDistinct
      <4>5. \A a \in 1 .. Len(t) : t[a] # c
        BY <2>1, <4>2 DEF Thins
      <4>6. ASSUME NEW a \in 1 .. Len(queue'), NEW b \in 1 .. Len(queue'), queue'[a] = queue'[b]
            PROVE  a = b
        <5>1. CASE a = 1
          BY <4>3, <4>5, <4>6, <5>1
        <5>2. CASE b = 1
          BY <4>3, <4>5, <4>6, <5>2
        <5>3. CASE a # 1 /\ b # 1
          <6>1. a - 1 \in 1 .. Len(t) /\ b - 1 \in 1 .. Len(t) /\ t[a - 1] = t[b - 1]
            BY <4>3, <4>6, <5>3
          <6>2. a - 1 = b - 1
            BY <4>4, <6>1
          <6> QED
            BY <1>1, <6>2
        <5> QED
          BY <5>1, <5>2, <5>3
      <4> QED
        BY <4>6
    <3>3. CASE \E i \in 1 .. Len(queue) :
                  queue' = SubSeq(queue, 1, i - 1) \o <<c>> \o SubSeq(queue, i, Len(queue))
      <4>1. PICK i \in 1 .. Len(queue) :
                  queue' = SubSeq(queue, 1, i - 1) \o <<c>> \o SubSeq(queue, i, Len(queue))
        BY <3>3
      <4>2. /\ queue'[i] = c
            /\ \A j \in 1 .. Len(queue') : j < i => j \in 1 .. Len(queue) /\ queue'[j] = queue[j]
            /\ \A j \in 1 .. Len(queue') : j > i => j - 1 \in 1 .. Len(queue) /\ queue'[j] = queue[j - 1]
        BY <1>1, <4>1, PutBefore
      <4>3. ASSUME NEW a \in 1 .. Len(queue'), NEW b \in 1 .. Len(queue'), queue'[a] = queue'[b]
            PROVE  a = b
        <5>1. a = i => b = i
          BY <1>1, <2>1, <4>2, <4>3
        <5>2. b = i => a = i
          BY SMTT(30), <1>1, <2>1, <4>2, <4>3
        <5>3. CASE a < i /\ b < i
          BY <1>2, <4>2, <4>3, <5>3
        <5>4. CASE a > i /\ b > i
          <6>1. a - 1 \in 1 .. Len(queue) /\ b - 1 \in 1 .. Len(queue) /\ queue[a - 1] = queue[b - 1]
            BY <4>2, <4>3, <5>4
          <6>2. a - 1 = b - 1
            BY <1>2, <6>1
          <6> QED
            BY <1>1, <6>2
        <5>5. ASSUME NEW x \in 1 .. Len(queue'), NEW y \in 1 .. Len(queue'),
                     queue'[x] = queue'[y], x < i, y > i
              PROVE  FALSE
          BY <1>1, <1>2, <4>2, <5>5
        <5>6. a < i \/ a = i \/ a > i
          BY <1>1
        <5>7. b < i \/ b = i \/ b > i
          BY <1>1
        <5> QED
          BY <4>3, <5>1, <5>2, <5>3, <5>4, <5>5, <5>6, <5>7
      <4> QED
        BY <4>3
    <3>4. CASE queue' = Append(queue, c)
      BY <1>1, <1>2, <2>1, <3>4, AppendProperties
    <3> QED
      BY <2>1, <3>1, <3>2, <3>3, <3>4, AppendQueue DEF PutsBefore, PutsLast
  <2>6. ASSUME NEW i \in DOMAIN stack', stack'[i].fn \in {"quit", "rerun"}
        PROVE  /\ \A j \in 1 .. Len(queue') : queue'[j] # stack'[i].cmd
               /\ last' # stack'[i].cmd
    BY <2>1, <2>2, <2>3, <2>6, CarriedStay
  <2> QED
    BY <2>4, <2>5, <2>6 DEF UniqueInv
<1> QED
  BY <1>4, <1>5

\* An append comes from the main loop, from a listener, or last in its handler.
LEMMA AppendTop ==
    ASSUME CallInv, Appending
    PROVE  /\ DOMAIN stack = 1 .. Len(stack) /\ Len(stack) \in Nat
           /\ \/ stack = <<>> /\ (QuitDebugger \/ \E k \in Used : UserAppends(k))
              \/ /\ 1 \in DOMAIN stack /\ stack[1].fn = "window"
                 /\ \E k \in Used : ListenerAppends(k)
              \/ /\ 1 \in DOMAIN stack /\ stack[1].fn \in {"quit", "rerun"}
                 /\ Len(stack) = 1 /\ (AddQuit \/ RunAgain)
<1>1. CallsInv /\ DOMAIN stack = 1 .. Len(stack) /\ Len(stack) \in Nat
  BY LenProperties DEF CallInv, TypeInv, IInv, CallsInv
<1>2. CASE AddQuit \/ RunAgain
  BY <1>1, <1>2, TopIs DEF AddQuit, RunAgain, CallInv, FrameInv
<1>3. ASSUME NEW k \in Used, ListenerAppends(k) PROVE 1 \in DOMAIN stack /\ stack[1].fn = "window"
  BY <1>1, <1>3, TopIs DEF ListenerAppends
<1>4. QuitDebugger \/ (\E k \in Used : UserAppends(k)) => stack = <<>>
  BY DEF QuitDebugger, UserAppends
<1> QED
  BY <1>1, <1>2, <1>3, <1>4 DEF Appending

\* The calls after an append: the loop that sends, if it is taken, and the ones
\* that were below the call that appends.
LEMMA AppendStacks ==
    ASSUME CallInv, Appending
    PROVE  /\ \/ Stacked({"execute"})'
              \/ /\ queue' = queue /\ last' = last /\ kind' = kind /\ queue_state' = queue_state
                 /\ crashed' = crashed
           /\ \A F : /\ Stacked(F)
                     /\ \A i \in DOMAIN stack : i = 1 => stack[i].fn \notin F
                     => Stacked(F)'
<1> USE DEF CallInv, TypeInv
<1>1. PICK c \in Command, k \in Kind :
               /\ \E rest, refused : AppendCommand(c, k, rest, refused)
               /\ \/ AddQuit /\ c = stack[1].cmd /\ k = "quit" /\ stack[1].fn = "quit"
                  \/ RunAgain /\ c = stack[1].cmd /\ k = "run" /\ stack[1].fn = "rerun"
                  \/ QuitDebugger /\ c = New /\ k = "interrupt" /\ stack = <<>>
                  \/ UserAppends(k) /\ k \in Used /\ c = New /\ stack = <<>>
                  \/ ListenerAppends(k) /\ k \in Used /\ c = New /\ stack[1].fn = "window"
  BY Appends
<1>2. CallsInv /\ TypeInv'
  <2>1. [Next]_vars
    BY DEF Appending, Next, Return
  <2> QED
    BY <2>1, TypeStep DEF IInv
<1>3. ASSUME CheckedState(k) \in Need(k) PROVE Stacked({"execute"})'
  <2>1. \E i \in {1, 2} : i \in DOMAIN stack' /\ stack'[i].fn = "execute"
    <3>1. CASE AddQuit \/ RunAgain
      BY <1>1, <1>2, <1>3, <3>1, TopIs, FinalAppend DEF AddQuit, RunAgain, Puts
    <3>2. CASE QuitDebugger /\ k = "interrupt"
      BY <1>3, <3>2, QuitCalls
    <3>3. CASE UserAppends(k)
      BY <1>3, <3>3, UserCalls
    <3>4. CASE ListenerAppends(k)
      BY <1>3, <3>4, ListenerCalls DEF Puts
    <3> QED
      BY <1>1, <3>1, <3>2, <3>3, <3>4
  <2> QED
    BY <2>1 DEF Stacked
<1>4. ASSUME CheckedState(k) \notin Need(k)
      PROVE  queue' = queue /\ last' = last /\ kind' = kind /\ queue_state' = queue_state
             /\ crashed' = crashed
  BY <1>1, <1>4, AppendQueue
<1>5. ASSUME NEW F, Stacked(F), \A i \in DOMAIN stack : i = 1 => stack[i].fn \notin F
      PROVE  Stacked(F)'
  <2>1. stack # <<>>
    BY <1>5 DEF Stacked
  <2>2. \E n \in {0, 1, 2} : \E m \in {0, 1} : Puts(n, m)
    BY <1>1, <1>2, <2>1, TopIs, FinalAppend, ListenerCalls DEF AddQuit, RunAgain
  <2> QED
    BY <1>5, <2>2, StackedPuts
<1> QED
  BY <1>3, <1>4, <1>5

\* The same for the calls that a step that appends nothing leaves, but for the
\* ones that return.
LEMMA OtherStacks ==
    ASSUME CallInv, [Next]_vars, ~Appending, NEW F, Stacked(F)
    PROVE  \/ Stacked(F)'
           \/ Top("complete") /\ "complete" \in F /\ Complete
           \/ Top("emit") /\ "emit" \in F /\ StateEmitted
           \/ Top("open") /\ "open" \in F /\ OpenWindow
           \/ Top("window") /\ "window" \in F /\ CloseWindow
           \/ Top("callback") /\ "callback" \in F /\ CommandCallback
           \/ Top("execute") /\ "execute" \in F /\ Execute
           \/ Top("send") /\ "send" \in F /\ AllSent
           \/ Top("ready") /\ "ready" \in F /\ DebuggerReady
           \/ Top("reread") /\ "reread" \in F /\ Reread
<1> USE DEF CallInv, TypeInv
<1>0. CallsInv /\ stack # <<>> /\ DOMAIN stack = 1 .. Len(stack)
  BY LenProperties DEF IInv, Stacked, CallsInv
<1>1. ASSUME NEW n, NEW fn, Puts(n, 1), fn \notin F, Top(fn) PROVE Stacked(F)'
  BY <1>0, <1>1, TopIs, StackedPuts
<1>2. ASSUME NEW n, Puts(n, 0) PROVE Stacked(F)'
  BY <1>2, StackedPuts
<1>3. CASE stack' = stack
  BY <1>3 DEF Stacked
<1>4. CASE Complete
  BY <1>1, <1>4, CompleteCalls DEF Complete
<1>5. CASE StateEmitted
  BY <1>1, <1>5, ReturnCalls DEF StateEmitted
<1>6. CASE AllSent
  BY <1>1, <1>6, ReturnCalls DEF AllSent
<1>7. CASE OpenWindow
  BY <1>1, <1>7, OpenCalls DEF OpenWindow
<1>8. CASE CloseWindow
  BY <1>1, <1>8, CloseCalls DEF CloseWindow
<1>9. CASE CommandCallback
  BY <1>1, <1>9, CallbackCalls DEF CommandCallback
<1>10. CASE Execute
  BY <1>1, <1>10, ExecuteCalls DEF Execute
<1>11. CASE DebuggerReady
  BY <1>1, <1>11, ReadyCalls DEF DebuggerReady
<1>12. CASE Reread
  BY <1>1, <1>12, RereadCalls DEF Reread
<1>13. CASE EmitStateChange
  BY <1>2, <1>3, <1>13, EmitCalls
<1>14. CASE SendSetEnvironment
  BY <1>2, <1>14, SetEnvironmentCalls
<1>15. CASE SendAbort
  BY <1>2, <1>15, AbortCalls
<1>16. CASE Send \/ SendInterrupt \/ SendFails \/ UNCHANGED vars
  BY <1>3, <1>16 DEF Send, SendInterrupt, SendFails, vars
<1>17. ~ProgramRuns /\ ~SharedlibEvent /\ ~BackendEnds /\ ~\E s \in State : BackendDone(s)
  BY <1>0 DEF ProgramRuns, SharedlibEvent, BackendEnds, BackendDone
<1> QED
  BY <1>4, <1>5, <1>6, <1>7, <1>8, <1>9, <1>10, <1>11, <1>12, <1>13, <1>14, <1>15, <1>16, <1>17
     DEF Next, Return, Appending

\* A queue that waits for nothing stays about to be sent.
LEMMA PendingStep ==
    ASSUME CallInv, PendingInv, [Next]_vars
    PROVE  PendingInv'
<1> USE DEF CallInv, TypeInv
<1> DEFINE F == {"complete", "execute", "send"}
<1>1. CASE Appending
  <2>1. CASE Stacked({"execute"})'
    BY <2>1 DEF Stacked, PendingInv
  <2>2. CASE queue' = queue /\ last' = last
    BY <1>1, <2>2, AppendTop, AppendStacks DEF PendingInv
  <2> QED
    BY <1>1, <2>1, <2>2, AppendStacks
<1>2. CASE ~Appending
  <2>1. SUFFICES ASSUME queue' # <<>>, last' = none PROVE Stacked(F)'
    BY DEF PendingInv
  <2>2. CASE Complete
    BY <2>2, CompleteCalls DEF Puts, Stacked
  <2>3. CASE Execute
    BY <2>3, ExecuteCalls DEF Puts, Stacked
  <2>4. CASE ~Complete
    <3>1. last = none /\ queue # <<>>
      <4>1. CASE last' = last /\ Thins(queue', queue)
        <5>1. queue # <<>>
          <6>1. queue' \in Seq(Command)
            BY TypeStep DEF QueueType
          <6>2. Len(queue') \in Nat /\ Len(queue') # 0
            BY <2>1, <6>1, EmptySeq, LenProperties
          <6>3. 1 \in 1 .. Len(queue')
            BY <6>2
          <6>4. \E a \in 1 .. Len(queue) : queue[a] = queue'[1]
            BY <4>1, <6>3 DEF Thins
          <6> QED
            BY <6>4
        <5> QED
          BY <2>1, <4>1, <5>1
      <4>2. CASE queue # <<>> /\ last' = Head(queue)
        BY <2>1, <4>2, Places
      <4> QED
        BY <1>2, <2>4, <4>1, <4>2, QueueMoves
    <3>2. Stacked(F)
      BY <3>1 DEF PendingInv
    <3>3. \/ Stacked(F)'
          \/ Execute
          \/ AllSent
      BY <1>2, <2>4, <3>2, OtherStacks
    <3>4. ~AllSent
      BY <3>1 DEF AllSent
    <3>5. Execute => Stacked(F)'
      BY <2>3
    <3> QED
      BY <3>3, <3>4, <3>5
  <2> QED
    BY <2>2, <2>4
<1> QED
  BY <1>1, <1>2

\* The invariant of the places is inductive.
LEMMA PlaceStep ==
    ASSUME PlaceInv, [Next]_vars
    PROVE  PlaceInv'
BY CallStep, UniqueStep, PendingStep DEF PlaceInv

\* It holds at the start.
LEMMA PlaceInit == Init => PlaceInv
BY CallInit DEF Init, PlaceInv, UniqueInv, PendingInv

-----------------------------------------------------------------------------
(* The commands that run the program                                       *)

Runs(c) == GoingTo(kind[c]) = Running
FromStopped(c) == Stopped \in Need(kind[c])

\* Nothing that needs a debugger without a program is queued behind a command
\* that runs the program, and the queue expects the program to run.
RunInv ==
    /\ \A i, j \in 1 .. Len(queue) : i < j /\ Runs(queue[i]) => ~FromStopped(queue[j])
    /\ \A i \in 1 .. Len(queue) : Runs(queue[i]) => queue_state = Running
    /\ last # none /\ Runs(last) =>
           /\ \A j \in 1 .. Len(queue) : ~FromStopped(queue[j])
           /\ Top("complete") \/ queue_state = Running

\* Only listeners add a command in front of others.
LEMMA NoLinks ==
    ASSUME CallInv, AddQuit \/ RunAgain \/ QuitDebugger \/ \E k \in Used : UserAppends(k)
    PROVE  insert_command = <<>> /\ Link = none
<1> USE DEF CallInv, TypeInv
<1>1. stack \in Seq(Call) /\ insert_command \in Seq(Command \cup {none})
  BY DEF IInv, CallsInv, QueueType
<1>2. Windows(stack) = 0
  BY <1>1, WindowsEmpty, TopIs, WindowsNone DEF AddQuit, RunAgain, IInv, FrameInv, QuitDebugger,
     UserAppends
<1>3. insert_command = <<>>
  BY <1>1, <1>2, EmptySeq DEF CountInv
<1> QED
  BY <1>3 DEF Link

\* What an append does to the order of the commands.
LEMMA AppendOrder ==
    ASSUME PlaceInv, NEW c \in Command, NEW k \in Kind,
           PutsFirst(c, k) \/ PutsBefore(c, k) \/ PutsLast(c, k),
           \A j \in 1 .. Len(queue) : queue[j] # c
    PROVE  /\ \A i, j \in 1 .. Len(queue') : i < j =>
                  \/ queue'[i] = c \/ queue'[j] = c
                  \/ \E a, b \in 1 .. Len(queue) :
                        a < b /\ queue[a] = queue'[i] /\ queue[b] = queue'[j]
           /\ \A i \in 1 .. Len(queue') :
                  queue'[i] = c \/ \E a \in 1 .. Len(queue) : queue'[i] = queue[a]
           /\ PutsLast(c, k) => \A i, j \in 1 .. Len(queue') : i < j => queue'[i] # c
           /\ PutsFirst(c, k) =>
                  \A i, j \in 1 .. Len(queue') : i < j => queue'[j] # c
<1> USE DEF PlaceInv, CallInv
<1>1. /\ queue \in Seq(Command) /\ Len(queue) \in Nat
      /\ \A j \in 1 .. Len(queue) : queue[j] \in Command
  BY Places
<1> DEFINE Old(i, j) == \E a, b \in 1 .. Len(queue) :
                            a < b /\ queue[a] = queue'[i] /\ queue[b] = queue'[j]
           One(i) == \E a \in 1 .. Len(queue) : queue'[i] = queue[a]
<1>2. CASE PutsFirst(c, k)
  <2>1. PICK t \in Seq(Command) : /\ queue' = <<c>> \o t
                                  /\ t = queue \/ t = Kept(queue, GoingTo(k))
    BY <1>2 DEF PutsFirst
  <2>2. Thins(t, queue)
    BY <1>1, <2>1, KeptIs, ThinsSelf
  <2>3. /\ queue'[1] = c /\ Len(t) \in Nat
        /\ \A i \in 1 .. Len(queue') : i = 1 \/ (i - 1 \in 1 .. Len(t) /\ queue'[i] = t[i - 1])
    BY <2>1, PutFirst
  <2>4. ASSUME NEW i \in 1 .. Len(queue'), NEW j \in 1 .. Len(queue'), i < j
        PROVE  (queue'[i] = c \/ queue'[j] = c \/ Old(i, j)) /\ queue'[j] # c
    <3>1. j # 1 /\ j - 1 \in 1 .. Len(t) /\ queue'[j] = t[j - 1]
      BY <2>3, <2>4
    <3>2. queue'[j] # c
      BY <2>2, <3>1 DEF Thins
    <3>3. CASE i # 1
      <4>1. i - 1 \in 1 .. Len(t) /\ queue'[i] = t[i - 1] /\ i - 1 < j - 1
        BY <2>3, <2>4, <3>1, <3>3
      <4>2. \E a, b \in 1 .. Len(queue) : a < b /\ queue[a] = t[i - 1] /\ queue[b] = t[j - 1]
        BY <2>2, <3>1, <4>1 DEF Thins
      <4>3. Old(i, j)
        BY ONLY <3>1, <4>1, <4>2
      <4> QED
        BY <3>2, <4>3
    <3> QED
      BY <2>3, <3>2, <3>3
  <2>5. ASSUME NEW i \in 1 .. Len(queue') PROVE queue'[i] = c \/ One(i)
    <3>1. ASSUME i # 1 PROVE One(i)
      <4>1. i - 1 \in 1 .. Len(t) /\ queue'[i] = t[i - 1]
        BY <2>3, <3>1
      <4>2. \E a \in 1 .. Len(queue) : queue[a] = t[i - 1]
        BY <2>2, <4>1 DEF Thins
      <4> QED
        BY ONLY <4>1, <4>2
    <3> QED
      BY <2>3, <3>1
  <2>6. ~PutsLast(c, k)
    BY <1>2 DEF PutsFirst, PutsLast
  <2> QED
    BY <2>4, <2>5, <2>6
<1>3. CASE PutsBefore(c, k) /\ queue' = queue
  BY <1>3 DEF PutsBefore, PutsLast, PutsFirst
<1>4. ASSUME PutsBefore(c, k), NEW p \in 1 .. Len(queue),
             queue' = SubSeq(queue, 1, p - 1) \o <<c>> \o SubSeq(queue, p, Len(queue))
      PROVE  /\ \A i, j \in 1 .. Len(queue') : i < j => queue'[i] = c \/ queue'[j] = c \/ Old(i, j)
             /\ \A i \in 1 .. Len(queue') : queue'[i] = c \/ One(i)
  <2>1. /\ queue'[p] = c
        /\ \A j \in 1 .. Len(queue') : j < p => j \in 1 .. Len(queue) /\ queue'[j] = queue[j]
        /\ \A j \in 1 .. Len(queue') : j > p => j - 1 \in 1 .. Len(queue) /\ queue'[j] = queue[j - 1]
    BY <1>1, <1>4, PutBefore
  <2>2. ASSUME NEW i \in 1 .. Len(queue') PROVE queue'[i] = c \/ One(i)
    BY <1>1, <2>1
  <2>3. ASSUME NEW i \in 1 .. Len(queue'), NEW j \in 1 .. Len(queue'), i < j, i # p, j # p
        PROVE  Old(i, j)
    <3>1. CASE j < p
      BY <1>1, <2>1, <2>3, <3>1
    <3>2. CASE i > p
      BY <1>1, <2>1, <2>3, <3>2
    <3>3. CASE i < p /\ j > p
      BY <1>1, <2>1, <3>3
    <3> QED
      BY <1>1, <2>3, <3>1, <3>2, <3>3
  <2> QED
    BY <2>1, <2>2, <2>3
<1>5. CASE PutsLast(c, k)
  <2>1. /\ Len(queue') = Len(queue) + 1 /\ queue'[Len(queue) + 1] = c
        /\ \A i \in 1 .. Len(queue) : queue'[i] = queue[i]
    BY <1>1, <1>5, AppendProperties DEF PutsLast
  <2>2. \A i \in 1 .. Len(queue') : i = Len(queue) + 1 \/ i \in 1 .. Len(queue)
    BY <1>1, <2>1
  <2>3. ASSUME NEW i \in 1 .. Len(queue'), NEW j \in 1 .. Len(queue'), i < j
        PROVE  (queue'[i] = c \/ queue'[j] = c \/ Old(i, j)) /\ queue'[i] # c
    BY <1>1, <2>1, <2>2, <2>3
  <2>4. \A i \in 1 .. Len(queue') : queue'[i] = c \/ One(i)
    BY <2>1, <2>2
  <2>5. ~PutsFirst(c, k)
    BY <1>5 DEF PutsFirst, PutsLast
  <2> QED
    BY <2>3, <2>4, <2>5
<1>6. PutsBefore(c, k) => ~PutsFirst(c, k) /\ ~PutsLast(c, k)
  BY DEF PutsBefore, PutsFirst, PutsLast
<1>7. PutsBefore(c, k) =>
         \/ queue' = queue
         \/ \E p \in 1 .. Len(queue) :
                queue' = SubSeq(queue, 1, p - 1) \o <<c>> \o SubSeq(queue, p, Len(queue))
  BY DEF PutsBefore
<1>8. CASE PutsBefore(c, k)
  BY <1>3, <1>4, <1>6, <1>7, <1>8
<1> QED
  BY <1>2, <1>5, <1>8

\* A queue that is cancelled keeps no command that runs the program, unless the
\* queue keeps its state.
LEMMA KeptRuns ==
    ASSUME TypeInv, NEW q \in Seq(Command), NEW s,
           \A i \in 1 .. Len(q) : Runs(q[i]) => queue_state = Running
    PROVE  \A i \in 1 .. Len(Kept(q, s)) :
               Runs(Kept(q, s)[i]) => KeptState(q, s) = Running
<1> TAKE i \in 1 .. Len(Kept(q, s))
<1> HAVE Runs(Kept(q, s)[i])
<1>1. Stays(q, s, Kept(q, s)[i])
  BY KeptIs
<1>2. PICK a \in 1 .. Len(q) : q[a] = Kept(q, s)[i]
  BY KeptIs DEF Thins
<1>3. a \in DOMAIN q
  BY LenProperties
<1>4. CASE Keepers(q, s) # {}
  BY <1>2, <1>4 DEF KeptState
<1>5. CASE Keepers(q, s) = {}
  BY <1>1, <1>2, <1>3, <1>5 DEF Stays, Runs, Running, Busy, Keepers
<1> QED
  BY <1>4, <1>5

\* The kinds that may be added while the program runs do not run it.
LEMMA RunningKinds ==
    /\ \A k \in Kind \ Asynchronous : Running \in Need(k) => GoingTo(k) = Busy /\ Stopped \notin Need(k)
    /\ \A k \in Asynchronous \cup HighPriority :
           GoingTo(k) \in {Busy, Stopped} /\ Stopped \notin Need(k)
    /\ GoingTo("interrupt") = Busy /\ GoingTo("quit") = Stopped /\ GoingTo("abort") = Stopped
    /\ Running \notin Need("quit") /\ {Started, Loaded} \subseteq Need("quit")
BY DEF Kind, Asynchronous, HighPriority, Need, GoingTo, RunKinds, StepKinds, BreakKinds,
       FrameKinds, StoppedKinds, AnyKinds, Running, Stopped, Busy, Started, Loaded, PStopped

\* What a step that appends nothing does to the state the queue expects.
LEMMA StateMoves ==
    ASSUME TypeInv, [Next]_vars, ~Appending
    PROVE  \/ queue_state' = queue_state
           \/ /\ Complete \/ (SendFails /\ last = none /\ last' = none)
              /\ \E q \in Seq(Command) : \E s :
                     /\ Thins(q, queue)
                     /\ queue' = Kept(q, s) /\ queue_state' = KeptState(q, s)
<1>1. CASE Complete
  BY <1>1, Places, ThinsSelf DEF Complete, CancelUnexpected
<1>2. CASE SendFails
  BY <1>2, Places, TailThins DEF SendFails, Sends, CancelUnexpected
<1>3. CASE Send \/ SendSetEnvironment \/ SendInterrupt \/ SendAbort
  BY <1>3 DEF Send, SendSetEnvironment, SendInterrupt, SendAbort
<1>4. CASE EmitStateChange \/ StateEmitted \/ OpenWindow \/ CloseWindow \/ Execute \/ AllSent
  BY <1>4 DEF EmitStateChange, StateEmitted, OpenWindow, CloseWindow, Execute, AllSent, self
<1>5. CASE CommandCallback \/ DebuggerReady \/ Reread \/ UNCHANGED vars
  BY <1>5 DEF CommandCallback, DebuggerReady, Reread, vars, self
<1>6. CASE ProgramRuns \/ SharedlibEvent \/ BackendEnds \/ \E s \in State : BackendDone(s)
  BY <1>6 DEF ProgramRuns, SharedlibEvent, BackendEnds, BackendDone, self
<1> QED
  BY <1>1, <1>2, <1>3, <1>4, <1>5, <1>6 DEF Next, Return, Appending

\* Nothing happens between the call of complete and its first lines.
LEMMA CompletesFirst ==
    ASSUME TypeInv, [Next]_vars, Top("complete")
    PROVE  Complete \/ UNCHANGED vars
<1>1. stack # <<>> /\ Head(stack).fn = "complete"
  BY DEF Top
<1> QED
  BY <1>1 DEF Next, Return, Top, EmitStateChange, StateEmitted, OpenWindow, CloseWindow,
     Execute, Send, SendSetEnvironment, SendInterrupt, SendAbort, SendFails, Sends, AllSent,
     AddQuit, RunAgain, CommandCallback, DebuggerReady, Reread, UserAppends, ListenerAppends,
     QuitDebugger, BackendDone, ProgramRuns, SharedlibEvent, BackendEnds

RunsNext(c) == GoingTo(kind'[c]) = Running
FromNext(c) == Stopped \in Need(kind'[c])

\* The kinds of the commands that are not the one added.
LEMMA KindsStay ==
    ASSUME PlaceInv, NEW c \in Command, NEW k \in Kind, kind' = [kind EXCEPT ![c] = k],
           NEW d \in Command, d # c
    PROVE  /\ kind'[d] = kind[d] /\ kind'[c] = k
           /\ RunsNext(d) = Runs(d) /\ FromNext(d) = FromStopped(d)
<1>1. kind \in [Command -> Kind]
  BY Places DEF PlaceInv, CallInv
<1>2. kind'[d] = kind[d] /\ kind'[c] = k
  BY <1>1
<1> QED
  BY <1>2 DEF Runs, FromStopped, RunsNext, FromNext

\* Sending, cancelling and completing keep the order around a run.
LEMMA RunMoves ==
    ASSUME PlaceInv, RunInv, [Next]_vars, ~Appending
    PROVE  RunInv'
<1> USE DEF PlaceInv, CallInv, TypeInv
<1>1. kind' = kind /\ Thins(queue', queue)
  BY NoAppendQueue
<1>2. \A d : Runs(d)' = Runs(d) /\ FromStopped(d)' = FromStopped(d)
  BY <1>1 DEF Runs, FromStopped
<1>3. \A i \in 1 .. Len(queue') : \E a \in 1 .. Len(queue) : queue'[i] = queue[a]
  BY <1>1 DEF Thins
<1>4. ASSUME NEW i \in 1 .. Len(queue'), NEW j \in 1 .. Len(queue'), i < j, Runs(queue'[i])
      PROVE  ~FromStopped(queue'[j])
  BY <1>1, <1>4 DEF Thins, RunInv
<1>5. ASSUME NEW i \in 1 .. Len(queue'), Runs(queue'[i]) PROVE queue_state' = Running
  BY <1>3, <1>5, KeptRuns, StateMoves DEF RunInv, Thins
<1>6. ASSUME last' # none, Runs(last')
      PROVE  /\ \A j \in 1 .. Len(queue') : ~FromStopped(queue'[j])
             /\ Top("complete")' \/ queue_state' = Running
  <2>1. CASE last' = last
    <3>1. /\ \A j \in 1 .. Len(queue) : ~FromStopped(queue[j])
          /\ Top("complete") \/ queue_state = Running
      BY <1>6, <2>1 DEF RunInv
    <3>2. \A j \in 1 .. Len(queue') : ~FromStopped(queue'[j])
      BY <1>3, <3>1
    <3>3. ~Complete
      BY <1>6 DEF Complete, FreeLast
    <3>4. queue_state' = queue_state
      BY <1>6, <3>3, StateMoves
    <3>5. Top("complete") => Top("complete")'
      BY <3>3, CompletesFirst DEF Top, vars
    <3> QED
      BY <3>1, <3>2, <3>4, <3>5
  <2>2. CASE /\ Send \/ SendSetEnvironment \/ SendInterrupt \/ SendAbort
             /\ queue # <<>> /\ last' = Head(queue) /\ queue' = Tail(queue)
    <3>1. /\ last' = queue[1] /\ 1 \in 1 .. Len(queue) /\ Len(queue') = Len(queue) - 1
          /\ \A j \in 1 .. Len(queue) - 1 : queue'[j] = queue[j + 1] /\ j + 1 \in 1 .. Len(queue)
      BY <2>2, Places
    <3>2. queue_state' = queue_state
      BY <2>2 DEF Send, SendSetEnvironment, SendInterrupt, SendAbort
    <3>3. queue_state = Running
      BY <1>6, <3>1 DEF RunInv
    <3>4. ASSUME NEW j \in 1 .. Len(queue') PROVE ~FromStopped(queue'[j])
      BY <1>6, <3>1 DEF RunInv
    <3> QED
      BY <3>2, <3>3, <3>4
  <2> QED
    BY <1>6, <2>1, <2>2, QueueMoves
<1> QED
  BY <1>2, <1>4, <1>5, <1>6 DEF RunInv

\* Appending keeps it: dma_queue_check_state has looked at queue_state.
LEMMA RunAppends ==
    ASSUME PlaceInv, RunInv, Appending
    PROVE  RunInv'
<1> USE DEF PlaceInv, CallInv, TypeInv
<1>1. PICK c \in Command, k \in Kind :
               /\ \E rest, refused : AppendCommand(c, k, rest, refused)
               /\ \/ AddQuit /\ k = "quit"
                  \/ RunAgain /\ k = "run"
                  \/ QuitDebugger /\ c = New /\ k = "interrupt"
                  \/ UserAppends(k) /\ k \in Used /\ c = New /\ stack = <<>>
                  \/ ListenerAppends(k) /\ k \in Used /\ c = New /\ stack[1].fn = "window"
               /\ last # c /\ \A j \in 1 .. Len(queue) : queue[j] # c
  BY AddedCommand
<1>2. /\ last' = last
      /\ \/ /\ CheckedState(k) \notin Need(k)
            /\ queue' = queue /\ kind' = kind /\ queue_state' = queue_state
         \/ /\ CheckedState(k) \in Need(k)
            /\ kind' = [kind EXCEPT ![c] = k]
            /\ PutsFirst(c, k) \/ PutsBefore(c, k) \/ PutsLast(c, k)
  BY <1>1, AppendQueue
<1>3. [Next]_vars
  BY DEF Appending, Next, Return
<1>4. ~Top("complete")
  BY <1>1 DEF Complete, Top, AddQuit, RunAgain, QuitDebugger, UserAppends, ListenerAppends
<1>5. CASE queue' = queue /\ kind' = kind /\ queue_state' = queue_state
  BY <1>2, <1>4, <1>5 DEF RunInv, Runs, FromStopped
<1>6. CASE /\ CheckedState(k) \in Need(k)
           /\ kind' = [kind EXCEPT ![c] = k]
           /\ PutsFirst(c, k) \/ PutsBefore(c, k) \/ PutsLast(c, k)
  <2>0. /\ \A j \in 1 .. Len(queue) : queue[j] \in Command
        /\ last # none => last \in Command
        /\ kind'[c] = k
    BY <1>6, Places
  <2>1. /\ \A j \in 1 .. Len(queue) : /\ RunsNext(queue[j]) = Runs(queue[j])
                                      /\ FromNext(queue[j]) = FromStopped(queue[j])
        /\ last # none => RunsNext(last) = Runs(last)
    BY <1>1, <1>6, <2>0, KindsStay
  <2>2. /\ RunsNext(c) = (GoingTo(k) = Running) /\ FromNext(c) = (Stopped \in Need(k))
    BY <2>0 DEF RunsNext, FromNext
  <2>3. /\ \A i, j \in 1 .. Len(queue') : i < j =>
                \/ queue'[i] = c \/ queue'[j] = c
                \/ \E a, b \in 1 .. Len(queue) :
                      a < b /\ queue[a] = queue'[i] /\ queue[b] = queue'[j]
        /\ \A i \in 1 .. Len(queue') :
                queue'[i] = c \/ \E a \in 1 .. Len(queue) : queue'[i] = queue[a]
        /\ PutsLast(c, k) => \A i, j \in 1 .. Len(queue') : i < j => queue'[i] # c
    BY <1>1, <1>6, AppendOrder
  <2>4. ASSUME GoingTo(k) # Running, Stopped \notin Need(k),
               \A i \in 1 .. Len(queue') : queue'[i] # c /\ RunsNext(queue'[i]) => queue_state' = Running,
               last # none /\ Runs(last) => Top("complete")' \/ queue_state' = Running
        PROVE  RunInv'
    <3>1. ASSUME NEW i \in 1 .. Len(queue'), NEW j \in 1 .. Len(queue'), i < j, RunsNext(queue'[i])
          PROVE  ~FromNext(queue'[j])
      <4>1. queue'[i] # c
        BY <2>2, <2>4, <3>1
      <4>2. CASE queue'[j] = c
        BY <2>2, <2>4, <4>2
      <4>3. ASSUME NEW a \in 1 .. Len(queue), NEW b \in 1 .. Len(queue),
                   a < b, queue[a] = queue'[i], queue[b] = queue'[j]
            PROVE  ~FromNext(queue'[j])
        BY <2>1, <3>1, <4>3 DEF RunInv
      <4> QED
        BY <2>3, <3>1, <4>1, <4>2, <4>3
    <3>2. ASSUME NEW i \in 1 .. Len(queue'), RunsNext(queue'[i]) PROVE queue_state' = Running
      BY <2>2, <2>4, <3>2
    <3>3. ASSUME last' # none, RunsNext(last')
          PROVE  /\ \A j \in 1 .. Len(queue') : ~FromNext(queue'[j])
                 /\ Top("complete")' \/ queue_state' = Running
      BY <1>2, <2>1, <2>2, <2>3, <2>4, <3>3 DEF RunInv
    <3> QED
      BY <3>1, <3>2, <3>3 DEF RunInv, Runs, FromStopped, RunsNext, FromNext
  <2>5. last # none /\ Runs(last) => queue_state = Running
    BY <1>4 DEF RunInv
  <2>6. ASSUME queue_state' = queue_state, GoingTo(k) # Running, Stopped \notin Need(k)
        PROVE  RunInv'
    BY <2>1, <2>3, <2>4, <2>5, <2>6 DEF RunInv
  <2>7. ASSUME Link # none PROVE GoingTo(k) = Busy /\ Stopped \notin Need(k)
    <3>1. ListenerAppends(k)
      BY <1>1, <2>7, NoLinks
    <3> QED
      BY <3>1, AsyncKinds DEF ListenerAppends
  <2>8. CASE PutsFirst(c, k)
    <3>1. GoingTo(k) # Running /\ Stopped \notin Need(k)
      BY <2>8, RunningKinds DEF PutsFirst, Running, Busy, Stopped
    <3>2. CASE queue_state' = queue_state
      BY <2>6, <3>1, <3>2
    <3>3. ASSUME NEW t \in Seq(Command), queue' = <<c>> \o t, GoingTo(k) # Busy,
                 t = Kept(queue, GoingTo(k)), queue_state' = KeptState(queue, GoingTo(k))
          PROVE  RunInv'
      <4>1. ASSUME NEW i \in 1 .. Len(queue'), queue'[i] # c, RunsNext(queue'[i])
            PROVE  queue_state' = Running
        <5>1. i = 1 \/ (i - 1 \in 1 .. Len(t) /\ queue'[i] = t[i - 1])
          BY <3>3, PutFirst
        <5>2. i - 1 \in 1 .. Len(t) /\ queue'[i] = t[i - 1]
          BY <3>3, <4>1, <5>1, PutFirst
        <5>3. Runs(t[i - 1])
          BY <2>1, <2>3, <4>1, <5>2
        <5>4. queue \in Seq(Command) /\ \A a \in 1 .. Len(queue) : Runs(queue[a]) => queue_state = Running
          BY Places DEF RunInv
        <5> QED
          BY <3>3, <5>2, <5>3, <5>4, KeptRuns
      <4>2. ASSUME last # none, Runs(last) PROVE Top("complete")' \/ queue_state' = Running
        <5>1. k \in {"abort", "interrupt", "quit"} /\ k # "interrupt"
          BY <2>8, <3>3, RunningKinds DEF PutsFirst, Asynchronous, HighPriority
        <5>2. k # "quit"
          BY <1>6, <4>2, RunningKinds DEF CheckedState, HighPriority, Runs, Running, Busy
        <5>3. k = "abort"
          BY <5>1, <5>2
        <5>4. UserAppends("abort")
          BY <1>1, <5>3, AsyncKinds DEF ListenerAppends, Asynchronous
        <5>5. stack' # <<>> /\ stack'[1].fn = "complete"
          BY <1>6, <5>3, <5>4, RunningKinds, AsyncCompletes DEF Asynchronous
        <5> QED
          BY <5>5 DEF Top
      <4> QED
        BY <2>4, <3>1, <4>1, <4>2
    <3> QED
      BY <2>8, <3>2, <3>3 DEF PutsFirst
  <2>9. CASE PutsBefore(c, k)
    BY <2>6, <2>7, <2>9 DEF PutsBefore, Running, Busy
  <2>10. CASE PutsLast(c, k)
    <3>0. /\ k \notin Asynchronous \cup HighPriority
          /\ queue_state' = IF GoingTo(k) # Busy THEN GoingTo(k) ELSE queue_state
      BY <2>10 DEF PutsLast
    <3>1. CASE GoingTo(k) = Busy /\ Stopped \notin Need(k)
      BY <2>6, <3>0, <3>1 DEF Busy, Running
    <3>2. CASE ~(GoingTo(k) = Busy /\ Stopped \notin Need(k))
      <4>1. ~ListenerAppends(k)
        BY <3>2, AsyncKinds DEF ListenerAppends
      <4>2. insert_command = <<>>
        BY <1>1, <4>1, NoLinks
      <4>3. CheckedState(k) = queue_state
        BY <3>0, <4>2 DEF CheckedState
      <4>4. queue_state # Running
        BY <1>6, <3>0, <3>2, <4>3, RunningKinds
      <4>5. /\ \A a \in 1 .. Len(queue) : ~Runs(queue[a])
            /\ last = none \/ ~Runs(last)
        BY <2>5, <4>4 DEF RunInv
      <4>6. \A i \in 1 .. Len(queue') : RunsNext(queue'[i]) => queue'[i] = c
        BY <2>1, <2>3, <4>5
      <4>7. \A i, j \in 1 .. Len(queue') : i < j /\ RunsNext(queue'[i]) => ~FromNext(queue'[j])
        BY <2>3, <2>10, <4>6
      <4>8. \A i \in 1 .. Len(queue') : RunsNext(queue'[i]) => queue_state' = Running
        <5>1. GoingTo(k) = Running => queue_state' = Running
          BY <3>0 DEF Running, Busy
        <5> QED
          BY <2>2, <4>6, <5>1
      <4>9. ~(last' # none /\ RunsNext(last'))
        BY <1>2, <2>1, <4>5
      <4> QED
        BY <4>7, <4>8, <4>9 DEF RunInv, Runs, FromStopped, RunsNext, FromNext
    <3> QED
      BY <3>1, <3>2
  <2> QED
    BY <1>6, <2>8, <2>9, <2>10
<1> QED
  BY <1>2, <1>5, <1>6

\* The order around a run, step by step.
LEMMA RunStep ==
    ASSUME PlaceInv, RunInv, [Next]_vars
    PROVE  RunInv'
BY RunMoves, RunAppends

-----------------------------------------------------------------------------
(* The interrupts                                                          *)

\* An interrupt waits only for commands that leave the state alone, and is given to
\* a backend that is busy or gone, if it is not sent at once.
InterruptInv ==
    \A k \in 1 .. Len(queue) : kind[queue[k]] = "interrupt" =>
        /\ \A j \in 1 .. Len(queue) : j < k => GoingTo(kind[queue[j]]) = Busy
        /\ last = none => working \/ at = Stopped \/ Only({"execute", "send", "quit"})
        /\ last # none /\ GoingTo(kind[last]) \in {Started, Loaded} =>
               working /\ (Stacked({"quit"}) \/ Top("complete"))

\* A backend that has nothing to do has no command in progress, but for one whose
\* end the queue is about to see, and an interrupt of a debugger that stops.
QuietInv ==
    \/ working
    \/ last = none
    \/ Top("complete")
    \/ at = Stopped /\ Stacked({"reread"})
    \/ kind[last] = "interrupt" /\ (at = Stopped \/ Only({"execute", "send", "quit"}))

RunningInv == PlaceInv /\ RunInv /\ InterruptInv /\ QuietInv

\* The calls in progress are of kinds F after a step that pushes such calls.
LEMMA OnlyPuts ==
    ASSUME NEW F, NEW n, NEW m \in {0, 1}, Puts(n, m), Only(F),
           \A i \in 1 .. n : stack'[i].fn \in F
    PROVE  Only(F)'
<1> SUFFICES ASSUME NEW i \in DOMAIN stack' PROVE stack'[i].fn \in F
  BY DEF Only
<1>1. CASE i > n
  BY <1>1 DEF Puts, Below, Only
<1>2. CASE ~(i > n)
  BY <1>2 DEF Puts
<1> QED
  BY <1>1, <1>2

\* A state the program does not run in takes every interrupt away.
LEMMA CancelInterrupt ==
    ASSUME TypeInv, InterruptInv, NEW s, s # Running,
           NEW i \in 1 .. Len(Kept(queue, s))
    PROVE  kind[Kept(queue, s)[i]] # "interrupt"
<1> SUFFICES ASSUME kind[Kept(queue, s)[i]] = "interrupt" PROVE FALSE
  OBVIOUS
<1>1. queue \in Seq(Command) /\ DOMAIN queue = 1 .. Len(queue)
  BY Places
<1>2. Stays(queue, s, Kept(queue, s)[i])
  BY <1>1, KeptIs
<1>3. s \notin Need("interrupt")
  BY DEF Need, AnyKinds, BreakKinds, StepKinds, StoppedKinds, FrameKinds
<1>4. PICK a \in Keepers(queue, s), b \in DOMAIN queue : a < b /\ queue[b] = Kept(queue, s)[i]
  BY <1>2, <1>3 DEF Stays
<1>5. a \in 1 .. Len(queue) /\ GoingTo(kind[queue[a]]) # Busy
  BY <1>1, <1>4 DEF Keepers
<1> QED
  BY <1>1, <1>4, <1>5 DEF InterruptInv

\* The states that commands announce.
LEMMA GoingStates ==
    \A k \in Kind : GoingTo(k) \in {Busy, Stopped, Started, Loaded, Running}
BY DEF GoingTo, Busy, Stopped, Started, Loaded, Running

\* A command in progress with an idle backend is about to be completed.
LEMMA QuietMoves ==
    ASSUME RunningInv, [Next]_vars, ~Appending
    PROVE  QuietInv'
<1> USE DEF RunningInv, PlaceInv, CallInv, TypeInv
<1>0. CallsInv /\ kind' = kind
  BY NoAppendQueue DEF IInv
<1>1. ASSUME working' = working, at' = at, last' = last \/ last' = none,
             Stacked({"reread"}) => Stacked({"reread"})',
             ~Top("complete"),
             at = Stopped \/ Only({"execute", "send", "quit"}) =>
                 at = Stopped \/ Only({"execute", "send", "quit"})'
      PROVE  QuietInv'
  BY <1>0, <1>1 DEF QuietInv
<1>2. ASSUME NEW n \in Nat, NEW m, Puts(n, m), n >= 1, stack'[1].fn = "complete"
      PROVE  Top("complete")'
  BY <1>2 DEF Puts, Top
<1>3. Complete => QuietInv'
  BY DEF Complete, FreeLast, QuietInv
<1>4. ASSUME NEW fn, Top(fn), fn # "reread", fn # "complete", ~Complete
      PROVE  Stacked({"reread"}) => Stacked({"reread"})'
  <2>1. ~Reread
    BY <1>4 DEF Reread, Top
  <2> QED
    BY <2>1, OtherStacks
<1>5. ASSUME NEW fn, Top(fn), fn \notin {"execute", "send", "quit"}
      PROVE  ~Only({"execute", "send", "quit"})
  BY <1>0, <1>5, TopIs DEF Only
<1>6. ASSUME NEW fn, Top(fn), fn # "complete" PROVE ~Top("complete")
  BY <1>6 DEF Top
<1>7. CASE EmitStateChange \/ StateEmitted
  BY <1>1, <1>4, <1>5, <1>6, <1>7 DEF EmitStateChange, StateEmitted, self, backend, Complete, Top
<1>8. CASE OpenWindow \/ CloseWindow \/ CommandCallback
  BY <1>1, <1>4, <1>5, <1>6, <1>8 DEF OpenWindow, CloseWindow, CommandCallback, self, backend,
     Complete, Top
<1>9. CASE Execute
  BY <1>2, <1>9, ExecuteCalls DEF Execute, self, backend, Complete, Top, QuietInv
<1>10. CASE Send
  BY <1>10 DEF Send, QuietInv
<1>11. CASE SendSetEnvironment
  <2>1. working' = working
    BY <1>11 DEF SendSetEnvironment, backend
  <2>2. ~working => Puts(1, 0) /\ stack'[1].fn = "complete"
    BY <1>11, SetEnvironmentCalls
  <2> QED
    BY <1>2, <2>1, <2>2 DEF QuietInv
<1>12. CASE SendInterrupt
  <2>1. /\ queue # <<>> /\ last = none /\ last' = Head(queue) /\ kind[Head(queue)] = "interrupt"
        /\ working' = working /\ at' = at /\ stack' = stack
    BY <1>12 DEF SendInterrupt, Sends, backend
  <2>2. Head(queue) = queue[1] /\ 1 \in 1 .. Len(queue)
    BY <2>1, Places
  <2>3. working \/ at = Stopped \/ Only({"execute", "send", "quit"})
    BY <2>1, <2>2 DEF InterruptInv
  <2>4. kind'[last'] = "interrupt" /\ (Only({"execute", "send", "quit"}) => Only({"execute", "send", "quit"})')
    BY <1>0, <2>1 DEF Only
  <2> QED
    BY <2>1, <2>3, <2>4 DEF QuietInv
<1>13. CASE SendAbort
  <2>1. Puts(2, 0) /\ stack'[2].fn = "reread" /\ at' = Stopped
    BY <1>13, AbortCalls DEF SendAbort, BackendGone
  <2>2. Stacked({"reread"})'
    BY <2>1 DEF Puts, Stacked
  <2> QED
    BY <2>1, <2>2 DEF QuietInv
<1>14. CASE SendFails
  BY <1>14 DEF SendFails, Sends, QuietInv
<1>15. CASE AllSent
  BY <1>1, <1>4, <1>6, <1>15, ReturnCalls, OnlyPuts DEF AllSent, self, backend, Complete, Top
<1>16. CASE DebuggerReady
  BY <1>2, <1>16, ReadyCalls DEF QuietInv
<1>17. CASE Reread
  <2>1. working' = working
    BY <1>17 DEF Reread, backend
  <2>2. ~working => Puts(1, 1) /\ stack'[1].fn = "complete"
    BY <1>17, RereadCalls
  <2> QED
    BY <1>2, <2>1, <2>2 DEF QuietInv
<1>18. ASSUME NEW s \in State, BackendDone(s) PROVE QuietInv'
  BY <1>18 DEF BackendDone, backend, QuietInv
<1>19. CASE ProgramRuns
  BY <1>19 DEF ProgramRuns, QuietInv
<1>20. CASE SharedlibEvent
  BY <1>20, SharedlibCalls DEF Top, QuietInv
<1>21. CASE BackendEnds
  <2>1. DOMAIN stack' = 1 .. Len(stack') /\ Len(stack') = 2 /\ stack'[2].fn = "reread" /\ at' = Stopped
    BY <1>21, EndsCalls DEF BackendEnds, BackendGone
  <2>2. Stacked({"reread"})'
    BY <2>1 DEF Stacked
  <2> QED
    BY <2>1, <2>2 DEF QuietInv
<1>22. CASE UNCHANGED vars
  BY <1>22 DEF vars, self, backend, QuietInv, Top, Stacked, Only
<1> QED
  BY <1>3, <1>7, <1>8, <1>9, <1>10, <1>11, <1>12, <1>13, <1>14, <1>15, <1>16, <1>17, <1>18,
     <1>19, <1>20, <1>21, <1>22 DEF Next, Return, Appending

\* An append from the main loop completes the command in progress, or only sends.
LEMMA AppendOnly ==
    ASSUME CallInv, Appending, Only({"execute", "send", "quit"})
    PROVE  working \/ Top("complete")' \/ Only({"execute", "send", "quit"})'
<1> USE DEF CallInv, TypeInv
<1>0. CallsInv /\ CallsInv'
  <2>1. [Next]_vars
    BY DEF Appending, Next, Return
  <2> QED
    BY <2>1, TypeStep DEF IInv
<1>1. ASSUME NEW k \in Used, UserAppends(k)
      PROVE  working \/ Top("complete")' \/ Only({"execute", "send", "quit"})'
  BY <1>1, UserCalls DEF Top, Only
<1>2. CASE QuitDebugger
  BY <1>2, QuitCalls DEF Only, Top
<1>3. CASE AddQuit
  <2>1. stack # <<>> /\ stack[1].fn = "quit"
        /\ AppendCommand(Head(stack).cmd, "quit", Tail(stack), Tail(stack))
    BY <1>0, <1>3, TopIs DEF AddQuit
  <2>2. \/ Puts(1, 1) /\ stack'[1].fn = "execute"
        \/ (Puts(2, 1) \/ Puts(1, 1)) /\ stack'[1].fn = "complete"
        \/ working
    BY <2>1, FinalAppend
  <2>3. CASE Puts(1, 1) /\ stack'[1].fn = "execute"
    BY <2>3, OnlyPuts
  <2>4. CASE (Puts(2, 1) \/ Puts(1, 1)) /\ stack'[1].fn = "complete"
    BY <1>0, <2>4 DEF Puts, Top, CallsInv
  <2> QED
    BY <2>2, <2>3, <2>4
<1>4. ~RunAgain /\ \A k \in Used : ~ListenerAppends(k)
  BY <1>0, TopIs DEF RunAgain, ListenerAppends, Only
<1> QED
  BY <1>1, <1>2, <1>3, <1>4 DEF Appending

\* The same when a command is appended.
LEMMA QuietAppends ==
    ASSUME RunningInv, Appending
    PROVE  QuietInv'
<1> USE DEF RunningInv, PlaceInv, CallInv, TypeInv
<1>1. last' = last /\ working' = working /\ at' = at /\ (last # none => kind'[last] = kind[last])
  BY AddedCommand, AppendQueue
<1>2. ~Top("complete")
  BY AppendTop, TopIs DEF Top
<1>3. Stacked({"reread"}) => Stacked({"reread"})'
  BY AppendTop, AppendStacks
<1>4. CASE working \/ last = none \/ (at = Stopped /\ Stacked({"reread"}))
  BY <1>1, <1>3, <1>4 DEF QuietInv
<1>5. CASE last # none /\ kind[last] = "interrupt" /\ (at = Stopped \/ Only({"execute", "send", "quit"}))
  BY <1>1, <1>5, AppendOnly DEF QuietInv
<1> QED
  BY <1>2, <1>4, <1>5 DEF QuietInv

\* While an interrupt is queued and no command is in progress, only the queue and
\* its listeners act.
LEMMA Interrupted ==
    ASSUME PlaceInv, queue # <<>>, last = none
    PROVE  /\ stack # <<>>
           /\ ~DebuggerReady /\ ~AddQuit /\ ~RunAgain /\ ~QuitDebugger
           /\ \A k \in Used : ~UserAppends(k)
           /\ ~ProgramRuns /\ ~SharedlibEvent /\ ~BackendEnds /\ \A s \in State : ~BackendDone(s)
<1> USE DEF PlaceInv, CallInv, TypeInv
<1>1. PICK j \in DOMAIN stack : stack[j].fn \in {"complete", "execute", "send"}
  BY DEF PendingInv, Stacked
<1>2. CallsInv /\ DOMAIN stack = 1 .. Len(stack) /\ stack # <<>>
  BY <1>1, LenProperties DEF IInv, CallsInv
<1>3. ASSUME NEW fn, Top(fn), fn \in {"ready", "quit", "rerun"} PROVE FALSE
  <2>1. 1 \in DOMAIN stack /\ stack[1].fn = fn
    BY <1>2, <1>3, TopIs
  <2>2. 1 = Len(stack)
    BY <1>3, <2>1 DEF FrameInv
  <2>3. j = 1
    <3>1. j \in 1 .. Len(stack)
      BY <1>2
    <3> QED
      BY ONLY <2>2, <3>1
  <2> QED
    BY <1>1, <1>3, <2>1, <2>3
<1> QED
  BY <1>2, <1>3 DEF DebuggerReady, AddQuit, RunAgain, QuitDebugger, UserAppends, ProgramRuns,
     SharedlibEvent, BackendEnds, BackendDone

\* An interrupt that waits in the queue, step by step.
LEMMA InterruptMoves ==
    ASSUME RunningInv, [Next]_vars, ~Appending
    PROVE  InterruptInv'
<1> USE DEF RunningInv, PlaceInv, CallInv, TypeInv
<1>0. CallsInv /\ kind' = kind /\ Thins(queue', queue)
      /\ queue \in Seq(Command) /\ Len(queue) \in Nat
  BY NoAppendQueue, Places DEF IInv
<1> SUFFICES ASSUME NEW k \in 1 .. Len(queue'), kind[queue'[k]] = "interrupt"
             PROVE  /\ \A j \in 1 .. Len(queue') : j < k => GoingTo(kind[queue'[j]]) = Busy
                    /\ last' = none => working' \/ at' = Stopped \/ Only({"execute", "send", "quit"})'
                    /\ last' # none /\ GoingTo(kind[last']) \in {Started, Loaded} =>
                           working' /\ (Stacked({"quit"})' \/ Top("complete")')
  BY <1>0 DEF InterruptInv
<1>1. PICK a \in 1 .. Len(queue) : queue[a] = queue'[k]
  BY <1>0 DEF Thins
<1>2. /\ \A j \in 1 .. Len(queue) : j < a => GoingTo(kind[queue[j]]) = Busy
      /\ last = none => working \/ at = Stopped \/ Only({"execute", "send", "quit"})
      /\ last # none /\ GoingTo(kind[last]) \in {Started, Loaded} =>
             working /\ (Stacked({"quit"}) \/ Top("complete"))
  BY <1>1 DEF InterruptInv
<1>3. ASSUME NEW j \in 1 .. Len(queue'), j < k PROVE GoingTo(kind[queue'[j]]) = Busy
  <2>1. PICK x \in 1 .. Len(queue), y \in 1 .. Len(queue) :
            x < y /\ queue[x] = queue'[j] /\ queue[y] = queue'[k]
    BY <1>0, <1>3 DEF Thins
  <2> QED
    BY <2>1 DEF InterruptInv
<1>4. queue # <<>>
  BY <1>1
<1>5. ASSUME last' = none
      PROVE  working' \/ at' = Stopped \/ Only({"execute", "send", "quit"})'
  <2>1. CASE Complete
    <3>1. /\ stack[1].fn = "complete" /\ 1 \in DOMAIN stack /\ working' = working /\ at' = at
          /\ Head(stack) = stack[1]
      BY <1>0, <2>1, TopIs DEF Complete
    <3>2. SUFFICES ASSUME ~working, at # Stopped PROVE FALSE
      BY <3>1
    <3>3. stack[1].state = at /\ at # Running /\ at \in State
      BY <3>1, <3>2 DEF FrameInv, ReportInv, IInv, BackendInv
    <3>4. ~Only({"execute", "send", "quit"})
      BY <3>1 DEF Only
    <3>5. last # none
      BY <1>2, <3>2, <3>4
    <3>6. GoingTo(kind[last]) # at
      BY <1>2, <3>2, <3>3, <3>5, Places, GoingStates DEF State, Busy, Stopped
    <3>7. queue' = Kept(queue, at)
      BY <2>1, <3>1, <3>3, <3>5, <3>6 DEF Complete, CancelUnexpected
    <3> QED
      BY <3>3, <3>7, CancelInterrupt
  <2>2. CASE ~Complete
    <3>1. last = none
      BY <1>5, <2>2, QueueMoves, Places
    <3>2. CASE Execute
      BY <1>2, <3>1, <3>2, ExecuteCalls, OnlyPuts DEF Execute, backend
    <3>3. CASE AllSent
      BY <1>2, <3>1, <3>3, ReturnCalls, OnlyPuts DEF AllSent, backend
    <3>4. CASE SendFails \/ UNCHANGED vars
      BY <1>2, <3>1, <3>4 DEF SendFails, vars, backend, Only
    <3>5. CASE EmitStateChange \/ StateEmitted \/ OpenWindow \/ CloseWindow \/ CommandCallback \/ Reread
      <4>1. working' = working /\ at' = at
        BY <3>5 DEF EmitStateChange, StateEmitted, OpenWindow, CloseWindow, CommandCallback, Reread, backend
      <4>2. Top("emit") \/ Top("open") \/ Top("window") \/ Top("callback") \/ Top("reread")
        BY <3>5 DEF EmitStateChange, StateEmitted, OpenWindow, CloseWindow, CommandCallback, Reread
      <4>3. ~Only({"execute", "send", "quit"})
        BY <1>0, <4>2, TopIs DEF Only
      <4> QED
        BY <1>2, <3>1, <4>1, <4>3
    <3>6. ~(Send \/ SendSetEnvironment \/ SendInterrupt \/ SendAbort)
      BY <1>4, <1>5, Places DEF Send, SendSetEnvironment, SendInterrupt, SendAbort
    <3> QED
      BY <1>4, <2>2, <3>1, <3>2, <3>3, <3>4, <3>5, <3>6, Interrupted DEF Next, Return, Appending
  <2> QED
    BY <2>1, <2>2
<1>6. ASSUME last' # none, GoingTo(kind[last']) \in {Started, Loaded}
      PROVE  working' /\ (Stacked({"quit"})' \/ Top("complete")')
  <2>1. ~Complete
    BY <1>6 DEF Complete, FreeLast
  <2>2. CASE last' = last
    <3>1. working /\ (Stacked({"quit"}) \/ Top("complete"))
      BY <1>2, <1>6, <2>2
    <3>2. CASE Top("complete")
      BY <2>1, <3>1, <3>2, CompletesFirst DEF vars, backend, Top
    <3>3. CASE Stacked({"quit"})
      <4>1. Stacked({"quit"})'
        BY <2>1, <3>3, OtherStacks
      <4>2. stack # <<>> /\ DOMAIN stack = 1 .. Len(stack)
        BY <1>0, <3>3, LenProperties DEF Stacked, CallsInv
      <4>3. ~DebuggerReady
        BY <1>0, <3>3, <4>2, TopIs DEF DebuggerReady, FrameInv, Stacked
      <4>4. ~SendAbort
        BY <1>6, <2>2 DEF SendAbort, Sends
      <4>5. working'
        BY <2>1, <3>1, <4>2, <4>3, <4>4 DEF Next, Return, Appending, vars, backend,
           EmitStateChange, StateEmitted, OpenWindow, CloseWindow, Execute, Send,
           SendSetEnvironment, SendInterrupt, SendFails, AllSent, CommandCallback,
           Reread, ProgramRuns, SharedlibEvent, BackendEnds, BackendDone
      <4> QED
        BY <4>1, <4>5
    <3> QED
      BY <3>1, <3>2, <3>3
  <2>3. CASE queue # <<>> /\ last = none /\ last' = Head(queue) /\ queue' = Tail(queue)
    BY <1>6, <2>3, Places DEF InterruptInv, Busy, Started, Loaded
  <2> QED
    BY <2>1, <2>2, <2>3, QueueMoves
<1> QED
  BY <1>3, <1>5, <1>6

\* The same when a command is appended.
LEMMA InterruptAppends ==
    ASSUME RunningInv, Appending
    PROVE  InterruptInv'
<1> USE DEF RunningInv, PlaceInv, CallInv, TypeInv
<1>1. PICK c \in Command, k \in Kind :
               /\ \E rest, refused : AppendCommand(c, k, rest, refused)
               /\ \/ AddQuit /\ k = "quit"
                  \/ RunAgain /\ k = "run"
                  \/ QuitDebugger /\ c = New /\ k = "interrupt"
                  \/ UserAppends(k) /\ k \in Used /\ c = New /\ stack = <<>>
                  \/ ListenerAppends(k) /\ k \in Used /\ c = New /\ stack[1].fn = "window"
               /\ last # c /\ \A j \in 1 .. Len(queue) : queue[j] # c
               /\ \A j \in 1 .. Len(queue) : kind'[queue[j]] = kind[queue[j]]
               /\ last # none => kind'[last] = kind[last]
  BY AddedCommand
<1>2. /\ last' = last /\ working' = working /\ at' = at
      /\ \/ /\ CheckedState(k) \notin Need(k)
            /\ queue' = queue /\ kind' = kind /\ queue_state' = queue_state
         \/ /\ CheckedState(k) \in Need(k)
            /\ kind' = [kind EXCEPT ![c] = k]
            /\ PutsFirst(c, k) \/ PutsBefore(c, k) \/ PutsLast(c, k)
  BY <1>1, AppendQueue
<1>3. CallsInv /\ DOMAIN stack = 1 .. Len(stack) /\ Len(stack) \in Nat /\ stack' \in Seq(Call)
  BY TypeStep, LenProperties DEF Appending, Next, Return, IInv, CallsInv
<1>4. ~Top("complete")
  BY AppendTop, TopIs DEF Top
<1> DEFINE P1 == last = none => working \/ at = Stopped
           P2 == last # none /\ GoingTo(kind[last]) \in {Started, Loaded} => working /\ Stacked({"quit"})'
<1>5. ASSUME NEW x \in 1 .. Len(queue), kind[queue[x]] = "interrupt",
             ~(AddQuit /\ CheckedState("quit") \in Need("quit"))
      PROVE  P1 /\ P2
  <2>1. /\ last = none => working \/ at = Stopped \/ Only({"execute", "send", "quit"})
        /\ last # none /\ GoingTo(kind[last]) \in {Started, Loaded} =>
               working /\ (Stacked({"quit"}) \/ Top("complete"))
    BY <1>5 DEF InterruptInv
  <2>2. ASSUME last = none PROVE working \/ at = Stopped
    BY <1>5, <2>1, <2>2, Interrupted, AppendTop DEF Only
  <2>3. ASSUME last # none, GoingTo(kind[last]) \in {Started, Loaded}
        PROVE  working /\ Stacked({"quit"})'
    <3>1. working /\ Stacked({"quit"})
      BY <1>4, <2>1, <2>3
    <3>2. ~AddQuit
      BY <1>5, <2>3, RunningKinds DEF CheckedState, HighPriority, Busy, Started, Loaded
    <3>3. ~RunAgain
      BY <1>3, <3>1, TopIs DEF RunAgain, FrameInv, Stacked
    <3>4. \A i \in DOMAIN stack : i = 1 => stack[i].fn \notin {"quit"}
      BY <3>1, <3>2, <3>3, AppendTop DEF Stacked
    <3> QED
      BY <3>1, <3>4, AppendStacks
  <2> QED
    BY <2>2, <2>3
<1> HIDE DEF P1, P2
<1>6. ASSUME \A i \in 1 .. Len(queue') : kind'[queue'[i]] = "interrupt" =>
                 /\ \A j \in 1 .. Len(queue') : j < i => GoingTo(kind'[queue'[j]]) = Busy
                 /\ P1 /\ P2
      PROVE  InterruptInv'
  BY <1>1, <1>2, <1>6 DEF InterruptInv, P1, P2
<1>7. CASE queue' = queue /\ kind' = kind /\ CheckedState(k) \notin Need(k)
  <2>1. ~(AddQuit /\ CheckedState("quit") \in Need("quit"))
    <3>1. AddQuit => k = "quit"
      BY <1>1, <1>3, TopIs DEF AddQuit, RunAgain, QuitDebugger, UserAppends, ListenerAppends, Top
    <3> QED
      BY <1>7, <3>1
  <2>2. ASSUME NEW i \in 1 .. Len(queue'), kind'[queue'[i]] = "interrupt"
        PROVE  /\ \A j \in 1 .. Len(queue') : j < i => GoingTo(kind'[queue'[j]]) = Busy
               /\ P1 /\ P2
    BY <1>5, <1>7, <2>1, <2>2 DEF InterruptInv
  <2> QED
    BY <1>6, <2>2
<1>8. CASE /\ CheckedState(k) \in Need(k)
           /\ kind' = [kind EXCEPT ![c] = k]
           /\ PutsFirst(c, k) \/ PutsBefore(c, k) \/ PutsLast(c, k)
  <2>0. kind'[c] = k
    BY <1>8, Places
  <2>1. /\ \A i, j \in 1 .. Len(queue') : i < j =>
                \/ queue'[i] = c \/ queue'[j] = c
                \/ \E a, b \in 1 .. Len(queue) :
                      a < b /\ queue[a] = queue'[i] /\ queue[b] = queue'[j]
        /\ \A i \in 1 .. Len(queue') :
                queue'[i] = c \/ \E a \in 1 .. Len(queue) : queue'[i] = queue[a]
        /\ PutsLast(c, k) => \A i, j \in 1 .. Len(queue') : i < j => queue'[i] # c
        /\ PutsFirst(c, k) => \A i, j \in 1 .. Len(queue') : i < j => queue'[j] # c
    BY <1>1, <1>8, AppendOrder
  <2>2. ASSUME NEW i \in 1 .. Len(queue'), NEW j \in 1 .. Len(queue'), j < i,
               kind'[queue'[i]] = "interrupt", queue'[i] # c,
               queue'[j] = c => GoingTo(k) = Busy
        PROVE  GoingTo(kind'[queue'[j]]) = Busy
    BY <1>1, <2>0, <2>1, <2>2 DEF InterruptInv
  <2>3. CASE k = "interrupt"
    <3>1. PutsFirst(c, k) /\ GoingTo(k) = Busy
      BY <1>8, <2>3, RunningKinds DEF PutsBefore, PutsLast, Asynchronous
    <3>2. ~ListenerAppends("interrupt")
      BY AsyncKinds DEF ListenerAppends, Asynchronous
    <3>3. \/ QuitDebugger
          \/ UserAppends("interrupt")
      BY <1>1, <2>3, <3>2
    <3>4. debugger_state = Running /\ stack = <<>> => working
      BY DEF SyncInv, ReportInv, Stacked
    <3>5. ASSUME UserAppends("interrupt") PROVE working /\ Top("complete")'
      BY <1>8, <2>3, <3>4, <3>5, AsyncCompletes DEF UserAppends, Asynchronous, Top
    <3>6. ASSUME QuitDebugger
          PROVE  /\ working \/ Only({"execute", "send", "quit"})'
                 /\ Stacked({"quit"})'
                 /\ last # none /\ GoingTo(kind[last]) \in {Started, Loaded} => working
      <4>1. /\ stack = <<>> /\ DOMAIN stack' = 1 .. Len(stack')
            /\ Len(stack') >= 1 /\ stack'[Len(stack')].fn = "quit"
        BY <3>6, QuitCalls
      <4>2. \/ Len(stack') = 2 /\ stack'[1].fn = "execute"
            \/ Len(stack') = 3 /\ debugger_state = Running
        BY <1>8, <2>3, <3>6, QuitCalls
      <4>4. Stacked({"quit"})'
        BY <4>1, <4>2 DEF Stacked
      <4>5. last # none /\ GoingTo(kind[last]) \in {Started, Loaded} => working
        BY <1>4, <4>1, RunningKinds DEF Stacked, QuietInv, Busy, Started, Loaded
      <4>6. working \/ Only({"execute", "send", "quit"})'
        BY <3>4, <4>1, <4>2 DEF Only
      <4> QED
        BY <4>4, <4>5, <4>6
    <3>7. ASSUME NEW i \in 1 .. Len(queue'), kind'[queue'[i]] = "interrupt",
                 NEW j \in 1 .. Len(queue'), j < i
          PROVE  GoingTo(kind'[queue'[j]]) = Busy
      BY <2>1, <2>2, <3>1, <3>7
    <3>8. last = none => working \/ Only({"execute", "send", "quit"})'
      BY <3>3, <3>5, <3>6
    <3>9. last # none /\ GoingTo(kind[last]) \in {Started, Loaded} =>
              working /\ (Stacked({"quit"})' \/ Top("complete")')
      BY <3>3, <3>5, <3>6
    <3> QED
      BY <1>1, <1>2, <3>7, <3>8, <3>9 DEF InterruptInv
  <2>4. CASE k \in {"quit", "abort"}
    <3>1. PutsFirst(c, k) /\ GoingTo(k) = Stopped /\ GoingTo(k) # Busy
      BY <1>8, <2>4, RunningKinds DEF PutsBefore, PutsLast, Asynchronous, HighPriority, Busy, Stopped
    <3>2. PICK t \in Seq(Command) : queue' = <<c>> \o t /\ t = Kept(queue, GoingTo(k))
      BY <3>1 DEF PutsFirst
    <3>3. ASSUME NEW i \in 1 .. Len(queue'), kind'[queue'[i]] = "interrupt" PROVE FALSE
      <4>1. queue'[i] # c
        BY <2>0, <2>4, <3>3
      <4>2. i - 1 \in 1 .. Len(t) /\ queue'[i] = t[i - 1]
        BY <3>2, <4>1, PutFirst
      <4>3. kind[t[i - 1]] # "interrupt"
        <5>1. GoingTo(k) # Running
          BY <3>1 DEF Stopped, Running
        <5>2. t = Kept(queue, GoingTo(k))
          BY <3>2
        <5>3. \A j \in 1 .. Len(t) : kind[t[j]] # "interrupt"
          BY ONLY <5>1, <5>2, RunningInv, CancelInterrupt
             DEF RunningInv, PlaceInv, CallInv, TypeInv
        <5> QED
          BY ONLY <4>2, <5>3
      <4>4. PICK a \in 1 .. Len(queue) : queue'[i] = queue[a]
        BY <2>1, <4>1
      <4> QED
        BY <1>1, <3>3, <4>2, <4>3, <4>4
    <3> QED
      BY <1>6, <3>3
  <2>5. CASE k \notin {"quit", "abort", "interrupt"}
    <3>1. PutsBefore(c, k) \/ PutsLast(c, k)
      BY <1>8, <2>5 DEF PutsFirst, Asynchronous, HighPriority
    <3>2. ~AddQuit
      BY <1>1, <1>3, <2>5, TopIs DEF AddQuit, RunAgain, QuitDebugger, UserAppends, ListenerAppends, Top
    <3>3. PutsBefore(c, k) => GoingTo(k) = Busy
      BY <1>1, NoLinks, AsyncKinds DEF ListenerAppends, PutsBefore
    <3>4. ASSUME NEW i \in 1 .. Len(queue'), kind'[queue'[i]] = "interrupt"
          PROVE  /\ \A j \in 1 .. Len(queue') : j < i => GoingTo(kind'[queue'[j]]) = Busy
                 /\ P1 /\ P2
      <4>1. queue'[i] # c
        BY <2>0, <2>5, <3>4
      <4>2. PICK a \in 1 .. Len(queue) : queue'[i] = queue[a]
        BY <2>1, <4>1
      <4>3. kind[queue[a]] = "interrupt"
        BY <1>1, <3>4, <4>2
      <4>4. P1 /\ P2
        BY <1>5, <3>2, <4>3
      <4>5. ASSUME NEW j \in 1 .. Len(queue'), j < i PROVE GoingTo(kind'[queue'[j]]) = Busy
        BY <2>1, <2>2, <3>1, <3>3, <3>4, <4>1, <4>5
      <4> QED
        BY <4>4, <4>5
    <3> QED
      BY <1>6, <3>4
  <2> QED
    BY <2>3, <2>4, <2>5
<1> QED
  BY <1>2, <1>7, <1>8

\* The invariant of the runs is inductive.
LEMMA RunningStep ==
    ASSUME RunningInv, [Next]_vars
    PROVE  RunningInv'
BY PlaceStep, RunStep, QuietMoves, QuietAppends, InterruptMoves, InterruptAppends DEF RunningInv

\* It holds at the start.
LEMMA RunningInit == Init => RunningInv
BY PlaceInit DEF Init, RunningInv, RunInv, InterruptInv, QuietInv

-----------------------------------------------------------------------------
(* The listeners at work                                                   *)

\* A window in which listeners may still add commands.
Open(f) == f.fn = "window" /\ ~f.refused /\ Adds(f.signal) # {}

\* The listeners of program-exited, when the debugger has ended too.
Exiting(f) ==
    f.signal = "program-exited" /\ ~working /\ at = Stopped /\ debugger_state <= Loaded

\* The link that the listeners add before is in the queue.
LinkIn == Link = none \/ In(Link, queue)

\* The listeners are at work: nothing is sent or cancelled behind their back.
Waits(f) ==
    /\ LinkIn
    /\ last = none => Link = HeadLink
    /\ working \/ last = none \/ Exiting(f)

\* A command they have added is sent, before the link.
SendsFor(f) ==
    /\ LinkIn
    /\ last = none =>
         /\ queue # <<>> /\ Head(queue) # Link
         /\ kind[Head(queue)] \notin Asynchronous \cup {"set_environment"}
    /\ working \/ last = none \/ (Exiting(f) /\ GoingTo(kind[last]) = Running)

\* The queue sees that the debugger has ended, and with it the command that was to
\* run the program.
Completes(f) == Exiting(f) /\ last # none /\ GoingTo(kind[last]) = Running

\* Nothing is left to add a command to.
Over(f) == Exiting(f) /\ last = none /\ queue = <<>>

Place(i, f) ==
    \/ i = 1 /\ Waits(f)
    \/ i = 2 /\ stack[1].fn \in {"execute", "send"} /\ SendsFor(f)
    \/ i = 3 /\ stack[1].fn = "complete" /\ stack[2].fn = "send" /\ Completes(f)
    \/ /\ Over(f)
       /\ \A j \in DOMAIN stack : j < i => stack[j].fn \in Steps \cup {"window"} /\ ~Open(stack[j])

OpenInv == \A i \in DOMAIN stack : Open(stack[i]) => Place(i, stack[i])

\* Only one emission at a time has listeners that may add commands.
LEMMA OneOpen ==
    ASSUME CallsInv, OpenInv, NEW i \in DOMAIN stack, NEW j \in DOMAIN stack,
           Open(stack[i]), Open(stack[j])
    PROVE  i = j
<1>1. i \in Nat /\ j \in Nat /\ i >= 1 /\ j >= 1
  BY LenProperties DEF CallsInv
<1>2. ASSUME NEW x \in DOMAIN stack, NEW y \in DOMAIN stack, x \in Nat, y \in Nat, x >= 1,
             Open(stack[x]), Open(stack[y]), x < y
      PROVE  FALSE
  <2>1. Place(y, stack[y]) /\ stack[x].fn = "window"
    BY <1>2 DEF OpenInv, Open
  <2>2. CASE y = 2 /\ stack[1].fn \in {"execute", "send"}
    <3>1. x = 1
      BY <1>2, <2>2
    <3> QED
      BY <2>1, <2>2, <3>1
  <2>3. CASE y = 3 /\ stack[1].fn = "complete" /\ stack[2].fn = "send"
    <3>1. x = 1 \/ x = 2
      BY <1>2, <2>3
    <3> QED
      BY <2>1, <2>3, <3>1
  <2>4. y # 1
    BY <1>2
  <2> QED
    BY <1>2, <2>1, <2>2, <2>3, <2>4 DEF Place
<1> QED
  BY <1>1, <1>2

\* Where the open window is after a step that pushes other calls on the stack.
LEMMA OpenPuts ==
    ASSUME NEW n \in Nat, NEW m \in {0, 1}, Puts(n, m), \A j \in 1 .. n : ~Open(stack'[j]),
           NEW i \in DOMAIN stack, \A j \in DOMAIN stack : Open(stack[j]) => j = i,
           NEW x \in DOMAIN stack', Open(stack'[x])
    PROVE  x = i + n - m /\ stack'[x] = stack[i] /\ i > m /\ x > n
<1>1. x > n
  BY DEF Puts
<1>2. x + m - n \in DOMAIN stack /\ x + m - n > m /\ stack'[x] = stack[x + m - n]
  BY <1>1 DEF Puts, Below
<1>3. x + m - n = i
  BY <1>2
<1>4. x \in Nat
  BY DEF Puts
<1> QED
  BY <1>1, <1>2, <1>3, <1>4

\* What can happen next is told by the innermost call.
LEMMA TopSteps ==
    ASSUME TypeInv, [Next]_vars, 1 \in DOMAIN stack
    PROVE  /\ stack[1].fn = "complete" => Complete \/ UNCHANGED vars
           /\ stack[1].fn = "emit" => EmitStateChange \/ StateEmitted \/ UNCHANGED vars
           /\ stack[1].fn = "execute" => Execute \/ UNCHANGED vars
           /\ stack[1].fn = "send" => \/ Send \/ SendSetEnvironment \/ SendInterrupt \/ SendAbort
                                      \/ SendFails \/ AllSent \/ UNCHANGED vars
           /\ stack[1].fn = "window" => \/ CloseWindow \/ UNCHANGED vars
                                        \/ \E k \in Used : ListenerAppends(k)
<1>1. stack # <<>> /\ Head(stack) = stack[1]
  BY LenProperties DEF TypeInv, IInv, CallsInv
<1>2. \A fn : Top(fn) <=> stack[1].fn = fn
  BY <1>1 DEF Top
<1>3. ~QuitDebugger /\ ~ProgramRuns /\ ~SharedlibEvent /\ ~BackendEnds
      /\ (\A k \in Used : ~UserAppends(k)) /\ (\A s \in State : ~BackendDone(s))
  BY <1>1 DEF UserAppends, QuitDebugger, BackendDone, ProgramRuns, SharedlibEvent, BackendEnds
<1>4. Return \/ (\E k \in Used : ListenerAppends(k)) \/ UNCHANGED vars
  BY <1>3 DEF Next
<1>5. /\ Complete => stack[1].fn = "complete"
      /\ EmitStateChange \/ StateEmitted => stack[1].fn = "emit"
      /\ OpenWindow => stack[1].fn = "open"
      /\ CloseWindow \/ (\E k \in Used : ListenerAppends(k)) => stack[1].fn = "window"
      /\ Execute => stack[1].fn = "execute"
      /\ Send \/ SendSetEnvironment \/ SendInterrupt \/ SendAbort \/ SendFails \/ AllSent =>
             stack[1].fn = "send"
      /\ AddQuit => stack[1].fn = "quit"
      /\ RunAgain => stack[1].fn = "rerun"
      /\ CommandCallback => stack[1].fn = "callback"
      /\ DebuggerReady => stack[1].fn = "ready"
      /\ Reread => stack[1].fn = "reread"
  BY <1>2 DEF Complete, EmitStateChange, StateEmitted, OpenWindow, CloseWindow,
     Execute, Send, SendSetEnvironment, SendInterrupt, SendAbort, SendFails, Sends, AllSent,
     AddQuit, RunAgain, CommandCallback, DebuggerReady, Reread, ListenerAppends
<1> QED
  BY <1>4, <1>5 DEF Return

\* The signals whose listeners add commands.
LEMMA AddingSignals ==
    /\ \A x : Adds(x) # {} => x \in {"program-loaded", "sharedlib-event", "program-stopped",
                                     "program-moved", "program-exited", "callback"}
    /\ Adds("program-exited") = {"delete_variable"}
    /\ Need("delete_variable") = {PStopped, Running}
    /\ "delete_variable" \notin HighPriority
<1>1. \A x : Adds(x) # {} => x \in {"program-loaded", "sharedlib-event", "program-stopped",
                                     "program-moved", "program-exited", "callback"}
  BY DEF Adds
<1>2. Adds("program-exited") = {"delete_variable"}
  BY DEF Adds
<1>3. Need("delete_variable") = {PStopped, Running}
  BY DEF Need, AnyKinds, BreakKinds, StepKinds, StoppedKinds, FrameKinds
<1> QED
  BY <1>1, <1>2, <1>3 DEF HighPriority

\* Nothing changes.
LEMMA OpenStutter ==
    ASSUME OpenInv, UNCHANGED vars
    PROVE  OpenInv'
BY DEF OpenInv, Place, Waits, SendsFor, Completes, Over, LinkIn, Link, HeadLink, In, Exiting,
       vars, self, backend

\* One open window, which the step leaves at place p.
LEMMA OpenOne ==
    ASSUME NEW n \in Nat, NEW m \in {0, 1}, Puts(n, m), \A j \in 1 .. n : ~Open(stack'[j]),
           NEW i \in DOMAIN stack, \A j \in DOMAIN stack : Open(stack[j]) => j = i,
           NEW f, f = stack[i], i > m => Place(i + n - m, f)'
    PROVE  OpenInv'
<1>1. ASSUME NEW x \in DOMAIN stack', NEW g, g = stack'[x], Open(g) PROVE Place(x, g)'
  BY <1>1, OpenPuts
<1>2. \A g : Open(g)' = Open(g)
  BY DEF Open
<1> QED
  BY <1>1, <1>2 DEF OpenInv

\* The queue with a command before the link.
LEMMA PutBeforeLink ==
    ASSUME NEW c \in Command, queue \in Seq(Command), NEW p \in 1 .. Len(queue),
           queue' = SubSeq(queue, 1, p - 1) \o <<c>> \o SubSeq(queue, p, Len(queue))
    PROVE  /\ Len(queue') = Len(queue) + 1 /\ queue'[p] = c
           /\ \A j \in 1 .. Len(queue') :
                  j > p => j - 1 \in 1 .. Len(queue) /\ queue'[j] = queue[j - 1]
<1>1. queue' = Between(c, queue, p)
  BY DEF Between
<1> QED
  BY ONLY <1>1, c \in Command, queue \in Seq(Command), p \in 1 .. Len(queue), PutBetween

\* The listeners at work: they add a command, have one refused, or return.
LEMMA WaitsStep ==
    ASSUME RunningInv, OpenInv, [Next]_vars, 1 \in DOMAIN stack,
           Open(stack[1]), Waits(stack[1])
    PROVE  OpenInv'
<1> USE DEF RunningInv, PlaceInv, CallInv, TypeInv
<1>0. /\ CallsInv /\ stack # <<>> /\ Head(stack) = stack[1] /\ stack[1] \in Call
      /\ stack[1].fn = "window" /\ ~stack[1].refused
      /\ \A j \in DOMAIN stack : Open(stack[j]) => j = 1
  <2>1. CallsInv /\ stack # <<>> /\ Head(stack) = stack[1] /\ stack[1] \in Call
    BY LenProperties, ElementOfSeq DEF IInv, CallsInv
  <2> QED
    BY <2>1, OneOpen DEF Open
<1>1. PICK f : f = stack[1]
  OBVIOUS
<1>2. CASE CloseWindow
  BY <1>0, <1>1, <1>2, CloseCalls, OpenOne
<1>3. ASSUME NEW k \in Used, ListenerAppends(k) PROVE OpenInv'
  <2>1. /\ k \in Adds(f.signal) /\ k \notin Asynchronous \cup HighPriority \cup {"set_environment"}
        /\ GoingTo(k) = Busy
    BY <1>1, <1>3, ListenerCalls, AsyncKinds
  <2>2. AppendCommand(New, k, stack, <<[Head(stack) EXCEPT !.refused = TRUE]>> \o Tail(stack))
        /\ New \in Unused /\ New \in Command /\ k \in Kind
    BY <1>3, UsedKind DEF ListenerAppends, Unused, New
  <2>3. CASE CheckedState(k) \notin Need(k)
    <3>1. \/ Puts(1, 1) /\ stack'[1].refused
          \/ Puts(2, 1) /\ stack'[1].fn = "complete" /\ stack'[2].refused
      BY <1>3, <2>3, ListenerCalls
    <3>2. CASE Puts(1, 1) /\ stack'[1].refused
      <4>1. \A j \in 1 .. 1 : ~Open(stack'[j])
        BY <3>2 DEF Open
      <4> QED
        BY <1>0, <1>1, <3>2, <4>1, OpenOne
    <3>3. CASE Puts(2, 1) /\ stack'[1].fn = "complete" /\ stack'[2].refused
      <4>1. \A j \in 1 .. 2 : j = 1 \/ j = 2
        OBVIOUS
      <4>2. \A j \in 1 .. 2 : ~Open(stack'[j])
        BY <3>3, <4>1 DEF Open
      <4> QED
        BY <1>0, <1>1, <3>3, <4>2, OpenOne
    <3> QED
      BY <3>1, <3>2, <3>3
  <2>4. CASE CheckedState(k) \in Need(k)
    <3>1. Puts(1, 0) /\ stack'[1].fn = "execute"
      BY <1>3, <2>1, <2>4, ListenerCalls
    <3>2. /\ last' = last /\ insert_command' = insert_command /\ working' = working
          /\ at' = at /\ debugger_state' = debugger_state
          /\ kind' = [kind EXCEPT ![New] = k]
          /\ PutsBefore(New, k) \/ PutsLast(New, k)
      BY <2>1, <2>2, <2>4, AppendQueue DEF PutsFirst
    <3>3. /\ queue \in Seq(Command) /\ Len(queue) \in Nat /\ kind'[New] = k
          /\ queue # <<>> => Head(queue) = queue[1] /\ 1 \in 1 .. Len(queue)
          /\ DOMAIN queue = 1 .. Len(queue)
          /\ \A j \in 1 .. Len(queue) : queue[j] # New /\ queue[j] \in Command
          /\ last # New /\ New # none
      BY <2>2, <3>2, Places DEF Unused, Live, In
    <3>4. /\ Link' = Link /\ LinkIn
          /\ last = none => Link = HeadLink
          /\ working \/ last = none \/ Exiting(f)
      BY <1>1, <3>2 DEF Waits, Link
    <3>5. /\ queue' \in Seq(Command) /\ DOMAIN queue' = 1 .. Len(queue') /\ Len(queue') \in Nat
          /\ queue' # <<>> => Head(queue') = queue'[1]
      BY QueueStep, LenProperties DEF QueueType
    <3>6. LinkIn' /\ (last = none => queue' # <<>> /\ Head(queue') = New /\ New # Link)
      <4>1. CASE PutsLast(New, k)
        <5>1. Link = none /\ queue' = Append(queue, New)
          BY <4>1 DEF PutsLast
        <5>2. last = none => queue = <<>>
          BY <3>3, <3>4, <5>1, Places DEF HeadLink
        <5>3. queue = <<>> => Len(queue') = 1 /\ queue'[1] = New
          BY <2>2, <3>3, <5>1, AppendProperties
        <5>4. queue = <<>> => queue' # <<>> /\ Head(queue') = New
          BY <3>5, <5>3
        <5> QED
          BY <3>3, <3>4, <5>1, <5>2, <5>4 DEF LinkIn
      <4>2. CASE PutsBefore(New, k)
        <5>1. In(Link, queue)
          BY <3>4, <4>2 DEF PutsBefore, LinkIn
        <5>2. PICK p \in 1 .. Len(queue) :
                 /\ queue[p] = Link
                 /\ queue' = SubSeq(queue, 1, p - 1) \o <<New>> \o SubSeq(queue, p, Len(queue))
          BY <4>2, <5>1 DEF PutsBefore
        <5>3. /\ Len(queue') = Len(queue) + 1 /\ queue'[p] = New
              /\ \A j \in 1 .. Len(queue') : j > p => j - 1 \in 1 .. Len(queue) /\ queue'[j] = queue[j - 1]
          BY <2>2, <3>3, <5>2, PutBeforeLink
        <5>4. p + 1 \in 1 .. Len(queue') /\ queue'[p + 1] = Link
          <6>1. p + 1 \in 1 .. Len(queue') /\ p + 1 > p /\ (p + 1) - 1 = p
            BY <3>3, <5>3
          <6> QED
            BY <5>2, <5>3, <6>1
        <5>5. LinkIn'
          BY <3>4, <3>5, <5>4 DEF LinkIn, In
        <5>6. ASSUME last = none PROVE queue' # <<>> /\ Head(queue') = New /\ New # Link
          BY <3>3, <3>4, <3>5, <5>2, <5>3, <5>6 DEF HeadLink, UniqueInv
        <5> QED
          BY <5>5, <5>6
      <4> QED
        BY <3>2, <4>1, <4>2
    <3>7. working \/ last = none \/ (Exiting(f) /\ GoingTo(kind[last]) = Running)
      <4>1. SUFFICES ASSUME Exiting(f), last # none PROVE GoingTo(kind[last]) = Running
        BY <3>4
      <4>2. k = "delete_variable" /\ debugger_state <= Loaded
        BY <2>1, <4>1, AddingSignals DEF Exiting
      <4>3. insert_command # <<>>
        <5>1. Windows(stack) = 1 + Windows(Tail(stack)) /\ Windows(Tail(stack)) \in Nat
          BY <1>0, HeadTailProperties, WindowsHead, WindowsType DEF CallsInv, IsWindow
        <5>2. Len(insert_command) # 0
          BY <5>1 DEF CountInv
        <5>3. insert_command \in Seq(Command \cup {none})
          BY DEF QueueType
        <5> QED
          BY <5>2, <5>3, EmptySeq
      <4>4. CheckedState(k) = IF GoingTo(kind[last]) # Busy THEN GoingTo(kind[last]) ELSE debugger_state
        BY <4>1, <4>3 DEF CheckedState
      <4>5. CheckedState(k) \in {PStopped, Running}
        BY <2>4, <4>2, AddingSignals
      <4>6. debugger_state \in State /\ kind[last] \in Kind
        BY <4>1, Places DEF IInv, PhaseInv
      <4> QED
        BY <4>2, <4>4, <4>5, <4>6, GoingStates
           DEF State, PStopped, Running, Busy, Stopped, Started, Loaded
    <3>8. last # none => kind'[last] = kind[last]
      BY <3>2, <3>3, Places
    <3>9. SendsFor(f)'
      BY <2>1, <3>2, <3>3, <3>4, <3>6, <3>7, <3>8 DEF Exiting, SendsFor
    <3>10. Place(2, f)'
      BY <3>1, <3>9 DEF Place
    <3>11. \A j \in 1 .. 1 : ~Open(stack'[j])
      BY <3>1 DEF Open
    <3>12. 1 + 1 - 0 = 2
      OBVIOUS
    <3> QED
      BY <1>0, <1>1, <3>1, <3>10, <3>11, <3>12, OpenOne
  <2> QED
    BY <2>3, <2>4
<1> QED
  BY <1>0, <1>2, <1>3, OpenStutter, TopSteps

\* One open window, on a stack that the step leaves as it is.
LEMMA OpenSame ==
    ASSUME stack' = stack, NEW i \in DOMAIN stack, \A j \in DOMAIN stack : Open(stack[j]) => j = i,
           NEW f, f = stack[i], Place(i, f)'
    PROVE  OpenInv'
<1>1. ASSUME NEW x \in DOMAIN stack', NEW g, g = stack'[x], Open(g) PROVE Place(x, g)'
  BY <1>1
<1>2. \A g : Open(g)' = Open(g)
  BY DEF Open
<1> QED
  BY <1>1, <1>2 DEF OpenInv

\* The calls above an open window.
LEMMA OpenAt ==
    ASSUME CallsInv, OpenInv, NEW i \in DOMAIN stack, Open(stack[i])
    PROVE  /\ i \in Nat /\ i >= 1 /\ stack # <<>> /\ Head(stack) = stack[1] /\ 1 \in DOMAIN stack
           /\ Len(stack) \in Nat /\ DOMAIN stack = 1 .. Len(stack)
           /\ \A j \in DOMAIN stack : Open(stack[j]) => j = i
<1>1. Len(stack) \in Nat /\ DOMAIN stack = 1 .. Len(stack) /\ i \in Nat /\ i >= 1
  BY LenProperties DEF CallsInv
<1>2. stack # <<>> /\ Head(stack) = stack[1] /\ 1 \in DOMAIN stack
  BY <1>1 DEF CallsInv
<1> QED
  BY <1>1, <1>2, OneOpen

\* The link is not the command that is sent.
LEMMA LinkStays ==
    ASSUME TypeInv, queue # <<>>, LinkIn, Head(queue) # Link, queue' = Tail(queue),
           insert_command' = insert_command
    PROVE  LinkIn'
<1>1. /\ Head(queue) = queue[1] /\ Len(queue) \in Nat /\ DOMAIN queue = 1 .. Len(queue)
      /\ Len(queue') = Len(queue) - 1 /\ queue' \in Seq(Command)
      /\ \A j \in 1 .. Len(queue) - 1 : queue'[j] = queue[j + 1]
  BY Places
<1>2. DOMAIN queue' = 1 .. Len(queue')
  BY <1>1, LenProperties
<1>3. Link' = Link
  BY DEF Link
<1>4. CASE In(Link, queue)
  <2>1. PICK i \in 1 .. Len(queue) : queue[i] = Link
    BY <1>1, <1>4 DEF In
  <2>2. i # 1
    BY <1>1, <2>1
  <2>3. i - 1 \in 1 .. Len(queue) - 1 /\ (i - 1) + 1 = i
    BY <1>1, <2>2
  <2>4. i - 1 \in DOMAIN queue' /\ queue'[i - 1] = Link
    BY <1>1, <1>2, <2>1, <2>3
  <2> QED
    BY <1>3, <2>4 DEF LinkIn, In
<1> QED
  BY <1>3, <1>4 DEF LinkIn

\* The command they have added is sent, or waits.
LEMMA SendsStep ==
    ASSUME RunningInv, OpenInv, [Next]_vars, 2 \in DOMAIN stack, Open(stack[2]),
           stack[1].fn \in {"execute", "send"}, SendsFor(stack[2])
    PROVE  OpenInv'
<1> USE DEF RunningInv, PlaceInv, CallInv, TypeInv
<1>0. /\ CallsInv /\ stack # <<>> /\ Head(stack) = stack[1] /\ 1 \in DOMAIN stack
      /\ Len(stack) \in Nat /\ DOMAIN stack = 1 .. Len(stack)
      /\ \A j \in DOMAIN stack : Open(stack[j]) => j = 2
  BY OpenAt DEF IInv
<1>1. PICK f : f = stack[2]
  OBVIOUS
<1>2. CASE Execute
  <2>1. \A j \in 1 .. 2 : j = 1 \/ j = 2
    OBVIOUS
  <2>2. SendsFor(f)' = SendsFor(f) /\ Completes(f)' = Completes(f)
    BY <1>2 DEF Execute, SendsFor, Completes, LinkIn, Link, In, Exiting, self, backend
  <2>3. CASE Puts(1, 1) /\ stack'[1].fn = "send"
    <3>1. \A j \in 1 .. 1 : ~Open(stack'[j])
      BY <2>3 DEF Open
    <3>2. Place(2, f)' /\ 2 + 1 - 1 = 2
      BY <1>1, <2>2, <2>3 DEF Place
    <3> QED
      BY <1>0, <1>1, <2>3, <3>1, <3>2, OpenOne
  <2>4. CASE last # none /\ ~working /\ Puts(2, 1) /\ stack'[1].fn = "complete" /\ stack'[2].fn = "send"
    <3>1. \A j \in 1 .. 2 : ~Open(stack'[j])
      BY <2>1, <2>4 DEF Open
    <3>2. Completes(f)
      BY <1>1, <2>4 DEF SendsFor, Completes
    <3>3. Place(3, f)' /\ 2 + 2 - 1 = 3
      BY <2>2, <2>4, <3>2 DEF Place
    <3> QED
      BY <1>0, <1>1, <2>4, <3>1, <3>3, OpenOne
  <2> QED
    BY <1>2, <2>3, <2>4, ExecuteCalls
<1>3. CASE Send
  <2>1. /\ queue # <<>> /\ last = none /\ queue' = Tail(queue) /\ last' = Head(queue)
        /\ working' = TRUE /\ insert_command' = insert_command /\ stack' = stack
    BY <1>3 DEF Send, Sends
  <2>2. last' # none
    BY <2>1, Places
  <2>3. LinkIn'
    BY <2>1, LinkStays DEF SendsFor
  <2>4. Place(2, f)'
    BY <2>1, <2>2, <2>3 DEF Place, SendsFor
  <2> QED
    BY <1>0, <1>1, <2>1, <2>4, OpenSame
<1>4. ~SendSetEnvironment /\ ~SendInterrupt /\ ~SendAbort /\ ~SendFails
  BY <1>0 DEF SendSetEnvironment, SendInterrupt, SendAbort, SendFails, Sends, SendsFor, Asynchronous,
     FromListener, Open
<1>5. CASE AllSent
  <2>1. Puts(0, 1) /\ (queue = <<>> \/ last # none)
    BY <1>5, ReturnCalls
  <2>2. last # none
    BY <2>1 DEF SendsFor
  <2>3. Waits(f)
    BY <1>1, <2>2 DEF SendsFor, Waits
  <2>4. Waits(f)' = Waits(f)
    BY <1>5 DEF AllSent, Waits, LinkIn, Link, HeadLink, In, Exiting, self, backend
  <2>5. Place(1, f)' /\ 2 + 0 - 1 = 1
    BY <2>3, <2>4 DEF Place
  <2> QED
    BY <1>0, <1>1, <2>1, <2>5, OpenOne
<1> QED
  BY <1>0, <1>2, <1>3, <1>4, <1>5, OpenStutter, TopSteps

\* The queue sees that the debugger has ended: nothing queued can follow that.
LEMMA CompletesStep ==
    ASSUME RunningInv, OpenInv, [Next]_vars, 3 \in DOMAIN stack, Open(stack[3]),
           stack[1].fn = "complete", stack[2].fn = "send", Completes(stack[3])
    PROVE  OpenInv'
<1> USE DEF RunningInv, PlaceInv, CallInv, TypeInv
<1>0. /\ CallsInv /\ stack # <<>> /\ Head(stack) = stack[1] /\ 1 \in DOMAIN stack
      /\ Len(stack) \in Nat /\ DOMAIN stack = 1 .. Len(stack)
      /\ \A j \in DOMAIN stack : Open(stack[j]) => j = 3
  BY OpenAt DEF IInv
<1>1. PICK f : f = stack[3]
  OBVIOUS
<1>2. CASE Complete
  <2>1. /\ Puts(2, 1) /\ stack'[1].fn = "emit" /\ stack'[2].fn = "execute"
    BY <1>2, CompleteCalls
  <2>2. Head(stack).state = Stopped /\ ~working /\ at = Stopped
    BY <1>0 DEF FrameInv, Completes, Exiting
  <2>3. last' = none /\ working' = working /\ at' = at /\ debugger_state' = debugger_state
    BY <1>2 DEF Complete, FreeLast
  <2>4. queue' = Kept(queue, Stopped)
    BY <1>2, <2>2 DEF Completes, Running, Stopped, Complete, CancelUnexpected
  <2>5. queue' = <<>>
    <3>1. \A j \in 1 .. Len(queue) : Stopped \notin Need(kind[queue[j]])
      BY DEF RunInv, FromStopped, Runs, Completes
    <3>2. /\ queue' \in Seq(Command) /\ Thins(queue', queue)
          /\ \A i \in 1 .. Len(queue') : Stays(queue, Stopped, queue'[i])
      BY <2>4, KeptIs, Places
    <3>3. DOMAIN queue = 1 .. Len(queue)
      BY Places
    <3>4. Keepers(queue, Stopped) = {}
      BY <3>1, <3>3 DEF Keepers
    <3>5. ASSUME NEW i \in 1 .. Len(queue') PROVE FALSE
      BY <3>1, <3>2, <3>4 DEF Thins, Stays
    <3> QED
      BY <3>2, <3>5, EmptySeq, LenProperties
  <2>6. Exiting(f)'
    BY <1>1, <2>3 DEF Completes, Exiting
  <2>7. \A j \in 1 .. 2 : j = 1 \/ j = 2
    OBVIOUS
  <2>8. \A j \in 1 .. 2 : ~Open(stack'[j])
    BY <2>1, <2>7 DEF Open
  <2>9. stack'[3] = stack[2]
    BY <1>0, <2>1 DEF Puts, Below
  <2>10. ASSUME NEW j \in DOMAIN stack', j < 4
         PROVE  stack'[j].fn \in Steps \cup {"window"} /\ ~Open(stack'[j])
    BY <2>1, <2>9, <2>10 DEF Puts, Steps, Open
  <2>11. \A g : Open(g)' = Open(g)
    BY DEF Open
  <2>12. Place(4, f)' /\ 3 + 2 - 1 = 4
    BY <2>3, <2>5, <2>6, <2>10, <2>11 DEF Place, Over
  <2> QED
    BY <1>0, <1>1, <2>1, <2>8, <2>12, OpenOne
<1> QED
  BY <1>0, <1>2, OpenStutter, TopSteps

\* While listeners are at work, insert_command is not empty.
LEMMA OpenLink ==
    ASSUME TypeInv, stack # <<>>, Head(stack).fn = "window"
    PROVE  insert_command # <<>>
<1> USE DEF TypeInv
<1>1. Windows(stack) = 1 + Windows(Tail(stack)) /\ Windows(Tail(stack)) \in Nat
  BY HeadTailProperties, WindowsHead, WindowsType DEF IInv, CallsInv, IsWindow
<1>2. Len(insert_command) # 0
  BY <1>1 DEF CountInv
<1>3. insert_command \in Seq(Command \cup {none})
  BY DEF QueueType
<1> QED
  BY <1>2, <1>3, EmptySeq

\* With nothing left, the variable to delete is refused.
LEMMA OverRefuses ==
    ASSUME TypeInv, NEW k, ListenerAppends(k), Over(stack[1])
    PROVE  CheckedState(k) \notin Need(k)
<1> USE DEF TypeInv
<1>1. k \in Adds(stack[1].signal) /\ stack # <<>> /\ stack[1].fn = "window"
  BY ListenerCalls
<1>2. k = "delete_variable"
  BY <1>1, AddingSignals DEF Over, Exiting
<1>3. insert_command # <<>>
  BY <1>1, OpenLink DEF ListenerAppends, Top
<1>4. CheckedState(k) = debugger_state
  BY <1>3 DEF CheckedState, Over
<1>5. debugger_state \in State /\ debugger_state <= Loaded
  BY DEF IInv, PhaseInv, Over, Exiting
<1> QED
  BY <1>2, <1>4, <1>5, AddingSignals DEF State, Stopped, Loaded, PStopped, Running

\* A command that is refused ends the work of the listeners.
LEMMA RefusedCloses ==
    ASSUME TypeInv, NEW k, ListenerAppends(k), CheckedState(k) \notin Need(k),
           \A j \in DOMAIN stack : Open(stack[j]) => j = 1
    PROVE  OpenInv'
<1> USE DEF TypeInv
<1>1. 1 \in DOMAIN stack
  <2>1. stack # <<>>
    BY ListenerCalls
  <2> QED
    BY <2>1, LenProperties DEF IInv, CallsInv
<1>2. PICK f : f = stack[1]
  OBVIOUS
<1>3. \/ Puts(1, 1) /\ stack'[1].refused
      \/ Puts(2, 1) /\ stack'[1].fn = "complete" /\ stack'[2].refused
  BY ListenerCalls
<1>4. CASE Puts(1, 1) /\ stack'[1].refused
  BY <1>1, <1>2, <1>4, OpenOne DEF Open
<1>5. CASE Puts(2, 1) /\ stack'[1].fn = "complete" /\ stack'[2].refused
  BY <1>1, <1>2, <1>5, OpenOne DEF Open
<1> QED
  BY <1>3, <1>4, <1>5

Under(f) == f.fn \in Steps \cup {"window"} /\ ~Open(f)

\* The calls that end a debugger with nothing left to do.
LEMMA OverPuts ==
    ASSUME NEW n \in Nat, NEW m \in {0, 1}, Puts(n, m), \A j \in 1 .. n : Under(stack'[j]),
           NEW i \in DOMAIN stack, i > m, \A j \in DOMAIN stack : Open(stack[j]) => j = i,
           \A j \in DOMAIN stack : j < i => Under(stack[j]),
           NEW f, f = stack[i], Over(f)'
    PROVE  OpenInv'
<1>1. i \in Nat
  BY DEF Puts
<1>2. ASSUME NEW j \in DOMAIN stack', j < i + n - m PROVE Under(stack'[j])
  <2>1. CASE j > n
    BY <1>1, <1>2, <2>1 DEF Puts, Below
  <2>2. CASE j <= n
    <3>1. j \in 1 .. n
      BY <2>2 DEF Puts
    <3> QED
      BY <3>1
  <2>3. j \in Nat
    BY DEF Puts
  <2> QED
    BY <2>1, <2>2, <2>3
<1>3. \A g : Open(g)' = Open(g)
  BY DEF Open
<1>4. Place(i + n - m, f)'
  BY <1>2, <1>3 DEF Place, Under
<1>5. \A j \in 1 .. n : ~Open(stack'[j])
  BY DEF Under
<1> QED
  BY <1>4, <1>5, OpenOne

\* Nothing is left: the calls return, and what the listeners add is refused.
LEMMA OverStep ==
    ASSUME RunningInv, OpenInv, [Next]_vars, NEW i \in DOMAIN stack, Open(stack[i]),
           Over(stack[i]), \A j \in DOMAIN stack : j < i => Under(stack[j])
    PROVE  OpenInv'
<1> USE DEF RunningInv, PlaceInv, CallInv, TypeInv
<1>0. /\ CallsInv /\ stack # <<>> /\ Head(stack) = stack[1] /\ 1 \in DOMAIN stack
      /\ Len(stack) \in Nat /\ DOMAIN stack = 1 .. Len(stack) /\ i \in Nat /\ i >= 1
      /\ \A j \in DOMAIN stack : Open(stack[j]) => j = i
  BY OpenAt DEF IInv
<1>1. PICK f : f = stack[i]
  OBVIOUS
<1>2. Over(f) /\ ~working /\ at = Stopped /\ debugger_state <= Loaded /\ last = none /\ queue = <<>>
  BY <1>1 DEF Over, Exiting
<1>3. ASSUME UNCHANGED <<queue, last, debugger_state, working, at>> PROVE Over(f)'
  BY <1>2, <1>3 DEF Over, Exiting
<1>4. CASE CloseWindow
  <2>1. Puts(0, 1)
    BY <1>4, CloseCalls
  <2>2. UNCHANGED <<queue, last, debugger_state, working, at>>
    BY <1>4 DEF CloseWindow, backend
  <2>3. \A j \in 1 .. 0 : Under(stack'[j])
    OBVIOUS
  <2>4. CASE i = 1
    BY <1>0, <1>1, <2>1, <2>4, OpenOne
  <2>5. CASE i > 1
    BY <1>0, <1>1, <1>3, <2>1, <2>2, <2>3, <2>5, OverPuts
  <2> QED
    BY <1>0, <2>4, <2>5
<1>5. ASSUME NEW k \in Used, ListenerAppends(k) PROVE OpenInv'
  BY <1>0, <1>1, <1>2, <1>5, ListenerCalls, OverRefuses, RefusedCloses DEF Open
<1>6. i > 1 => stack[1].fn \in Steps \cup {"window"}
  BY <1>0 DEF Under
<1>7. CASE Complete
  <2>1. Puts(2, 1) /\ stack[1].fn = "complete" /\ stack'[1].fn = "emit" /\ stack'[2].fn = "execute"
    BY <1>7, CompleteCalls
  <2>2. \A j \in 1 .. 2 : j = 1 \/ j = 2
    OBVIOUS
  <2>3. \A j \in 1 .. 2 : Under(stack'[j])
    BY <2>1, <2>2 DEF Under, Steps, Open
  <2>4. UNCHANGED <<queue, last, debugger_state, working, at>>
    BY <1>2, <1>7 DEF Complete, FreeLast
  <2>5. i > 1
    BY <1>0, <2>1 DEF Open
  <2> QED
    BY <1>0, <1>1, <1>3, <2>1, <2>3, <2>4, <2>5, OverPuts
<1>8. CASE EmitStateChange
  <2>1. stack[1].fn = "emit" /\ stack[1].state # debugger_state
    BY <1>8, EmitCalls
  <2>2. stack[1].state = Stopped
    BY <1>0, <1>2, <2>1 DEF FrameInv
  <2>3. debugger_state \in {Started, Loaded}
    BY <1>2, <2>1, <2>2 DEF IInv, PhaseInv, State, Stopped, Started, Loaded, Running
  <2>4. Via(Stopped) = debugger_state - 1
    BY <2>3 DEF Via, Stopped, Started, Loaded
  <2>5. SignalOf(Via(Stopped)) \in {"debugger-stopped", "program-unloaded"}
    BY <2>3, <2>4 DEF Stopped, Started, SignalOf, Starts, Loaded, PStopped, Running
  <2>6. debugger_state' <= Loaded
    BY <1>0, <1>8, <2>2, <2>3, <2>4 DEF EmitStateChange, StateAfter, Starts, Stopped, Started, Loaded,
       PStopped, Running
  <2>7. Puts(1, 0) /\ stack'[1].fn = "window" /\ stack'[1].signal = SignalOf(Via(Stopped))
    BY <1>8, <2>2, <2>5, EmitCalls
  <2>8. Adds(stack'[1].signal) = {}
    BY <2>5, <2>7 DEF Adds
  <2>9. \A j \in 1 .. 1 : Under(stack'[j])
    BY <2>7, <2>8 DEF Under, Open
  <2>10. Over(f)'
    BY <1>2, <1>8, <2>6 DEF EmitStateChange, Over, Exiting, backend
  <2> QED
    BY <1>0, <1>1, <2>7, <2>9, <2>10, OverPuts
<1>9. CASE StateEmitted \/ AllSent
  <2>1. Puts(0, 1) /\ stack[1].fn \in {"emit", "send"}
    BY <1>9, ReturnCalls
  <2>2. UNCHANGED <<queue, last, debugger_state, working, at>>
    BY <1>9 DEF StateEmitted, AllSent, self, backend
  <2>3. \A j \in 1 .. 0 : Under(stack'[j])
    OBVIOUS
  <2>4. i > 1
    BY <1>0, <2>1 DEF Open
  <2> QED
    BY <1>0, <1>1, <1>3, <2>1, <2>2, <2>3, <2>4, OverPuts
<1>10. CASE Execute
  <2>1. Puts(1, 1) /\ stack[1].fn = "execute" /\ stack'[1].fn = "send"
    BY <1>2, <1>10, ExecuteCalls
  <2>2. UNCHANGED <<queue, last, debugger_state, working, at>>
    BY <1>10 DEF Execute, self, backend
  <2>3. \A j \in 1 .. 1 : Under(stack'[j])
    BY <2>1 DEF Under, Steps, Open
  <2>4. i > 1
    BY <1>0, <2>1 DEF Open
  <2> QED
    BY <1>0, <1>1, <1>3, <2>1, <2>2, <2>3, <2>4, OverPuts
<1>11. ~Send /\ ~SendSetEnvironment /\ ~SendInterrupt /\ ~SendAbort /\ ~SendFails
  BY <1>2 DEF Send, SendSetEnvironment, SendInterrupt, SendAbort, SendFails, Sends
<1>12. stack[1].fn \in Steps \cup {"window"}
  BY <1>0, <1>6 DEF Open
<1> QED
  BY <1>0, <1>4, <1>5, <1>7, <1>8, <1>9, <1>10, <1>11, <1>12, OpenStutter, TopSteps DEF Steps

Closed(s) == \A j \in DOMAIN s : ~Open(s[j])

\* A stack without emissions.
LEMMA NoWindows ==
    ASSUME NEW s \in Seq(Call), Windows(s) = 0
    PROVE  Closed(s)
<1>1. ASSUME NEW i \in 1 .. Len(s), s[i].fn = "window" PROVE FALSE
  <2>1. s[i] \in WindowCalls
    BY <1>1, ElementOfSeq DEF WindowCalls
  <2>2. DOMAIN s = 1 .. Len(s) /\ s[i] \in Range(s)
    BY LenProperties DEF Range
  <2>3. Filter(s, WindowCalls) \in Seq(Call) /\ s[i] \in Range(Filter(s, WindowCalls))
    BY <2>1, <2>2, FilterRange, FilterIsSeq
  <2>4. Filter(s, WindowCalls) # <<>>
    BY <2>3 DEF Range
  <2> QED
    BY <2>3, <2>4, EmptySeq DEF Windows
<1>2. DOMAIN s = 1 .. Len(s)
  BY LenProperties
<1> QED
  BY <1>1, <1>2 DEF Closed, Open

\* No emission is open after a step that pushes none.
LEMMA ClosedPuts ==
    ASSUME NEW n \in Nat, NEW m \in {0, 1}, Puts(n, m), Closed(stack),
           \A j \in 1 .. n : ~Open(stack'[j])
    PROVE  Closed(stack')
<1>1. ASSUME NEW j \in DOMAIN stack' PROVE ~Open(stack'[j])
  <2>1. CASE j > n
    BY <2>1 DEF Puts, Below, Closed
  <2>2. CASE j <= n
    <3>1. j \in 1 .. n
      BY <2>2 DEF Puts
    <3> QED
      BY <3>1
  <2>3. j \in Nat
    BY DEF Puts
  <2> QED
    BY <2>1, <2>2, <2>3
<1> QED
  BY <1>1 DEF Closed

\* Windows are opened by the three steps that call listeners.
LEMMA StaysClosed ==
    ASSUME CallInv, [Next]_vars, ~EmitStateChange, ~OpenWindow, ~CommandCallback, Closed(stack)
    PROVE  Closed(stack')
<1> USE DEF CallInv, TypeInv
<1>0. CallsInv
  BY DEF IInv
<1>1. \A j \in 1 .. 2 : j = 1 \/ j = 2
  OBVIOUS
<1>2. ASSUME NEW n \in {0, 1, 2}, NEW m \in {0, 1}, Puts(n, m),
             n >= 1 => ~Open(stack'[1]), n = 2 => ~Open(stack'[2])
      PROVE  Closed(stack')
  BY <1>2, ClosedPuts
<1>3. CASE stack' = stack
  BY <1>3
<1>4. CASE stack' \in Seq(Call) /\ Windows(stack') = 0
  BY <1>4, NoWindows
<1>5. CASE Complete
  BY <1>2, <1>5, CompleteCalls DEF Open
<1>6. CASE StateEmitted \/ AllSent \/ CloseWindow
  <2>1. Puts(0, 1)
    BY <1>6, ReturnCalls, CloseCalls
  <2> QED
    BY <1>2, <2>1
<1>7. CASE Execute
  BY <1>2, <1>7, ExecuteCalls DEF Open
<1>8. CASE SendSetEnvironment
  BY <1>2, <1>8, SetEnvironmentCalls DEF Open
<1>9. CASE SendAbort
  BY <1>2, <1>9, AbortCalls DEF Open
<1>10. CASE Send \/ SendInterrupt \/ SendFails \/ UNCHANGED vars
  BY <1>3, <1>10 DEF Send, SendInterrupt, SendFails, vars
<1>11. CASE DebuggerReady \/ Reread
  BY <1>2, <1>11, ReadyCalls, RereadCalls DEF Open
<1>12. CASE AddQuit \/ RunAgain
  BY <1>0, <1>2, <1>12, TopIs, FinalAppend DEF AddQuit, RunAgain, Open
<1>13. ASSUME NEW k \in Used, ListenerAppends(k) PROVE Closed(stack')
  BY <1>2, <1>13, ListenerCalls DEF Open
<1>14. ASSUME NEW k \in Used, UserAppends(k) PROVE Closed(stack')
  BY <1>4, <1>14, UserCalls
<1>15. CASE QuitDebugger
  BY <1>4, <1>15, QuitCalls
<1>16. ASSUME NEW s \in State, BackendDone(s) PROVE Closed(stack')
  BY <1>4, <1>16, DoneCalls
<1>17. CASE ProgramRuns \/ SharedlibEvent \/ BackendEnds
  BY <1>4, <1>17, RunsCalls, SharedlibCalls, EndsCalls
<1> QED
  BY <1>5, <1>6, <1>7, <1>8, <1>9, <1>10, <1>11, <1>12, <1>13, <1>14, <1>15, <1>16, <1>17
     DEF Next, Return

\* The listeners that a step calls add before the command that is first in the queue.
LEMMA NewOpens ==
    ASSUME TypeInv, NEW m \in {0, 1}, Puts(1, m), Closed(stack),
           queue' = queue, last' = last,
           insert_command' = <<HeadLink>> \o insert_command,
           NEW g, g = stack'[1],
           Open(g) => working' \/ last = none \/ Exiting(g)'
    PROVE  OpenInv'
<1> USE DEF TypeInv
<1>1. HeadLink' = HeadLink /\ (HeadLink = none \/ In(HeadLink, queue'))
  BY Places DEF HeadLink, In
<1>2. Link' = HeadLink
  BY Places DEF QueueType, HeadLink, Link
<1>3. Open(g) => Waits(g)'
  BY <1>1, <1>2 DEF Waits, LinkIn
<1>4. ASSUME NEW x \in DOMAIN stack', x # 1 PROVE ~Open(stack'[x])
  BY <1>4 DEF Puts, Below, Closed
<1>5. ASSUME NEW x \in DOMAIN stack', NEW f, f = stack'[x], Open(f) PROVE Place(x, f)'
  <2>1. x = 1 /\ f = g
    BY <1>4, <1>5
  <2> QED
    BY <1>3, <1>5, <2>1 DEF Place
<1>6. \A f : Open(f)' = Open(f)
  BY DEF Open
<1> QED
  BY <1>5, <1>6 DEF OpenInv

\* An emission starts while none is open.
LEMMA NoneStep ==
    ASSUME RunningInv, [Next]_vars, Closed(stack)
    PROVE  OpenInv'
<1> USE DEF RunningInv, PlaceInv, CallInv, TypeInv
<1>0. CallsInv
  BY DEF IInv
<1>1. PICK g : g = stack'[1]
  OBVIOUS
<1>2. CASE EmitStateChange
  <2>1. /\ Top("emit") /\ stack # <<>> /\ Head(stack) = stack[1] /\ stack[1].fn = "emit"
        /\ 1 \in DOMAIN stack
        /\ queue' = queue /\ last' = last /\ working' = working /\ at' = at
    BY <1>0, <1>2, TopIs DEF EmitStateChange, backend
  <2>2. CASE stack' = stack
    <3>1. Closed(stack')
      BY <2>2
    <3> QED
      BY <3>1 DEF OpenInv, Closed, Open
  <2>3. CASE /\ Puts(1, 0) /\ insert_command' = <<HeadLink>> \o insert_command
             /\ stack'[1].signal = SignalOf(Via(stack[1].state))
    <3>1. ASSUME Open(g), ~working, last # none PROVE Exiting(g)'
      <4>1. stack[1].state = at
        BY <2>1, <3>1 DEF FrameInv
      <4>2. ~Top("complete") /\ ~Only({"execute", "send", "quit"})
        BY <2>1 DEF Top, Only
      <4>3. at = Stopped
        BY <3>1, <4>2 DEF QuietInv
      <4>4. debugger_state \in State /\ debugger_state # Stopped
        BY <1>2, <2>1, <4>1, <4>3 DEF EmitStateChange, IInv, PhaseInv
      <4>5. Via(Stopped) = Loaded /\ debugger_state > Loaded
        <5>1. CASE debugger_state > Loaded
          BY <5>1 DEF Via, Stopped, Loaded
        <5>2. CASE debugger_state = Started
          BY <1>1, <2>3, <3>1, <4>1, <4>3, <5>2 DEF Via, Stopped, Started, Loaded, SignalOf,
             Starts, PStopped, Running, Adds, Open
        <5>3. CASE debugger_state = Loaded
          BY <1>1, <2>3, <3>1, <4>1, <4>3, <5>3 DEF Via, Stopped, Started, Loaded, SignalOf,
             Starts, PStopped, Running, Adds, Open
        <5> QED
          BY <4>4, <5>1, <5>2, <5>3 DEF State, Stopped, Started, Loaded, Running
      <4>6. SignalOf(Loaded) = "program-exited"
        BY <4>4, <4>5 DEF SignalOf, Starts, State, Stopped, Started, Loaded, PStopped, Running
      <4>7. debugger_state' = Loaded
        BY <1>2, <2>1, <4>1, <4>3, <4>5 DEF EmitStateChange, StateAfter, Starts, Loaded
      <4>8. debugger_state' <= Loaded
        BY <4>7 DEF Loaded
      <4> QED
        BY <1>1, <2>1, <2>3, <3>1, <4>1, <4>3, <4>5, <4>6, <4>8 DEF Exiting
    <3> QED
      BY <1>1, <2>1, <2>3, <3>1, NewOpens
  <2> QED
    BY <1>2, <2>2, <2>3, EmitCalls
<1>3. CASE OpenWindow
  BY <1>0, <1>1, <1>3, TopIs, OpenCalls, NewOpens DEF OpenWindow, backend, Only, FrameInv,
     QuietInv
<1>4. CASE CommandCallback
  <2>1. /\ stack # <<>> /\ stack[1].fn = "callback" /\ 1 \in DOMAIN stack
        /\ queue' = queue /\ last' = last /\ working' = working
    BY <1>0, <1>4, TopIs DEF CommandCallback
  <2>2. working
    BY <2>1 DEF FrameInv
  <2>3. CASE Puts(1, 1) /\ insert_command' = <<HeadLink>> \o insert_command
    BY <1>1, <2>1, <2>2, <2>3, NewOpens
  <2>4. CASE Puts(0, 1)
    BY <2>4, ClosedPuts DEF OpenInv, Closed, Open
  <2> QED
    BY <1>4, <2>3, <2>4, CallbackCalls
<1>5. CASE ~EmitStateChange /\ ~OpenWindow /\ ~CommandCallback
  <2>1. Closed(stack')
    BY <1>5, StaysClosed
  <2> QED
    BY <2>1 DEF OpenInv, Closed, Open
<1> QED
  BY <1>2, <1>3, <1>4, <1>5

\* The invariant of the open emission is inductive.
LEMMA OpenStep ==
    ASSUME RunningInv, OpenInv, [Next]_vars
    PROVE  OpenInv'
<1>1. CASE Closed(stack)
  BY <1>1, NoneStep
<1>2. ASSUME NEW i \in DOMAIN stack, Open(stack[i]) PROVE OpenInv'
  <2>1. Place(i, stack[i])
    BY <1>2 DEF OpenInv
  <2>2. CASE i = 1 /\ Waits(stack[i])
    BY <1>2, <2>2, WaitsStep
  <2>3. CASE i = 2 /\ stack[1].fn \in {"execute", "send"} /\ SendsFor(stack[i])
    BY <1>2, <2>3, SendsStep
  <2>4. CASE i = 3 /\ stack[1].fn = "complete" /\ stack[2].fn = "send" /\ Completes(stack[i])
    BY <1>2, <2>4, CompletesStep
  <2>5. CASE /\ Over(stack[i])
             /\ \A j \in DOMAIN stack : j < i => stack[j].fn \in Steps \cup {"window"} /\ ~Open(stack[j])
    BY <1>2, <2>5, OverStep DEF Under
  <2> QED
    BY <2>1, <2>2, <2>3, <2>4, <2>5 DEF Place
<1> QED
  BY <1>1, <1>2 DEF Closed

\* The link that a command goes before is in the queue when it is looked for.
LEMMA LinkFound ==
    ASSUME RunningInv, OpenInv, [Next]_vars, ~crashed
    PROVE  ~crashed'
<1> USE DEF RunningInv, PlaceInv, CallInv, TypeInv
<1>1. CASE ~Appending
  BY <1>1, NoAppendQueue
<1>2. CASE Appending
  <2>1. PICK c \in Command, k \in Kind :
           /\ \E rest, refused : AppendCommand(c, k, rest, refused)
           /\ \/ AddQuit
              \/ RunAgain
              \/ QuitDebugger
              \/ UserAppends(k) /\ k \in Used
              \/ ListenerAppends(k)
    BY <1>2, AddedCommand
  <2>2. CASE CheckedState(k) \notin Need(k) \/ PutsFirst(c, k) \/ PutsLast(c, k)
    BY <2>1, <2>2, AppendQueue DEF PutsFirst, PutsLast
  <2>3. CASE CheckedState(k) \in Need(k) /\ PutsBefore(c, k)
    <3>1. Link # none
      BY <2>3 DEF PutsBefore
    <3>2. ListenerAppends(k)
      BY <2>1, <3>1, NoLinks
    <3>3. 1 \in DOMAIN stack /\ Open(stack[1])
      BY <3>2, ListenerCalls, TopIs DEF ListenerAppends, IInv, Open
    <3>4. Place(1, stack[1])
      BY <3>3 DEF OpenInv
    <3>5. ~Over(stack[1])
      BY <2>3, <3>2, OverRefuses
    <3>6. In(Link, queue)
      BY <3>1, <3>4, <3>5 DEF Place, Waits, LinkIn
    <3> QED
      BY <2>3, <3>6 DEF PutsBefore
  <2> QED
    BY <2>1, <2>2, <2>3, AppendQueue
<1> QED
  BY <1>1, <1>2

(* The inductive invariant of the links that insert_command keeps: it relates *)
(* the queue and the calls in progress to the listeners at work.              *)
LinkInv == RunningInv /\ OpenInv /\ ~crashed

(* The commands in progress and in the queue are in one place each, commands  *)
(* that need a stopped debugger never wait behind one that runs the program,  *)
(* a queue that waits for nothing is about to be sent, the call of a listener *)
(* finds its link, and nothing freed has been used: dma_debugger_queue_append,*)
(* _complete and _execute keep this together with the backend's reports.      *)
THEOREM LinksAreQueued == Spec => []LinkInv
<1>1. Init => LinkInv
  BY RunningInit DEF Init, OpenInv, LinkInv
<1>2. LinkInv /\ [Next]_vars => LinkInv'
  BY RunningStep, OpenStep, LinkFound DEF LinkInv
<1> QED
  BY <1>1, <1>2, PTL DEF Spec

(* insert_command holds bare links of the queue, and dma_queue_cancel_unexpected *)
(* frees the commands it cancels: whatever the listeners, the callbacks and the  *)
(* backend do while a link is held, the command that dma_debugger_queue_append   *)
(* goes before has not been freed.                                               *)
THEOREM NoUseOfFreedLink == Spec => []NoUseAfterFree
<1>1. LinkInv => NoUseAfterFree
  BY DEF LinkInv, NoUseAfterFree
<1> QED
  BY <1>1, LinksAreQueued, PTL

-----------------------------------------------------------------------------
(* What a step puts on the stack                                           *)

\* A call that a step puts on the stack: why, and with what.
Fresh(f) ==
    \/ f.fn \in {"quit", "rerun", "reread"}
    \/ f.fn = "execute" /\ (Complete \/ Appending)
    \/ f.fn = "send" /\ Execute
    \/ f.fn \in {"complete", "emit"} /\ ~working' /\ f.state = at'
    \/ f.fn = "complete" /\ stack = <<>> /\ Appending /\ f.state = debugger_state
    \/ f.fn = "emit" /\ ProgramRuns /\ f.state = Running
    \/ f.fn = "emit" /\ Complete /\ stack[1].fn = "complete" /\ f.state = stack[1].state
    \/ f.fn = "window" /\ EmitStateChange /\ f.signal = SignalOf(Via(stack[1].state))
    \/ f.fn = "window" /\ OpenWindow /\ stack[1].fn = "open" /\ f.signal = stack[1].signal
    \/ f.fn = "window" /\ CommandCallback /\ stack[1].fn = "callback" /\ f.signal = "callback"
    \/ /\ f.fn = "window" /\ f.refused /\ Appending
       /\ 1 \in DOMAIN stack /\ stack[1].fn = "window" /\ f.signal = stack[1].signal
    \/ f.fn = "callback" /\ reply /\ \E s \in State : BackendDone(s)
    \/ f.fn = "open" /\ f.signal = "program-moved" /\ \E s \in State : BackendDone(s)
    \/ f.fn = "ready" /\ \E s \in State : BackendDone(s)
    \/ f.fn = "open" /\ f.signal = "sharedlib-event" /\ SharedlibEvent

\* n such calls, in place of m of the calls in progress.
Pushes(n, m) == Puts(n, m) /\ \A i \in 1 .. n : Fresh(stack'[i])

\* On the empty stack of the main loop.
LEMMA EmptyPuts ==
    ASSUME stack = <<>>, stack' \in Seq(Call), DOMAIN stack' = 1 .. Len(stack')
    PROVE  Puts(Len(stack'), 0)
<1>1. Len(stack') \in Nat /\ Len(stack) = 0 /\ DOMAIN stack = 1 .. 0
  BY LenProperties
<1> QED
  BY <1>1 DEF Puts, Below

\* A listener whose command is refused appends no more.
LEMMA ListenerRefused ==
    ASSUME IInv, NEW k, ListenerAppends(k), CheckedState(k) \notin Need(k)
    PROVE  \E n \in {1, 2} :
               /\ Puts(n, 1) /\ stack[1].fn = "window"
               /\ stack'[n].fn = "window" /\ stack'[n].refused
               /\ stack'[n].signal = stack[1].signal
               /\ n = 2 => ~working /\ stack'[1].fn = "complete" /\ stack'[1].state = at
<1> DEFINE f == [stack[1] EXCEPT !.refused = TRUE]
<1>1. /\ CallsInv /\ stack # <<>> /\ Head(stack) = stack[1] /\ stack[1].fn = "window"
      /\ stack[1] \in Call /\ Tail(stack) \in Seq(Call)
  BY TopIs, CallStack DEF ListenerAppends, IInv
<1>2. AppendCommand(New, k, stack, <<f>> \o Tail(stack))
  BY <1>1 DEF ListenerAppends
<1>3. f \in Call /\ f.fn = "window" /\ f.refused /\ f.signal = stack[1].signal
  BY <1>1 DEF Call, FrameType
<1> HIDE DEF f
<1> DEFINE rest == <<f>> \o Tail(stack)
<1>4. stack \in Seq(Call) /\ rest \in Seq(Call)
  BY <1>1, <1>3 DEF CallsInv
<1>5. \/ On(0, rest)
      \/ ~working /\ On(1, rest) /\ stack'[1].fn = "complete" /\ stack'[1].state = at
  <2> HIDE DEF rest
  <2>1. AppendCommand(New, k, stack, rest)
    BY <1>2 DEF rest
  <2> QED
    BY <1>4, <2>1, AppendShape
<1>6. \A n \in {0, 1} : On(n, rest) => Puts(n + 1, 1) /\ stack'[n + 1] = f
  BY <1>1, <1>3, OnReplaced
<1>7. /\ On(0, rest) => Puts(1, 1) /\ stack'[1] = f
      /\ On(1, rest) => Puts(2, 1) /\ stack'[2] = f
  BY <1>6
<1> HIDE DEF rest
<1> QED
  BY <1>1, <1>3, <1>5, <1>7

\* What an append leaves alone.
LEMMA AppendsLeave ==
    ASSUME CallInv, Appending
    PROVE  /\ last' = last /\ insert_command' = insert_command
           /\ debugger_state' = debugger_state /\ at' = at /\ working' = working
           /\ ends' = ends /\ runs' = runs /\ job' = job /\ reply' = reply
<1>1. TypeInv
  BY DEF CallInv
<1>2. PICK c \in Command, k \in Kind : \E rest, refused : AppendCommand(c, k, rest, refused)
  BY <1>1, Appends
<1> QED
  BY <1>1, <1>2, AppendQueue

\* What an append pushes.
LEMMA AppendPushes ==
    ASSUME CallInv, Appending
    PROVE  \E n \in Nat, m \in {0, 1} : Pushes(n, m)
<1>0. IInv /\ CallsInv
  BY DEF CallInv, TypeInv, IInv
<1>1. working' = working /\ at' = at
  BY AppendsLeave
<1>2. CASE \E k \in Used : UserAppends(k)
  BY <1>0, <1>1, <1>2, UserCalls, EmptyPuts DEF Pushes, Fresh
<1>3. CASE QuitDebugger
  BY <1>0, <1>1, <1>3, QuitCalls, EmptyPuts DEF Pushes, Fresh
<1>4. CASE \E k \in Used : ListenerAppends(k)
  BY <1>0, <1>1, <1>4, ListenerCalls, AsyncKinds, ListenerRefused DEF Pushes, Fresh, Puts
<1>5. CASE AddQuit \/ RunAgain
  BY <1>0, <1>1, <1>5, TopIs, AsyncKinds, FinalAppend DEF AddQuit, RunAgain, Pushes, Fresh
<1> QED
  BY <1>2, <1>3, <1>4, <1>5 DEF Appending

\* What a step pushes.
LEMMA StepPushes ==
    ASSUME CallInv, [Next]_vars
    PROVE  \E n \in Nat, m \in {0, 1} : Pushes(n, m)
<1>0. /\ IInv /\ CallsInv /\ TypeInv /\ stack \in Seq(Call) /\ Len(stack) \in Nat
      /\ DOMAIN stack = 1 .. Len(stack)
  BY LenProperties DEF CallInv, TypeInv, IInv, CallsInv
<1>1. ASSUME stack' = stack PROVE \E n \in Nat, m \in {0, 1} : Pushes(n, m)
  <2>1. Puts(0, 0)
    BY <1>0, <1>1 DEF Puts, Below
  <2> QED
    BY <2>1 DEF Pushes
<1>2. CASE Appending
  BY <1>2, AppendPushes
<1>3. CASE UNCHANGED vars \/ Send \/ SendInterrupt \/ SendFails
  BY <1>1, <1>3 DEF vars, Send, SendInterrupt, SendFails
<1>4. CASE Complete
  BY <1>0, <1>4, CompleteCalls DEF Fresh, Pushes
<1>5. CASE EmitStateChange
  BY <1>0, <1>1, <1>5, EmitCalls DEF Pushes, Fresh
<1>6. CASE StateEmitted \/ AllSent
  <2>1. Puts(0, 1)
    BY <1>0, <1>6, ReturnCalls
  <2> QED
    BY <2>1 DEF Pushes
<1>7. CASE OpenWindow
  BY <1>0, <1>7, OpenCalls DEF Pushes, Fresh
<1>8. CASE CloseWindow
  <2>1. Puts(0, 1)
    BY <1>0, <1>8, CloseCalls
  <2> QED
    BY <2>1 DEF Pushes
<1>9. CASE Execute \/ SendSetEnvironment \/ DebuggerReady \/ Reread
  <2>1. CASE Execute
    <3>1. working' = working /\ at' = at
      BY <2>1 DEF Execute, backend
    <3>2. CASE Puts(1, 1) /\ stack'[1].fn = "send"
      BY <2>1, <3>2 DEF Pushes, Fresh
    <3>3. CASE /\ ~working /\ Puts(2, 1) /\ stack'[1].fn = "complete" /\ stack'[1].state = at
               /\ stack'[2].fn = "send"
      BY <2>1, <3>1, <3>3 DEF Fresh, Pushes
    <3> QED
      BY <1>0, <2>1, <3>2, <3>3, ExecuteCalls
  <2>2. CASE SendSetEnvironment \/ Reread
    BY <1>0, <2>2, SetEnvironmentCalls, RereadCalls DEF SendSetEnvironment, Reread, backend,
       Pushes, Fresh
  <2>3. CASE DebuggerReady
    <3>1. ~working'
      BY <2>3 DEF DebuggerReady, Idle
    <3>2. Puts(1, 1) /\ stack'[1].fn = "complete" /\ stack'[1].state = at'
      BY <1>0, <2>3, ReadyCalls
    <3> QED
      BY <3>1, <3>2 DEF Pushes, Fresh
  <2> QED
    BY <1>9, <2>1, <2>2, <2>3
<1>10. CASE SendAbort \/ BackendEnds
  <2>1. at' = Stopped /\ ~working'
    BY <1>10 DEF SendAbort, BackendEnds, BackendGone
  <2>2. /\ Puts(2, 0) /\ stack'[1].fn = "emit" /\ stack'[1].state = Stopped
        /\ stack'[2].fn = "reread"
    BY <1>0, <1>10, AbortCalls, EndsCalls, EmptyPuts
  <2>3. \A i \in 1 .. 2 : i = 1 \/ i = 2
    OBVIOUS
  <2>4. \A i \in 1 .. 2 : Fresh(stack'[i])
    BY <2>1, <2>2, <2>3 DEF Fresh
  <2> QED
    BY <2>2, <2>4 DEF Pushes
<1>11. CASE CommandCallback
  BY <1>0, <1>11, CallbackCalls DEF Pushes, Fresh
<1>12. CASE \E s \in State : BackendDone(s)
  <2>1. PICK s \in State : BackendDone(s)
    BY <1>12
  <2>2. /\ Puts(Len(stack'), 0) /\ Len(stack') \in 1 .. 3
        /\ stack'[Len(stack')].fn = "ready"
        /\ \A i \in 1 .. Len(stack') : i < Len(stack') =>
               \/ i = 1 /\ stack'[i].fn = "callback" /\ reply
               \/ stack'[i].fn = "open" /\ stack'[i].signal = "program-moved" /\ runs
    BY <1>0, <2>1, DoneCalls, EmptyPuts
  <2>3. \A i \in 1 .. Len(stack') : i = Len(stack') \/ i < Len(stack')
    BY <2>2
  <2>4. \A i \in 1 .. Len(stack') : Fresh(stack'[i])
    BY <1>12, <2>2, <2>3 DEF Fresh
  <2> QED
    BY <2>2, <2>4 DEF Pushes
<1>13. CASE ProgramRuns
  <2>1. /\ Puts(Len(stack'), 0) /\ Len(stack') = 1
        /\ stack'[1].fn = "emit" /\ stack'[1].state = Running
    BY <1>0, <1>13, RunsCalls, EmptyPuts
  <2> QED
    BY <1>13, <2>1 DEF Pushes, Fresh
<1>14. CASE SharedlibEvent
  <2>1. at' = PStopped /\ ~working'
    BY <1>14 DEF SharedlibEvent, Idle
  <2>2. /\ Puts(Len(stack'), 0) /\ Len(stack') = 3
        /\ stack'[1].fn = "complete" /\ stack'[1].state = PStopped
        /\ stack'[2].fn = "open" /\ stack'[2].signal = "sharedlib-event"
        /\ stack'[3].fn = "rerun"
    BY <1>0, <1>14, SharedlibCalls, EmptyPuts
  <2>3. \A i \in 1 .. 3 : i = 1 \/ i = 2 \/ i = 3
    OBVIOUS
  <2>4. \A i \in 1 .. 3 : Fresh(stack'[i])
    BY <1>14, <2>1, <2>2, <2>3 DEF Fresh
  <2> QED
    BY <2>2, <2>4 DEF Pushes
<1> QED
  BY <1>2, <1>3, <1>4, <1>5, <1>6, <1>7, <1>8, <1>9, <1>10, <1>11, <1>12, <1>13, <1>14
     DEF Next, Return, Appending

\* Where the calls in progress after a step come from.
LEMMA CallOrigin ==
    ASSUME CallInv, [Next]_vars, NEW i \in DOMAIN stack'
    PROVE  \/ Fresh(stack'[i])
           \/ \E j \in DOMAIN stack : stack[j] = stack'[i] /\ (i > 1 \/ j > 1 \/ stack'[1] = stack[1])
<1>1. PICK n \in Nat, m \in {0, 1} : Pushes(n, m)
  BY StepPushes
<1>2. CASE i \in 1 .. n
  BY <1>1, <1>2 DEF Pushes
<1>3. CASE i \notin 1 .. n
  <2>1. i > n /\ i \in Nat
    BY <1>1, <1>3 DEF Pushes, Puts
  <2>2. i + m - n \in DOMAIN stack /\ stack'[i] = stack[i + m - n]
    BY <1>1, <2>1 DEF Pushes, Puts, Below
  <2>3. i = 1 /\ i + m - n = 1 => stack'[1] = stack[1]
    BY <2>2
  <2>4. i + m - n \in Nat /\ i + m - n >= 1
    BY <1>1, <2>2 DEF Pushes, Puts
  <2> QED
    BY <1>1, <2>1, <2>2, <2>3, <2>4
<1> QED
  BY <1>2, <1>3

\* The steps that change what the backend does.
LEMMA BackendMoves ==
    ASSUME CallInv, [Next]_vars
    PROVE  \/ /\ at' = at /\ working' = working /\ reply' = reply /\ ends' = ends /\ runs' = runs
              /\ job' = job \/ Complete
           \/ Send /\ ~working
           \/ SendAbort \/ BackendEnds \/ CommandCallback \/ DebuggerReady
           \/ ProgramRuns \/ SharedlibEvent
<1>1. CASE Appending
  BY <1>1, AppendsLeave
<1>2. CASE ~Appending
  <2>1. Send /\ working => /\ at' = at /\ working' = working /\ reply' = reply
                           /\ ends' = ends /\ runs' = runs /\ job' = job
    BY DEF Send, CallInv, TypeInv, BackendType
  <2> QED
    BY <1>2, <2>1 DEF Next, Return, Appending, vars, backend, Complete, EmitStateChange, StateEmitted,
       OpenWindow, CloseWindow, Execute, SendSetEnvironment, SendInterrupt, SendFails,
       AllSent, Reread, BackendDone
<1> QED
  BY <1>1, <1>2

\* When the backend is done or ends, no call but those that send stays.
LEMMA IdleCalls ==
    ASSUME CallInv, SendAbort \/ BackendEnds \/ DebuggerReady \/ SharedlibEvent
    PROVE  /\ ~working' /\ ~runs' /\ job' = none /\ ends' = {}
           /\ 1 \in DOMAIN stack' /\ stack'[1].fn \in {"complete", "emit"}
           /\ \A i \in DOMAIN stack' :
                  \/ stack'[i].fn \in {"execute", "send", "reread", "rerun"}
                  \/ stack'[i].fn \in {"complete", "emit"} /\ stack'[i].state = at'
                  \/ stack'[i].fn = "open" /\ stack'[i].signal = "sharedlib-event" /\ at' = PStopped
           /\ SendAbort \/ stack = <<>> \/ (stack[1].fn = "ready" /\ Len(stack) = 1)
<1>0. /\ IInv /\ CallsInv /\ TypeInv /\ stack \in Seq(Call) /\ Len(stack) \in Nat
      /\ DOMAIN stack = 1 .. Len(stack)
  BY LenProperties DEF CallInv, TypeInv, IInv, CallsInv
<1>1. ~working' /\ ~runs' /\ job' = none /\ ends' = {}
  BY DEF SendAbort, BackendEnds, DebuggerReady, SharedlibEvent, BackendGone, Idle
<1>2. CASE SendAbort
  <2>1. /\ Puts(2, 0) /\ stack'[1].fn = "emit" /\ stack'[1].state = Stopped
        /\ stack'[2].fn = "reread" /\ stack[1].fn = "send" /\ at' = Stopped
    BY <1>0, <1>2, AbortCalls DEF SendAbort, BackendGone
  <2>2. Only(Steps) /\ \A i \in DOMAIN stack : stack[i].fn \in {"complete", "emit"} => i = 1
    BY <1>0, <1>2 DEF SendAbort, Sends, QueueType, TypeInv, AbortInv, CallInv
  <2>3. \A j \in DOMAIN stack : stack[j].fn \in {"execute", "send"}
    BY <2>1, <2>2 DEF Only, Steps
  <2>4. \A i \in DOMAIN stack' :
            i = 1 \/ i = 2 \/ (i > 2 /\ \E j \in DOMAIN stack : stack'[i] = stack[j])
    BY <2>1 DEF Puts, Below
  <2>5. \A i \in DOMAIN stack' :
            i = 1 \/ i = 2 \/ stack'[i].fn \in {"execute", "send"}
    BY <2>3, <2>4
  <2> QED
    BY <1>1, <1>2, <2>1, <2>5 DEF Puts
<1>3. CASE BackendEnds \/ SharedlibEvent
  <2>1. CASE BackendEnds
    <3>1. /\ stack = <<>> /\ DOMAIN stack' = 1 .. 2 /\ at' = Stopped
          /\ stack'[1].fn = "emit" /\ stack'[1].state = Stopped /\ stack'[2].fn = "reread"
      BY <1>0, <2>1, EndsCalls DEF BackendEnds, BackendGone
    <3>2. \A i \in 1 .. 2 : i = 1 \/ i = 2
      OBVIOUS
    <3> QED
      BY <1>1, <3>1, <3>2
  <2>2. CASE SharedlibEvent
    <3>1. /\ stack = <<>> /\ DOMAIN stack' = 1 .. 3 /\ at' = PStopped
          /\ stack'[1].fn = "complete" /\ stack'[1].state = PStopped
          /\ stack'[2].fn = "open" /\ stack'[2].signal = "sharedlib-event"
          /\ stack'[3].fn = "rerun"
      BY <1>0, <2>2, SharedlibCalls DEF SharedlibEvent, Idle
    <3>2. \A i \in 1 .. 3 : i = 1 \/ i = 2 \/ i = 3
      OBVIOUS
    <3> QED
      BY <1>1, <3>1, <3>2
  <2> QED
    BY <1>3, <2>1, <2>2
<1>4. CASE DebuggerReady
  BY <1>0, <1>1, <1>4, ReadyCalls DEF CallInv, FrameInv, Puts, Below
<1> QED
  BY <1>2, <1>3, <1>4

-----------------------------------------------------------------------------
(* The states that are announced                                           *)

\* The state the backend is in, as far as it has told the queue.
Settles(s) == s = at \/ (working /\ runs /\ s = Running)

\* Emissions lead to that state.
SettleInv ==
    /\ Settles(debugger_state) \/ Stacked({"complete", "emit"})
    /\ \A i \in DOMAIN stack :
           stack[i].fn \in {"complete", "emit"} => Settles(stack[i].state)

\* Calls stay on the stack unless they return.
LEMMA StackStays ==
    ASSUME CallInv, [Next]_vars, NEW F, Stacked(F), F \subseteq Function \ {"window"}
    PROVE  \/ Stacked(F)'
           \/ Top("complete") /\ "complete" \in F /\ Complete
           \/ Top("emit") /\ "emit" \in F /\ StateEmitted
           \/ Top("open") /\ "open" \in F /\ OpenWindow
           \/ Top("callback") /\ "callback" \in F /\ CommandCallback
           \/ Top("execute") /\ "execute" \in F /\ Execute
           \/ Top("send") /\ "send" \in F /\ AllSent
           \/ Top("ready") /\ "ready" \in F /\ DebuggerReady
           \/ Top("reread") /\ "reread" \in F /\ Reread
           \/ stack[1].fn \in F /\ stack[1].fn \in {"quit", "rerun"} /\ Appending
<1>1. CASE ~Appending
  BY <1>1, OtherStacks
<1>2. CASE Appending
  BY <1>2, AppendTop, AppendStacks
<1> QED
  BY <1>1, <1>2

\* An emission ends in the state of the backend, and only a run moves that.
LEMMA SettleStep ==
    ASSUME CallInv, SettleInv, [Next]_vars
    PROVE  SettleInv'
<1>0. IInv /\ CallsInv /\ TypeInv /\ stack' \in Seq(Call)
  BY CallStep DEF CallInv, TypeInv, IInv, CallsInv
<1>1. CASE SendAbort \/ BackendEnds \/ DebuggerReady \/ SharedlibEvent
  BY <1>1, IdleCalls DEF Stacked, SettleInv, Settles
<1>2. CASE ~(SendAbort \/ BackendEnds \/ DebuggerReady \/ SharedlibEvent)
  <2>1. ASSUME NEW s, Settles(s) PROVE Settles(s)'
    <3>1. CASE /\ at' = at /\ working' = working /\ runs' = runs
      BY <2>1, <3>1 DEF Settles
    <3>2. CASE Send /\ ~working
      BY <2>1, <3>2 DEF Settles, Send
    <3>3. CASE CommandCallback
      BY <2>1, <3>3 DEF Settles, CommandCallback
    <3>4. CASE ProgramRuns
      BY <2>1, <3>4 DEF Settles, ProgramRuns
    <3> QED
      BY <1>2, <3>1, <3>2, <3>3, <3>4, BackendMoves
  <2>2. ASSUME NEW i \in DOMAIN stack', stack'[i].fn \in {"complete", "emit"},
               NEW s, s = stack'[i].state
        PROVE  Settles(s)'
    <3>1. SUFFICES Settles(s) \/ (~working' /\ s = at') \/ (ProgramRuns /\ s = Running)
      BY <2>1 DEF Settles, ProgramRuns, vars
    <3>2. CASE \E j \in DOMAIN stack : stack[j] = stack'[i]
      BY <2>2, <3>2 DEF SettleInv
    <3>3. CASE Appending /\ stack = <<>> /\ s = debugger_state
      BY <3>3 DEF SettleInv, Stacked
    <3>4. CASE Complete /\ stack[1].fn = "complete" /\ s = stack[1].state
      BY <1>0, <3>4, TopIs DEF Complete, SettleInv
    <3>5. CASE Fresh(stack'[i])
      BY <2>2, <3>3, <3>4, <3>5 DEF Fresh
    <3> QED
      BY <3>2, <3>5, CallOrigin
  <2>3. Settles(debugger_state)' \/ Stacked({"complete", "emit"})'
    <3>1. CASE Stacked({"complete", "emit"})
      <4>1. CASE Complete
        BY <1>0, <4>1, CompleteCalls DEF Puts, Stacked
      <4>2. CASE StateEmitted
        BY <1>0, <2>1, <4>2, ReturnCalls, TopIs DEF StateEmitted, SettleInv, self, backend,
           Settles
      <4>3. {"complete", "emit"} \subseteq Function \ {"window"}
        BY DEF Function
      <4> QED
        BY <3>1, <4>1, <4>2, <4>3, StackStays
    <3>2. CASE Settles(debugger_state) /\ ~Stacked({"complete", "emit"})
      <4>1. debugger_state' = debugger_state \/ EmitStateChange
        <5>1. CASE Appending
          BY <5>1, AppendsLeave
        <5>2. CASE ~Appending
          BY <5>2 DEF Next, Return, Appending, vars, self, Complete, StateEmitted,
             OpenWindow, CloseWindow, Execute, Send, SendSetEnvironment, SendInterrupt, SendAbort,
             SendFails, AllSent, CommandCallback, DebuggerReady, Reread, BackendDone, ProgramRuns,
             SharedlibEvent, BackendEnds
        <5> QED
          BY <5>1, <5>2
      <4>2. ~EmitStateChange
        BY <1>0, <3>2, TopIs DEF EmitStateChange, Stacked
      <4> QED
        BY <2>1, <3>2, <4>1, <4>2
    <3> QED
      BY <3>1, <3>2 DEF SettleInv
  <2> QED
    BY <2>2, <2>3 DEF SettleInv
<1> QED
  BY <1>1, <1>2

-----------------------------------------------------------------------------
(* The callback that is still to come                                      *)

\* A callback is still to come only from a command that does not run the program.
ReplyInv ==
    /\ reply => working /\ ~runs /\ ~({Loaded, PStopped} \subseteq ends)
    /\ reply /\ Stacked({"ready"}) => Top("callback")
    /\ Stacked({"callback"}) => reply
    /\ runs => working /\ {Loaded, PStopped} \subseteq ends

\* The commands with a callback leave the program where it is.
LEMMA AsksKinds ==
    /\ \A k \in Asks : \A s : ~({Loaded, PStopped} \subseteq EndsOf(k, s))
    /\ \A k \in Asks : Stopped \notin Need(k) /\ GoingTo(k) = Busy
    /\ Asks \cap (Asynchronous \cup HighPriority \cup {"set_environment", "load"}) = {}
<1>1. \A k \in Asks : /\ k \notin {"load", "exit", "attach", "user", "quit", "unload", "abort",
                                   "interrupt", "set_environment"} \cup RunKinds
                      /\ k \in BreakKinds \cup FrameKinds \cup StoppedKinds \cup AnyKinds
                               \cup {"remove_break", "list_break"}
  BY DEF Asks, BreakKinds, FrameKinds, StoppedKinds, AnyKinds, RunKinds, StepKinds
<1>2. \A k \in Asks : \A s : EndsOf(k, s) = IF s = Loaded THEN {Started, Loaded} ELSE {s}
  BY <1>1 DEF EndsOf
<1>3. \A k \in Asks : \A s : ~({Loaded, PStopped} \subseteq EndsOf(k, s))
  BY <1>2 DEF Loaded, PStopped, Started
<1>4. \A k \in Asks : GoingTo(k) = Busy
  BY <1>1 DEF GoingTo
<1>5. \A k \in Asks : Stopped \notin Need(k)
  BY <1>1 DEF Need, BreakKinds, FrameKinds, StoppedKinds, AnyKinds, StepKinds,
              Stopped, Started, Loaded, PStopped, Running
<1> QED
  BY <1>1, <1>3, <1>4, <1>5 DEF Asynchronous, HighPriority

\* The callback comes first in a report.
LEMMA DoneCallback ==
    ASSUME IInv, NEW s \in State, BackendDone(s), reply
    PROVE  (Top("callback"))'
<1>1. stack' = <<Replying>> \o (IF runs /\ s = PStopped THEN <<Opening("program-moved")>> ELSE <<>>)
                \o <<Ready(s)>>
  BY DEF BackendDone
<1> DEFINE t == (IF runs /\ s = PStopped THEN <<Opening("program-moved")>> ELSE <<>>) \o <<Ready(s)>>
<1>2. Replying \in Call /\ t \in Seq(Call)
  BY Calls DEF Signal
<1>3. stack' = <<Replying>> \o t
  BY <1>1
<1> HIDE DEF t
<1>4. stack' # <<>> /\ Head(stack') = Replying
  BY <1>2, <1>3
<1> QED
  BY <1>4, Frames DEF Top

\* The callback is called in the report that ends the command.
LEMMA ReplyStep ==
    ASSUME CallInv, ReplyInv, [Next]_vars
    PROVE  ReplyInv'
<1>0. IInv /\ CallsInv /\ TypeInv /\ reply \in BOOLEAN /\ working \in BOOLEAN /\ runs \in BOOLEAN
  BY DEF CallInv, TypeInv, IInv, BackendType
<1>1. CASE SendAbort \/ BackendEnds \/ DebuggerReady \/ SharedlibEvent
  <2>1. ~working' /\ ~runs' /\ ~Stacked({"callback"})'
    BY <1>1, IdleCalls DEF Stacked
  <2>2. ~reply'
    BY <1>0, <1>1, TopIs DEF SendAbort, BackendEnds, BackendGone, DebuggerReady, Stacked, Top,
       ReplyInv, SharedlibEvent
  <2> QED
    BY <2>1, <2>2 DEF ReplyInv
<1>2. CASE \E s \in State : BackendDone(s)
  <2>1. PICK s \in State : BackendDone(s)
    BY <1>2
  <2>2. UNCHANGED backend /\ stack = <<>>
    BY <2>1 DEF BackendDone
  <2>3. Stacked({"callback"})' => reply
    BY <1>0, <2>1, DoneCalls DEF Stacked
  <2>4. reply => (Top("callback"))'
    BY <1>0, <2>1, DoneCallback
  <2> QED
    BY <2>2, <2>3, <2>4 DEF backend, ReplyInv
<1>3. CASE /\ ~\E s \in State : BackendDone(s)
           /\ ~(SendAbort \/ BackendEnds \/ DebuggerReady \/ SharedlibEvent)
  <2>1. ASSUME NEW F, F \subseteq {"callback", "ready"}, Stacked(F)' PROVE Stacked(F)
    BY <1>3, <2>1, CallOrigin DEF Stacked, Fresh
  <2>2. Stacked({"callback"})' => Stacked({"callback"})
    BY <2>1
  <2>3. Stacked({"ready"})' => Stacked({"ready"})
    BY <2>1
  <2>4. CASE CommandCallback
    <3>1. ~reply' /\ runs' = runs /\ working' = working /\ ends' = ends
      BY <2>4 DEF CommandCallback
    <3>2. stack[1].fn = "callback" /\ (Puts(0, 1) \/ (Puts(1, 1) /\ stack'[1].fn = "window"))
      BY <1>0, <2>4, CallbackCalls
    <3>3. ~Stacked({"callback"})'
      <4>1. ASSUME NEW i \in DOMAIN stack', stack'[i].fn = "callback" PROVE FALSE
        <5>1. CASE Puts(0, 1)
          BY <4>1, <5>1 DEF Puts, Below, CallInv, FrameInv
        <5>2. CASE Puts(1, 1) /\ stack'[1].fn = "window"
          BY <4>1, <5>2 DEF Puts, Below, CallInv, FrameInv
        <5> QED
          BY <3>2, <5>1, <5>2
      <4> QED
        BY <4>1 DEF Stacked
    <3> QED
      BY <3>1, <3>3 DEF ReplyInv
  <2>5. CASE Send /\ ~working
    BY <2>2, <2>3, <2>5, AsksKinds DEF Send, CallInv, FrameInv, Stacked, ReplyInv
  <2>6. CASE ProgramRuns
    BY <2>2, <2>6 DEF ProgramRuns, ReplyInv
  <2>7. CASE /\ ~CommandCallback
             /\ at' = at /\ working' = working /\ reply' = reply /\ ends' = ends /\ runs' = runs
    <3>1. ASSUME reply', Stacked({"ready"})' PROVE (Top("callback"))'
      <4>1. Top("callback")
        BY <2>3, <2>7, <3>1 DEF ReplyInv
      <4>2. /\ ~Top("complete") /\ ~Top("emit") /\ ~Top("open") /\ ~Top("window")
            /\ ~Top("execute") /\ ~Top("send") /\ ~Top("quit") /\ ~Top("rerun") /\ ~Top("reread")
            /\ stack # <<>>
        BY <4>1 DEF Top
      <4>3. UNCHANGED vars
        BY <1>3, <2>7, <4>2 DEF Next, Return, Complete, EmitStateChange, StateEmitted,
             OpenWindow, CloseWindow, Execute, Send, SendSetEnvironment, SendInterrupt, SendAbort,
             SendFails, AllSent, AddQuit, RunAgain, Reread, ProgramRuns, Sends,
             UserAppends, ListenerAppends, QuitDebugger
      <4> QED
        BY <4>1, <4>3 DEF vars, Top
    <3> QED
      BY <2>2, <2>7, <3>1 DEF ReplyInv
  <2> QED
    BY <1>3, <2>4, <2>5, <2>6, <2>7, BackendMoves
<1> QED
  BY <1>1, <1>2, <1>3

-----------------------------------------------------------------------------
(* What is sent after the signals                                          *)

\* Nothing is sent before the signals that lead to it are emitted, unless a
\* listener sends it.
SentInv == \A i \in DOMAIN stack :
    stack[i].fn \in {"execute", "send"} /\ ~working =>
        \/ debugger_state = at
        \/ \E j \in DOMAIN stack : j < i /\ stack[j].fn \in {"complete", "emit"}
        \/ \E j \in DOMAIN stack : j = i + 1 /\ stack[j].fn = "window" /\ ~stack[j].refused

\* A call that sends stays behind the ones it waits for.
LEMMA SentOld ==
    ASSUME CallInv, SentInv, ~working, debugger_state' = debugger_state, at' = at,
           NEW n \in Nat, NEW m \in {0, 1}, Puts(n, m),
           m = 1 => stack[1].fn \notin {"complete", "emit"},
           NEW i \in DOMAIN stack', i > n, stack'[i].fn \in {"execute", "send"}
    PROVE  \/ debugger_state' = at'
           \/ \E j \in DOMAIN stack' : j < i /\ stack'[j].fn \in {"complete", "emit"}
           \/ \E j \in DOMAIN stack' : j = i + 1 /\ stack'[j].fn = "window" /\ ~stack'[j].refused
<1> DEFINE o == i + m - n
<1>1. o \in DOMAIN stack /\ o > m /\ stack'[i] = stack[o] /\ i \in Nat
  BY DEF Puts, Below
<1>2. \A j \in DOMAIN stack : j > m =>
          j + n - m \in DOMAIN stack' /\ stack'[j + n - m] = stack[j] /\ j \in Nat
  BY DEF Puts, Below
<1>3. CASE debugger_state = at
  BY <1>3
<1>4. CASE \E j \in DOMAIN stack : j < o /\ stack[j].fn \in {"complete", "emit"}
  <2>1. PICK j \in DOMAIN stack : j < o /\ stack[j].fn \in {"complete", "emit"}
    BY <1>4
  <2>2. j > m
    BY <2>1 DEF Puts
  <2>3. j + n - m \in DOMAIN stack' /\ stack'[j + n - m] = stack[j] /\ j \in Nat
    BY <1>2, <2>1, <2>2
  <2>4. j + n - m < i
    BY <1>1, <2>1, <2>3
  <2> QED
    BY <2>1, <2>3, <2>4
<1>5. CASE \E j \in DOMAIN stack : j = o + 1 /\ stack[j].fn = "window" /\ ~stack[j].refused
  BY <1>1, <1>2, <1>5
<1> QED
  BY <1>1, <1>3, <1>4, <1>5 DEF SentInv

\* A command that is added is sent at once by the main loop.
LEMMA AppendsInSync ==
    ASSUME CallInv, Appending, ~working, ~\E k \in Used : ListenerAppends(k)
    PROVE  debugger_state = at /\ \A i \in DOMAIN stack : stack[i].fn \in {"quit", "rerun"}
<1>1. \/ stack = <<>>
      \/ 1 \in DOMAIN stack /\ stack[1].fn \in {"quit", "rerun"} /\ DOMAIN stack = 1 .. Len(stack) /\ Len(stack) = 1
  BY AppendTop
<1>2. \A i \in DOMAIN stack : stack[i].fn \in {"quit", "rerun"}
  BY <1>1
<1>3. ~Stacked({"complete", "emit", "reread"})
  BY <1>2 DEF Stacked
<1> QED
  BY <1>2, <1>3 DEF CallInv, SyncInv

\* The calls that are about to send wait for those signals.
LEMMA SentStep ==
    ASSUME CallInv, SentInv, [Next]_vars
    PROVE  SentInv'
<1>0. IInv /\ CallsInv /\ TypeInv /\ stack' \in Seq(Call) /\ DOMAIN stack' = 1 .. Len(stack')
      /\ Len(stack') \in Nat
  BY CallStep, LenProperties DEF CallInv, TypeInv, IInv, CallsInv
<1>1. SUFFICES ASSUME ~working', NEW i \in DOMAIN stack', stack'[i].fn \in {"execute", "send"}
      PROVE  \/ debugger_state' = at'
             \/ \E j \in DOMAIN stack' : j < i /\ stack'[j].fn \in {"complete", "emit"}
             \/ \E j \in DOMAIN stack' : j = i + 1 /\ stack'[j].fn = "window" /\ ~stack'[j].refused
  BY DEF SentInv
<1>2. ASSUME 1 \in DOMAIN stack', stack'[1].fn \in {"complete", "emit"}
      PROVE  \E j \in DOMAIN stack' : j < i /\ stack'[j].fn \in {"complete", "emit"}
  <2>1. i # 1
    BY <1>1, <1>2
  <2> QED
    BY <1>0, <1>1, <1>2, <2>1
<1>3. CASE SendAbort \/ BackendEnds \/ DebuggerReady \/ SharedlibEvent
  BY <1>2, <1>3, IdleCalls
<1>4. CASE Complete
  BY <1>0, <1>2, <1>4, CompleteCalls DEF Puts
<1>5. CASE ~(SendAbort \/ BackendEnds \/ DebuggerReady \/ SharedlibEvent \/ Complete)
  <2>1. ~working /\ at' = at
    <3>1. Send => working'
      BY DEF Send
    <3>2. CommandCallback \/ ProgramRuns => working' = working /\ at' = at
      BY DEF CommandCallback, ProgramRuns
    <3> QED
      BY <1>1, <1>5, <3>1, <3>2, BackendMoves
  <2>2. CASE EmitStateChange
    <3>1. stack[1].fn = "emit" /\ 1 \in DOMAIN stack /\ (stack' = stack \/ Puts(1, 0))
      BY <1>0, <2>2, EmitCalls, TopIs DEF EmitStateChange
    <3>2. CASE stack' = stack
      BY <1>2, <3>1, <3>2
    <3>3. CASE Puts(1, 0)
      <4>1. 1 + 1 - 0 \in DOMAIN stack' /\ stack'[1 + 1 - 0] = stack[1]
        BY <3>1, <3>3 DEF Puts, Below
      <4>2. stack'[1].fn = "window" \/ stack' = stack
        BY <1>0, <2>2, EmitCalls
      <4>3. i # 1 /\ i # 2
        BY <1>1, <3>1, <4>1, <4>2
      <4>4. 2 < i /\ 2 \in DOMAIN stack' /\ stack'[2].fn = "emit"
        BY <1>0, <3>1, <4>1, <4>3
      <4> QED
        BY <4>4
    <3> QED
      BY <3>1, <3>2, <3>3
  <2>3. CASE StateEmitted
    BY <1>0, <2>1, <2>3, ReturnCalls, TopIs DEF StateEmitted, CallInv, FrameInv, self
  <2>4. CASE Execute
    <3>1. debugger_state' = debugger_state /\ stack[1].fn = "execute" /\ 1 \in DOMAIN stack
      BY <1>0, <2>4, TopIs DEF Execute, self
    <3>2. CASE Puts(2, 1) /\ stack'[1].fn = "complete"
      BY <1>2, <3>2 DEF Puts
    <3>3. CASE Puts(1, 1)
      <4>1. CASE i > 1
        BY <1>1, <2>1, <3>1, <3>3, <4>1, SentOld
      <4>2. CASE i = 1
        <5>1. CASE debugger_state = at
          BY <2>1, <3>1, <5>1
        <5>2. CASE \E j \in DOMAIN stack : j = 1 + 1 /\ stack[j].fn = "window" /\ ~stack[j].refused
          BY <3>3, <4>2, <5>2 DEF Puts, Below
        <5>3. ~\E j \in DOMAIN stack : j < 1 /\ stack[j].fn \in {"complete", "emit"}
          BY <3>3 DEF Puts
        <5> QED
          BY <2>1, <3>1, <5>1, <5>2, <5>3 DEF SentInv
      <4> QED
        BY <1>0, <4>1, <4>2
    <3> QED
      BY <1>0, <2>4, <3>2, <3>3, ExecuteCalls
  <2>5. CASE \E k \in Used : ListenerAppends(k)
    <3>1. PICK k \in Used : ListenerAppends(k)
      BY <2>5
    <3>2. debugger_state' = debugger_state /\ 1 \in DOMAIN stack /\ stack[1].fn = "window"
          /\ ~stack[1].refused
      BY <1>0, <3>1, AppendsLeave, ListenerCalls, TopIs DEF Appending, ListenerAppends
    <3>3. CASE Puts(1, 0)
      BY <1>0, <1>1, <2>1, <3>2, <3>3, SentOld DEF Puts, Below
    <3>4. CASE Puts(2, 1) /\ stack'[1].fn = "complete"
      BY <1>2, <3>4 DEF Puts
    <3>5. CASE Puts(1, 1) /\ stack'[1].fn = "window"
      BY <1>0, <1>1, <2>1, <3>2, <3>5, SentOld
    <3>6. k \notin Asynchronous
      BY <1>0, <3>1, ListenerCalls, AsyncKinds
    <3> QED
      BY <1>0, <3>1, <3>3, <3>4, <3>5, <3>6, ListenerCalls
  <2>6. CASE Appending /\ ~\E k \in Used : ListenerAppends(k)
    BY <2>1, <2>6, AppendsInSync, AppendsLeave
  <2>7. CASE ~(Appending \/ EmitStateChange \/ StateEmitted \/ Execute)
    <3>1. PICK n \in Nat, m \in {0, 1} : Pushes(n, m)
      BY StepPushes
    <3>2. debugger_state' = debugger_state
      BY <1>5, <2>7 DEF Next, Return, Appending, vars, self, 
             OpenWindow, CloseWindow, Execute, Send, SendSetEnvironment, SendInterrupt, 
             SendFails, AllSent, CommandCallback, Reread, BackendDone, ProgramRuns
    <3>3. i > n
      BY <1>0, <1>1, <1>5, <2>7, <3>1 DEF Fresh, Pushes
    <3>4. CASE m = 1 => stack[1].fn \notin {"complete", "emit"}
      BY <1>1, <2>1, <3>1, <3>2, <3>3, <3>4, SentOld DEF Pushes
    <3>5. CASE m = 1 /\ stack[1].fn \in {"complete", "emit"}
      BY <1>0, <1>2, <1>5, <2>7, <3>1, <3>5, TopSteps DEF Pushes, Puts, vars
    <3> QED
      BY <3>4, <3>5
  <2> QED
    BY <2>2, <2>3, <2>4, <2>5, <2>6, <2>7
<1> QED
  BY <1>3, <1>4, <1>5

-----------------------------------------------------------------------------
(* What the listeners are told                                             *)

\* What a listener's signal says of the backend.
Tells(f) ==
    /\ f.fn = "open" => f.signal \in {"program-moved", "sharedlib-event"}
    /\ f.fn = "window" /\ f.signal = "program-loaded" /\ ~working => at \in {Loaded, PStopped}
    /\ f.fn = "window" /\ f.signal = "program-stopped" /\ ~working => at = PStopped
    /\ f.fn \in {"open", "window"} /\ f.signal = "sharedlib-event" => at = PStopped
    /\ f.fn \in {"open", "window"} /\ f.signal \in {"program-moved", "callback"} =>
           Stacked({"ready"})
    /\ f.fn = "callback" => Stacked({"ready"})
    /\ Open(f) /\ f.signal = "program-exited" => debugger_state <= Loaded
\* Each signal being emitted.
TellInv == \A i \in DOMAIN stack : Tells(stack[i])

\* The signals that are emitted on the way to s.
LEMMA SignalTells ==
    ASSUME NEW s \in State, s # debugger_state, debugger_state \in State
    PROVE  LET x == SignalOf(Via(s)) IN
           /\ x = "program-loaded" => s \in {Loaded, PStopped, Running}
           /\ x = "program-stopped" => s = PStopped
           /\ x \notin {"sharedlib-event", "program-moved", "callback"}
           /\ x = "program-exited" => StateAfter(Via(s)) = Loaded
<1> DEFINE d == debugger_state
           x == SignalOf(Via(s))
<1>1. s \in {1, 2, 3, 4, 5} /\ d \in {1, 2, 3, 4, 5}
  BY DEF State, Stopped, Running
<1>2. SignalOf(1) = "debugger-stopped" /\ SignalOf(2) \in {"debugger-started", "program-unloaded"}
  BY <1>1 DEF SignalOf, Starts, Stopped, Started, Loaded, PStopped, Running
<1>3. SignalOf(3) = (IF d < 3 THEN "program-loaded" ELSE "program-exited") /\ StateAfter(3) = 3
  BY <1>1 DEF SignalOf, StateAfter, Starts, Stopped, Started, Loaded, PStopped, Running
<1>4. \A n \in {4, 5} : SignalOf(n) = IF d < 4 THEN "program-started"
                                      ELSE IF n = 4 THEN IF stop_on_sharedlib THEN "no" ELSE "program-stopped"
                                      ELSE "program-running"
  BY <1>1 DEF SignalOf, Starts, Stopped, Started, Loaded, PStopped, Running
<1>5. Via(s) = IF d > 3 THEN IF s < 3 THEN 3 ELSE s
               ELSE IF s < d THEN d - 1 ELSE IF d < 3 THEN d + 1 ELSE s
  BY DEF Via, Loaded
<1>6. Via(s) \in {1, 2, 3, 4, 5}
  BY <1>1, <1>5
<1>7. Via(s) = 3 /\ d < 3 => s >= 3
  BY <1>1, <1>5
<1>8. Via(s) = 4 /\ d >= 4 => s = 4
  BY <1>1, <1>5
<1>9. CASE Via(s) \in {1, 2}
  BY <1>2, <1>9
<1>10. CASE Via(s) = 3
  BY <1>1, <1>3, <1>7, <1>10 DEF Loaded, PStopped, Running
<1>11. CASE Via(s) \in {4, 5}
  BY <1>1, <1>4, <1>8, <1>11 DEF PStopped
<1> QED
  BY <1>6, <1>9, <1>10, <1>11

\* What stays true of a listener while it is at work.
LEMMA TellsStays ==
    ASSUME NEW f, Tells(f), at' = at, working => working', Stacked({"ready"}) => Stacked({"ready"})',
           Open(f) /\ f.signal = "program-exited" => debugger_state' <= Loaded
    PROVE  Tells(f)'
BY DEF Tells, Open

\* A signal stays true of the backend while its listeners are at work.
LEMMA TellStep ==
    ASSUME LinkInv, TellInv, [Next]_vars
    PROVE  TellInv'
<1>0. /\ CallInv /\ IInv /\ CallsInv /\ TypeInv /\ stack' \in Seq(Call)
      /\ DOMAIN stack' = 1 .. Len(stack') /\ RunningInv /\ OpenInv /\ Len(stack') \in Nat
      /\ debugger_state \in State
  BY CallStep, LenProperties DEF LinkInv, RunningInv, PlaceInv, CallInv, TypeInv, IInv, CallsInv, PhaseInv
<1>1. SUFFICES ASSUME NEW i \in DOMAIN stack', NEW g, g = stack'[i] PROVE Tells(g)'
  BY <1>1 DEF TellInv
<1>2. CASE SendAbort \/ BackendEnds \/ DebuggerReady \/ SharedlibEvent
  BY <1>0, <1>1, <1>2, IdleCalls DEF Tells, Open
<1>3. CASE ~(SendAbort \/ BackendEnds \/ DebuggerReady \/ SharedlibEvent)
  <2>1. at' = at /\ (working => working')
    <3>1. Send => working' /\ at' = at
      BY DEF Send
    <3>2. CommandCallback \/ ProgramRuns => working' = working /\ at' = at
      BY DEF CommandCallback, ProgramRuns
    <3> QED
      BY <1>0, <1>3, <3>1, <3>2, BackendMoves
  <2>2. Stacked({"ready"}) => Stacked({"ready"})'
    BY <1>0, <1>3, StackStays DEF Function
  <2>3. CASE EmitStateChange
    <3>1. /\ stack[1].fn = "emit" /\ stack[1].state \in State /\ stack[1].state # debugger_state
          /\ 1 \in DOMAIN stack /\ stack \in Seq(Call)
          /\ debugger_state' = StateAfter(Via(stack[1].state))
      BY <1>0, <2>3, EmitCalls, TopIs DEF EmitStateChange, CallsInv
    <3>2. ~working => stack[1].state = at
      BY <1>0, <3>1 DEF CallInv, FrameInv
    <3>3. at # Running
      BY <1>0 DEF CallInv, ReportInv
    <3>4. CASE i > 1 \/ stack' = stack
      <4>1. PICK j \in DOMAIN stack : stack[j] = g
        BY <1>0, <1>1, <2>3, <3>4, EmitCalls DEF Puts, Below
      <4>2. Tells(g)
        BY <4>1 DEF TellInv
      <4>3. ASSUME Open(g), g.signal = "program-exited" PROVE debugger_state' <= Loaded
        <5>1. Place(i, g)'
          BY <1>0, <1>1, <4>3, OpenStep DEF OpenInv, Open
        <5>2. stack'[1].fn \in {"window", "emit"}
          BY <1>0, <2>3, <3>1, EmitCalls
        <5>3. i # 1
          BY <1>1, <3>1, <3>4, <4>3, <1>0 DEF Open
        <5>4. Over(g)'
          BY <5>1, <5>2, <5>3 DEF Place
        <5> QED
          BY <5>4 DEF Over, Exiting
      <4> QED
        BY <2>1, <2>2, <4>2, <4>3, TellsStays
    <3>5. CASE i = 1 /\ stack' # stack
      <4>1. g.fn = "window" /\ g.signal = SignalOf(Via(stack[1].state))
        BY <1>0, <1>1, <2>3, <3>5, EmitCalls
      <4> DEFINE x == g.signal
                 s == stack[1].state
      <4>2. /\ x = "program-loaded" => s \in {Loaded, PStopped, Running}
            /\ x = "program-stopped" => s = PStopped
            /\ x \notin {"sharedlib-event", "program-moved", "callback"}
            /\ x = "program-exited" => debugger_state' = Loaded
        BY <1>0, <3>1, <4>1, SignalTells
      <4>3. working' = working
        BY <2>3 DEF EmitStateChange, backend
      <4> QED
        BY <2>1, <3>2, <3>3, <4>1, <4>2, <4>3 DEF Tells, Loaded
    <3> QED
      BY <1>0, <3>4, <3>5
  <2>4. CASE ~EmitStateChange
    <3>1. debugger_state' = debugger_state
      <4>1. CASE Appending
        BY <1>0, <4>1, AppendsLeave
      <4>2. CASE ~Appending
        BY <1>3, <2>4, <4>2 DEF Next, Return, Appending, vars, self, StateEmitted, Complete,
             OpenWindow, CloseWindow, Execute, Send, SendSetEnvironment, SendInterrupt,
             SendFails, AllSent, CommandCallback, Reread, BackendDone, ProgramRuns
      <4> QED
        BY <4>1, <4>2
    <3>2. ASSUME NEW f, Tells(f) PROVE Tells(f)'
      BY <2>1, <2>2, <3>1, <3>2, TellsStays DEF Tells
    <3>3. CASE \E j \in DOMAIN stack : stack[j] = g
      BY <3>2, <3>3 DEF TellInv
    <3>4. CASE Fresh(g)
      <4>1. CASE g.fn \notin {"open", "window", "callback"}
        BY <4>1 DEF Tells, Open
      <4>2. CASE OpenWindow /\ g.fn = "window" /\ stack[1].fn = "open" /\ g.signal = stack[1].signal
        BY <1>0, <3>2, <4>2, TopIs DEF OpenWindow, TellInv, Tells
      <4>3. CASE CommandCallback /\ g.fn = "window" /\ stack[1].fn = "callback" /\ g.signal = "callback"
        BY <1>0, <3>2, <4>3, TopIs DEF CommandCallback, TellInv, Tells
      <4>4. CASE Appending /\ g.fn = "window" /\ g.refused /\ stack[1].fn = "window" /\ g.signal = stack[1].signal
                 /\ 1 \in DOMAIN stack
        BY <3>2, <4>4 DEF TellInv, Tells, Open
      <4>5. CASE /\ \E s \in State : BackendDone(s)
                 /\ g.fn = "callback" \/ (g.fn = "open" /\ g.signal = "program-moved")
        BY <1>0, <4>5, DoneCalls DEF Stacked, Tells, Open
      <4> QED
        BY <1>3, <2>4, <3>4, <4>1, <4>2, <4>3, <4>4, <4>5 DEF Fresh
    <3> QED
      BY <1>0, <1>1, <3>3, <3>4, CallOrigin
  <2> QED
    BY <2>3, <2>4
<1> QED
  BY <1>2, <1>3

-----------------------------------------------------------------------------
(* The states that the queue goes through                                  *)

\* With the kinds K, command c announces a state.
Sets(K, c) == GoingTo(K[c]) # Busy
\* No command of q announces one.
NoneSets(K, q) == \A i \in 1 .. Len(q) : ~Sets(K, q[i])

\* No command of q from i on and before j does.
Plain(K, q, i, j) == \A m \in 1 .. Len(q) : i <= m /\ m < j => ~Sets(K, q[m])

\* The commands of q that find the state s, but for kinds X, fit it.
Front(K, q, s, X) ==
    \A j \in 1 .. Len(q) : Plain(K, q, 1, j) /\ K[q[j]] \notin X => s \in Need(K[q[j]])

\* Each command fits the state that the ones before it lead to, and s is the last.
Planned(K, q, s) ==
    /\ \A i, j \in 1 .. Len(q) : i < j /\ Sets(K, q[i]) /\ Plain(K, q, i + 1, j) =>
           GoingTo(K[q[i]]) \in Need(K[q[j]])
    /\ \A i \in 1 .. Len(q) : Sets(K, q[i]) /\ Plain(K, q, i + 1, Len(q) + 1) =>
           s = GoingTo(K[q[i]])

\* t is q with c before place p.
Inserts(q, t, p, c) ==
    /\ Len(q) \in Nat /\ Len(t) = Len(q) + 1 /\ p \in 1 .. Len(q) + 1
    /\ t[p] = c
    /\ \A j \in 1 .. Len(t) : j < p => j \in 1 .. Len(q) /\ t[j] = q[j]
    /\ \A j \in 1 .. Len(t) : j > p => j - 1 \in 1 .. Len(q) /\ t[j] = q[j - 1]

\* What a command that is inserted has to fit.
LEMMA InsertPlain ==
    ASSUME NEW q, NEW t, NEW p, NEW c, Inserts(q, t, p, c), NEW K, NEW L,
           \A j \in 1 .. Len(q) : L[q[j]] = K[q[j]]
    PROVE  /\ \A j \in 1 .. Len(q) : j < p => j \in 1 .. Len(t) /\ t[j] = q[j]
           /\ \A j \in 1 .. Len(q) : j >= p => j + 1 \in 1 .. Len(t) /\ t[j + 1] = q[j]
           /\ \A i, j \in Nat : Plain(L, t, i, j) /\ j <= p => Plain(K, q, i, j)
           /\ \A i, j \in Nat : Plain(L, t, i, j) /\ i <= p /\ j > p => Plain(K, q, i, j - 1) /\ ~Sets(L, c)
           /\ \A i, j \in Nat : Plain(L, t, i, j) /\ i > p => Plain(K, q, i - 1, j - 1)
<1>1. \A j \in 1 .. Len(q) : j < p => j \in 1 .. Len(t) /\ t[j] = q[j]
  BY DEF Inserts
<1>2. ASSUME NEW j \in 1 .. Len(q), j >= p PROVE j + 1 \in 1 .. Len(t) /\ t[j + 1] = q[j]
  BY <1>2 DEF Inserts
<1>3. p \in Nat /\ p \in 1 .. Len(t) /\ t[p] = c /\ Len(q) \in Nat
  BY DEF Inserts
<1>4. ASSUME NEW m \in 1 .. Len(q)
      PROVE  /\ Sets(K, q[m]) = Sets(L, q[m])
             /\ m < p => Sets(L, t[m]) = Sets(K, q[m])
             /\ m >= p => Sets(L, t[m + 1]) = Sets(K, q[m])
  BY <1>1, <1>2 DEF Sets
<1>5. ASSUME NEW i \in Nat, NEW j \in Nat, Plain(L, t, i, j), j <= p PROVE Plain(K, q, i, j)
  BY <1>1, <1>3, <1>4, <1>5 DEF Plain
<1>6. ASSUME NEW i \in Nat, NEW j \in Nat, Plain(L, t, i, j), i <= p, j > p
      PROVE  Plain(K, q, i, j - 1) /\ ~Sets(L, c)
  <2>1. ASSUME NEW m \in 1 .. Len(q), i <= m, m < j - 1 PROVE ~Sets(K, q[m])
    <3>1. CASE m < p
      <4>1. m \in 1 .. Len(t) /\ m < j
        BY <1>1, <2>1, <3>1
      <4> QED
        BY <1>4, <1>6, <2>1, <3>1, <4>1 DEF Plain
    <3>2. CASE m >= p
      <4>1. m + 1 \in 1 .. Len(t) /\ m + 1 < j /\ i <= m + 1
        BY <1>2, <2>1, <3>2
      <4> QED
        BY <1>4, <1>6, <3>2, <4>1 DEF Plain
    <3> QED
      BY <1>3, <3>1, <3>2
  <2>2. ~Sets(L, t[p])
    BY <1>3, <1>6 DEF Plain
  <2> QED
    BY <1>3, <2>1, <2>2 DEF Plain
<1>7. ASSUME NEW i \in Nat, NEW j \in Nat, Plain(L, t, i, j), i > p PROVE Plain(K, q, i - 1, j - 1)
  <2>1. ASSUME NEW m \in 1 .. Len(q), i - 1 <= m, m < j - 1 PROVE ~Sets(K, q[m])
    <3>1. m >= p
      BY <1>3, <1>7, <2>1
    <3>2. m + 1 \in 1 .. Len(t) /\ m + 1 < j /\ i <= m + 1
      BY <1>2, <2>1, <3>1
    <3> QED
      BY <1>4, <1>7, <3>1, <3>2 DEF Plain
  <2> QED
    BY <2>1 DEF Plain
<1> QED
  BY <1>1, <1>2, <1>5, <1>6, <1>7

\* The commands that are sent next still fit if the new one does.
LEMMA InsertFront ==
    ASSUME NEW q, NEW t, NEW p, NEW c, Inserts(q, t, p, c), NEW K, NEW L,
           \A j \in 1 .. Len(q) : L[q[j]] = K[q[j]],
           NEW s, NEW X, Front(K, q, s, X),
           Plain(K, q, 1, p) => L[c] \in X \/ s \in Need(L[c])
    PROVE  /\ Front(L, t, s, X)
           /\ NoneSets(L, t) => NoneSets(K, q) /\ ~Sets(L, c)
<1>0. p \in Nat /\ p \in 1 .. Len(t) /\ t[p] = c /\ Len(q) \in Nat /\ Len(t) = Len(q) + 1
  BY DEF Inserts
<1>P. /\ \A j \in 1 .. Len(q) : j < p => j \in 1 .. Len(t) /\ t[j] = q[j]
      /\ \A j \in 1 .. Len(q) : j >= p => j + 1 \in 1 .. Len(t) /\ t[j + 1] = q[j]
      /\ \A i, j \in Nat : Plain(L, t, i, j) /\ j <= p => Plain(K, q, i, j)
      /\ \A i, j \in Nat : Plain(L, t, i, j) /\ i <= p /\ j > p => Plain(K, q, i, j - 1) /\ ~Sets(L, c)
      /\ \A i, j \in Nat : Plain(L, t, i, j) /\ i > p => Plain(K, q, i - 1, j - 1)
  BY InsertPlain
<1>1. ASSUME NEW j \in 1 .. Len(t), Plain(L, t, 1, j), L[t[j]] \notin X
      PROVE  s \in Need(L[t[j]])
  <2>1. CASE j < p
    BY <1>0, <1>1, <2>1, <1>P DEF Inserts, Front
  <2>2. CASE j = p
    BY <1>0, <1>1, <2>2, <1>P
  <2>3. CASE j > p
    BY <1>0, <1>1, <2>3, <1>P DEF Inserts, Front
  <2> QED
    BY <1>0, <2>1, <2>2, <2>3
<1>2. ASSUME NoneSets(L, t) PROVE NoneSets(K, q) /\ ~Sets(L, c)
  BY <1>0, <1>2, <1>P DEF NoneSets, Sets
<1> QED
  BY <1>1, <1>2 DEF Front

\* Kind k fits the state that the commands of q before place p lead to.
Follows(K, q, p, k) ==
    \A i \in 1 .. Len(q) : i < p /\ Sets(K, q[i]) /\ Plain(K, q, i + 1, p) =>
        GoingTo(K[q[i]]) \in Need(k)

\* The commands of q from place p on that find state s fit it.
Leads(K, q, p, s) ==
    \A j \in 1 .. Len(q) : j >= p /\ Plain(K, q, p, j) => s \in Need(K[q[j]])

\* How a command stays in step that is inserted.
LEMMA InsertPlanned ==
    ASSUME NEW q, NEW t, NEW p, NEW c, Inserts(q, t, p, c), NEW K, NEW L,
           \A j \in 1 .. Len(q) : L[q[j]] = K[q[j]],
           NEW s, NEW r, Planned(K, q, s),
           Follows(K, q, p, L[c]),
           Sets(L, c) => Leads(K, q, p, GoingTo(L[c])),
           Sets(L, c) /\ Plain(K, q, p, Len(q) + 1) => r = GoingTo(L[c]),
           ~(Sets(L, c) /\ Plain(K, q, p, Len(q) + 1)) => r = s
    PROVE  Planned(L, t, r)
<1>0. p \in Nat /\ p \in 1 .. Len(t) /\ t[p] = c /\ Len(q) \in Nat /\ Len(t) = Len(q) + 1
  BY DEF Inserts
<1>P. /\ \A j \in 1 .. Len(q) : j < p => j \in 1 .. Len(t) /\ t[j] = q[j]
      /\ \A j \in 1 .. Len(q) : j >= p => j + 1 \in 1 .. Len(t) /\ t[j + 1] = q[j]
      /\ \A i, j \in Nat : Plain(L, t, i, j) /\ j <= p => Plain(K, q, i, j)
      /\ \A i, j \in Nat : Plain(L, t, i, j) /\ i <= p /\ j > p => Plain(K, q, i, j - 1) /\ ~Sets(L, c)
      /\ \A i, j \in Nat : Plain(L, t, i, j) /\ i > p => Plain(K, q, i - 1, j - 1)
  BY InsertPlain
<1>1. /\ \A j \in 1 .. Len(t) : j < p => j \in 1 .. Len(q) /\ t[j] = q[j]
      /\ \A j \in 1 .. Len(t) : j > p => j - 1 \in 1 .. Len(q) /\ t[j] = q[j - 1]
  BY DEF Inserts
<1>2. \A j \in 1 .. Len(q) : Sets(L, q[j]) = Sets(K, q[j])
  BY DEF Sets
<1>3. ASSUME NEW i \in 1 .. Len(t), NEW j \in 1 .. Len(t), i < j, Sets(L, t[i]), Plain(L, t, i + 1, j)
      PROVE  GoingTo(L[t[i]]) \in Need(L[t[j]])
  <2>1. CASE j < p
    <3>1. Plain(K, q, i + 1, j)
      BY <1>0, <1>3, <2>1, <1>P
    <3>2. i \in 1 .. Len(q) /\ t[i] = q[i] /\ j \in 1 .. Len(q) /\ t[j] = q[j]
      BY <1>0, <1>1, <1>3, <2>1
    <3> QED
      BY <1>2, <1>3, <3>1, <3>2 DEF Planned
  <2>2. CASE j = p
    <3>1. Plain(K, q, i + 1, p)
      BY <1>0, <1>3, <2>2, <1>P
    <3>2. i \in 1 .. Len(q) /\ t[i] = q[i] /\ i < p
      BY <1>1, <1>3, <2>2
    <3> QED
      BY <1>0, <1>2, <1>3, <2>2, <3>1, <3>2 DEF Follows
  <2>3. CASE i < p /\ j > p
    BY <1>0, <1>1, <1>2, <1>3, <2>3, <1>P DEF Planned
  <2>4. CASE i = p
    BY <1>0, <1>1, <1>3, <2>4, <1>P DEF Leads
  <2>5. CASE i > p
    <3>1. Plain(K, q, (i - 1) + 1, j - 1)
      <4>1. Plain(K, q, (i + 1) - 1, j - 1)
        BY <1>0, <1>3, <2>5, <1>P
      <4>2. (i + 1) - 1 = (i - 1) + 1
        BY <1>0, <2>5
      <4> QED
        BY <4>1, <4>2
    <3>2. i - 1 \in 1 .. Len(q) /\ t[i] = q[i - 1]
      BY <1>1, <2>5
    <3>3. j - 1 \in 1 .. Len(q) /\ t[j] = q[j - 1] /\ i - 1 < j - 1
      BY <1>0, <1>1, <1>3, <2>5
    <3> QED
      BY <1>2, <1>3, <3>1, <3>2, <3>3 DEF Planned
  <2> QED
    BY <1>0, <2>1, <2>2, <2>3, <2>4, <2>5
<1>4. ASSUME NEW i \in 1 .. Len(t), Sets(L, t[i]), Plain(L, t, i + 1, Len(t) + 1)
      PROVE  r = GoingTo(L[t[i]])
  <2>1. CASE i < p
    BY <1>0, <1>1, <1>2, <1>4, <2>1, <1>P DEF Planned
  <2>2. CASE i = p
    BY <1>0, <1>4, <2>2, <1>P
  <2>3. CASE i > p
    <3>1. Plain(K, q, (i + 1) - 1, (Len(t) + 1) - 1)
      BY <1>0, <1>4, <2>3, <1>P
    <3>2. (Len(t) + 1) - 1 = Len(q) + 1 /\ (i + 1) - 1 = (i - 1) + 1
      BY <1>0, <2>3
    <3>3. i - 1 \in 1 .. Len(q) /\ t[i] = q[i - 1]
      BY <1>1, <2>3
    <3>4. Sets(K, q[i - 1]) /\ s = GoingTo(K[q[i - 1]])
      BY <1>2, <1>4, <3>1, <3>2, <3>3 DEF Planned
    <3>5. ~Plain(K, q, p, Len(q) + 1)
      BY <1>0, <2>3, <3>3, <3>4 DEF Plain
    <3> QED
      BY <3>3, <3>4, <3>5
  <2> QED
    BY <1>0, <2>1, <2>2, <2>3
<1> QED
  BY <1>3, <1>4 DEF Planned

\* When the first command is sent.
LEMMA TailPlanned ==
    ASSUME NEW q \in Seq(Command), q # <<>>, NEW t, t = Tail(q), NEW K, NEW s, Planned(K, q, s)
    PROVE  /\ Planned(K, t, s)
           /\ Sets(K, q[1]) => /\ Front(K, t, GoingTo(K[q[1]]), {})
                               /\ NoneSets(K, t) => s = GoingTo(K[q[1]])
           /\ ~Sets(K, q[1]) => /\ \A x, X : Front(K, q, x, X) => Front(K, t, x, X)
                                /\ NoneSets(K, t) => NoneSets(K, q)
<1>0. /\ Len(q) \in Nat /\ Len(t) = Len(q) - 1 /\ 1 \in 1 .. Len(q)
      /\ \A j \in 1 .. Len(t) : j + 1 \in 1 .. Len(q) /\ t[j] = q[j + 1]
  BY LenProperties, EmptySeq, HeadTailProperties
<1>1. ASSUME NEW i \in Nat, NEW j \in Nat, Plain(K, t, i, j), i >= 1
      PROVE  Plain(K, q, i + 1, j + 1)
  <2>1. ASSUME NEW m \in 1 .. Len(q), i + 1 <= m, m < j + 1 PROVE ~Sets(K, q[m])
    <3>1. m - 1 \in 1 .. Len(t) /\ i <= m - 1 /\ m - 1 < j /\ (m - 1) + 1 = m
      BY <1>0, <1>1, <2>1
    <3> QED
      BY <1>0, <1>1, <3>1 DEF Plain
  <2> QED
    BY <2>1 DEF Plain
<1>2. ASSUME NEW j \in Nat, Plain(K, t, 1, j), ~Sets(K, q[1]) PROVE Plain(K, q, 1, j + 1)
  <2>1. Plain(K, q, 1 + 1, j + 1)
    BY <1>1, <1>2
  <2>2. \A m \in 1 .. Len(q) : m = 1 \/ 1 + 1 <= m
    BY <1>0
  <2> QED
    BY <1>2, <2>1, <2>2 DEF Plain
<1>3. Planned(K, t, s)
  BY <1>0, <1>1 DEF Planned
<1>4. ASSUME Sets(K, q[1])
      PROVE  /\ Front(K, t, GoingTo(K[q[1]]), {})
             /\ NoneSets(K, t) => s = GoingTo(K[q[1]])
  <2>1. ASSUME NEW j \in 1 .. Len(t), Plain(K, t, 1, j)
        PROVE  GoingTo(K[q[1]]) \in Need(K[t[j]])
    BY <1>0, <1>1, <1>4, <2>1 DEF Planned
  <2>2. ASSUME NoneSets(K, t) PROVE s = GoingTo(K[q[1]])
    <3>1. Plain(K, t, 1, Len(t) + 1)
      BY <2>2 DEF NoneSets, Plain
    <3>2. Plain(K, q, 1 + 1, (Len(t) + 1) + 1)
      BY <1>0, <1>1, <3>1
    <3>3. (Len(t) + 1) + 1 = Len(q) + 1
      BY <1>0
    <3> QED
      BY <1>0, <1>4, <3>2, <3>3 DEF Planned
  <2> QED
    BY <2>1, <2>2 DEF Front
<1>5. ASSUME ~Sets(K, q[1])
      PROVE  /\ \A x, X : Front(K, q, x, X) => Front(K, t, x, X)
             /\ NoneSets(K, t) => NoneSets(K, q)
  <2>1. ASSUME NEW x, NEW X, Front(K, q, x, X), NEW j \in 1 .. Len(t), Plain(K, t, 1, j), K[t[j]] \notin X
        PROVE  x \in Need(K[t[j]])
    BY <1>0, <1>2, <1>5, <2>1 DEF Front
  <2>2. ASSUME NoneSets(K, t), NEW m \in 1 .. Len(q) PROVE ~Sets(K, q[m])
    <3>1. CASE m = 1
      BY <1>5, <3>1
    <3>2. CASE m # 1
      <4>1. m - 1 \in 1 .. Len(t) /\ (m - 1) + 1 = m
        BY <1>0, <3>2
      <4> QED
        BY <1>0, <2>2, <4>1 DEF NoneSets
    <3> QED
      BY <3>1, <3>2
  <2> QED
    BY <2>1, <2>2 DEF Front, NoneSets
<1> QED
  BY <1>3, <1>4, <1>5

\* When the commands that do not fit the state s are cancelled.
LEMMA KeptPlanned ==
    ASSUME NEW q \in Seq(Command), NEW s, Planned(kind, q, queue_state),
           \A i, j \in 1 .. Len(q) : q[i] = q[j] => i = j
    PROVE  /\ Planned(kind, Kept(q, s), KeptState(q, s))
           /\ Front(kind, Kept(q, s), s, {})
           /\ NoneSets(kind, Kept(q, s)) => KeptState(q, s) = s
<1> DEFINE t == Kept(q, s)
<1>0. /\ t \in Seq(Command) /\ Thins(t, q)
      /\ \A i \in 1 .. Len(t) : Stays(q, s, t[i])
      /\ \A a \in 1 .. Len(q) : Stays(q, s, q[a]) => \E i \in 1 .. Len(t) : t[i] = q[a]
  BY KeptIs
<1>1. Len(t) \in Nat /\ Len(q) \in Nat /\ DOMAIN q = 1 .. Len(q)
  BY <1>0, LenProperties
<1> HIDE DEF t
<1>2. \A i \in 1 .. Len(t) : \E a \in 1 .. Len(q) : t[i] = q[a]
  BY <1>0 DEF Thins
<1>3. ASSUME NEW i \in 1 .. Len(t), NEW j \in 1 .. Len(t), i < j,
             NEW a \in 1 .. Len(q), NEW b \in 1 .. Len(q), t[i] = q[a], t[j] = q[b]
      PROVE  a < b
  BY <1>0, <1>3 DEF Thins
<1>4. ASSUME NEW i \in 1 .. Len(t), NEW j \in 1 .. Len(t),
             NEW a \in 1 .. Len(q), NEW b \in 1 .. Len(q), t[i] = q[a], t[j] = q[b], a < b
      PROVE  i < j
  BY <1>1, <1>3, <1>4
<1>5. \A a \in 1 .. Len(q) : a \in Keepers(q, s) <=> s \in Need(kind[q[a]]) /\ Sets(kind, q[a])
  BY <1>1 DEF Keepers, Sets
<1>6. ASSUME NEW a \in 1 .. Len(q), NEW b \in 1 .. Len(q), a < b, a \in Keepers(q, s)
      PROVE  Stays(q, s, q[b])
  BY <1>1, <1>6 DEF Stays
<1>7. ASSUME NEW a \in 1 .. Len(q), Stays(q, s, q[a]), s \notin Need(kind[q[a]])
      PROVE  \E k \in 1 .. Len(q) : k < a /\ k \in Keepers(q, s)
  BY <1>1, <1>7 DEF Stays, Keepers
<1>8. ASSUME NEW a \in 1 .. Len(q), Stays(q, s, q[a]), Sets(kind, q[a])
      PROVE  /\ Keepers(q, s) # {}
             /\ \A b \in 1 .. Len(q) : a < b => Stays(q, s, q[b])
  <2>1. CASE s \in Need(kind[q[a]])
    <3>1. a \in Keepers(q, s)
      BY <1>5, <1>8, <2>1
    <3> QED
      BY <1>6, <3>1
  <2>2. CASE s \notin Need(kind[q[a]])
    BY <1>6, <1>7, <1>8, <2>2
  <2> QED
    BY <2>1, <2>2
<1>9. ASSUME NEW i \in 1 .. Len(t), NEW a \in 1 .. Len(q), t[i] = q[a], Sets(kind, q[a]),
             NEW m \in 1 .. Len(q), a < m
      PROVE  \E x \in 1 .. Len(t) : t[x] = q[m] /\ i < x
  BY <1>0, <1>4, <1>8, <1>9
<1>10. ASSUME NEW i \in 1 .. Len(t), NEW j \in 1 .. Len(t), i < j, Sets(kind, t[i]), Plain(kind, t, i + 1, j)
       PROVE  GoingTo(kind[t[i]]) \in Need(kind[t[j]])
  <2>1. PICK a \in 1 .. Len(q), b \in 1 .. Len(q) : t[i] = q[a] /\ t[j] = q[b]
    BY <1>2
  <2>2. a < b
    BY <1>3, <1>10, <2>1
  <2>3. ASSUME NEW m \in 1 .. Len(q), a + 1 <= m, m < b PROVE ~Sets(kind, q[m])
    <3>1. a < m
      BY <1>1, <2>3
    <3>2. PICK x \in 1 .. Len(t) : t[x] = q[m] /\ i < x
      BY <1>9, <1>10, <2>1, <3>1
    <3>3. x < j
      BY <1>4, <2>1, <2>3, <3>2
    <3>4. i + 1 <= x
      BY <1>1, <3>2
    <3> QED
      BY <1>10, <3>2, <3>3, <3>4 DEF Plain
  <2>4. Plain(kind, q, a + 1, b)
    BY <2>3 DEF Plain
  <2>5. Sets(kind, q[a])
    BY <1>10, <2>1
  <2> QED
    BY <2>1, <2>2, <2>4, <2>5 DEF Planned
<1>11. ASSUME NEW i \in 1 .. Len(t), Sets(kind, t[i]), Plain(kind, t, i + 1, Len(t) + 1)
       PROVE  KeptState(q, s) = GoingTo(kind[t[i]])
  <2>1. PICK a \in 1 .. Len(q) : t[i] = q[a]
    BY <1>2
  <2>2. Sets(kind, q[a])
    BY <1>11, <2>1
  <2>3. ASSUME NEW m \in 1 .. Len(q), a + 1 <= m, m < Len(q) + 1 PROVE ~Sets(kind, q[m])
    <3>1. a < m
      BY <1>1, <2>3
    <3>2. PICK x \in 1 .. Len(t) : t[x] = q[m] /\ i < x
      BY <1>9, <2>1, <2>2, <3>1
    <3>3. x < Len(t) + 1 /\ i + 1 <= x
      BY <1>1, <3>2
    <3> QED
      BY <1>11, <3>2, <3>3 DEF Plain
  <2>4. Plain(kind, q, a + 1, Len(q) + 1)
    BY <2>3 DEF Plain
  <2>5. queue_state = GoingTo(kind[q[a]])
    BY <2>2, <2>4 DEF Planned
  <2>6. Keepers(q, s) # {}
    BY <1>0, <1>8, <2>1, <2>2
  <2> QED
    BY <2>1, <2>5, <2>6 DEF KeptState
<1>12. ASSUME NEW j \in 1 .. Len(t), Plain(kind, t, 1, j) PROVE s \in Need(kind[t[j]])
  <2>1. PICK b \in 1 .. Len(q) : t[j] = q[b]
    BY <1>2
  <2>2. SUFFICES ASSUME s \notin Need(kind[q[b]]) PROVE FALSE
    BY <2>1
  <2>3. PICK k \in 1 .. Len(q) : k < b /\ k \in Keepers(q, s)
    BY <1>0, <1>7, <2>1, <2>2
  <2>4. Stays(q, s, q[k]) /\ Sets(kind, q[k])
    BY <1>5, <2>3 DEF Stays
  <2>5. PICK x \in 1 .. Len(t) : t[x] = q[k]
    BY <1>0, <2>4
  <2>6. x < j
    BY <1>4, <2>1, <2>3, <2>5
  <2> QED
    BY <1>12, <2>4, <2>5, <2>6 DEF Plain
<1>13. ASSUME NoneSets(kind, t) PROVE KeptState(q, s) = s
  <2>1. SUFFICES ASSUME Keepers(q, s) # {} PROVE FALSE
    BY DEF KeptState
  <2>2. PICK k \in 1 .. Len(q) : k \in Keepers(q, s)
    BY <1>1, <2>1 DEF Keepers
  <2>3. Stays(q, s, q[k]) /\ Sets(kind, q[k])
    BY <1>5, <2>2 DEF Stays
  <2>4. PICK x \in 1 .. Len(t) : t[x] = q[k]
    BY <1>0, <2>3
  <2> QED
    BY <1>13, <2>3, <2>4 DEF NoneSets
<1>14. Planned(kind, t, KeptState(q, s)) /\ Front(kind, t, s, {})
  BY <1>10, <1>11, <1>12 DEF Planned, Front
<1> QED
  BY <1>13, <1>14 DEF t

-----------------------------------------------------------------------------
(* Where a command is put                                                  *)

\* Who appends a command of kind k.
Adder(k) ==
    \/ AddQuit /\ k = "quit"
    \/ RunAgain /\ k = "run"
    \/ QuitDebugger /\ k = "interrupt"
    \/ UserAppends(k) /\ k \in Used
    \/ ListenerAppends(k) /\ k \in Used

\* Command c, of kind k, joins the queue.
Joins(c, k) ==
    \/ /\ k \in Asynchronous \cup HighPriority /\ GoingTo(k) = Busy
       /\ Inserts(queue, queue', 1, c) /\ queue_state' = queue_state
    \/ /\ k \in Asynchronous \cup HighPriority /\ GoingTo(k) = Stopped
       /\ Inserts(Kept(queue, Stopped), queue', 1, c)
       /\ queue_state' = KeptState(queue, Stopped)
    \/ /\ k \notin Asynchronous \cup HighPriority /\ GoingTo(k) = Busy /\ ListenerAppends(k)
       /\ \E p \in 1 .. Len(queue) : queue[p] = Link /\ Inserts(queue, queue', p, c)
       /\ queue_state' = queue_state
    \/ /\ k \notin Asynchronous \cup HighPriority /\ Link = none
       /\ Inserts(queue, queue', Len(queue) + 1, c)
       /\ queue_state' = IF GoingTo(k) # Busy THEN GoingTo(k) ELSE queue_state

\* What is put first.
LEMMA InsertFirst ==
    ASSUME NEW c \in Command, NEW q \in Seq(Command), NEW t, t = <<c>> \o q
    PROVE  Inserts(q, t, 1, c)
<1>1. /\ Len(t) = Len(q) + 1 /\ Len(q) \in Nat
      /\ t[1] = c /\ \A j \in 1 .. Len(q) : t[j + 1] = q[j]
      /\ \A i \in 1 .. Len(t) : i = 1 \/ (i - 1 \in 1 .. Len(q) /\ t[i] = q[i - 1])
  BY PutFirst
<1>2. 1 \in 1 .. Len(q) + 1
  BY <1>1
<1>3. \A j \in 1 .. Len(t) : ~(j < 1)
  BY <1>1
<1>4. \A j \in 1 .. Len(t) : j > 1 => j # 1
  BY <1>1
<1> QED
  BY <1>1, <1>2, <1>3, <1>4 DEF Inserts

\* What is put before a command.
LEMMA InsertBefore ==
    ASSUME NEW c \in Command, NEW q \in Seq(Command), NEW p \in 1 .. Len(q), NEW t,
           t = SubSeq(q, 1, p - 1) \o <<c>> \o SubSeq(q, p, Len(q))
    PROVE  Inserts(q, t, p, c)
<1>0. t = Between(c, q, p)
  BY DEF Between
<1>1. /\ Len(t) = Len(q) + 1 /\ Len(q) \in Nat
      /\ t[p] = c
      /\ \A j \in 1 .. Len(t) : j < p => j \in 1 .. Len(q) /\ t[j] = q[j]
      /\ \A j \in 1 .. Len(t) : j > p => j - 1 \in 1 .. Len(q) /\ t[j] = q[j - 1]
  BY ONLY <1>0, c \in Command, q \in Seq(Command), p \in 1 .. Len(q), PutBetween
<1> QED
  BY <1>1 DEF Inserts

\* What is put last.
LEMMA InsertLast ==
    ASSUME NEW c \in Command, NEW q \in Seq(Command), NEW t, t = Append(q, c)
    PROVE  Inserts(q, t, Len(q) + 1, c)
<1>1. /\ Len(q) \in Nat /\ Len(t) = Len(q) + 1 /\ t[Len(q) + 1] = c
      /\ \A j \in 1 .. Len(q) : t[j] = q[j]
  BY AppendProperties, LenProperties
<1>2. \A j \in 1 .. Len(t) : ~(j > Len(q) + 1)
  BY <1>1
<1>3. \A j \in 1 .. Len(t) : j < Len(q) + 1 => j \in 1 .. Len(q)
  BY <1>1
<1> QED
  BY <1>1, <1>2, <1>3 DEF Inserts

\* Only a listener finds a link.
LEMMA LinkIsListeners ==
    ASSUME CallInv, NEW k, Adder(k), ~ListenerAppends(k)
    PROVE  insert_command = <<>> /\ Link = none
BY NoLinks DEF Adder

\* The state that a command is checked against.
LEMMA CheckedIs ==
    ASSUME CallInv, NEW k, Adder(k)
    PROVE  /\ ~ListenerAppends(k) /\ k # "quit" => CheckedState(k) = queue_state
           /\ ListenerAppends(k) \/ k = "quit" =>
                  /\ last # none /\ Sets(kind, last) => CheckedState(k) = GoingTo(kind[last])
                  /\ ~(last # none /\ Sets(kind, last)) => CheckedState(k) = debugger_state
<1>1. ~ListenerAppends(k) => insert_command = <<>>
  BY LinkIsListeners
<1>2. ListenerAppends(k) => insert_command # <<>>
  BY OpenLink DEF ListenerAppends, Top, CallInv
<1> QED
  BY <1>1, <1>2 DEF CheckedState, HighPriority, Sets

\* An append refuses the command, or puts it in its place.
LEMMA AppendJoins ==
    ASSUME LinkInv, Appending, ~crashed'
    PROVE  \/ /\ queue' = queue /\ kind' = kind /\ queue_state' = queue_state
              /\ \E k \in Kind : Adder(k) /\ CheckedState(k) \notin Need(k)
           \/ \E c \in Command, k \in Kind :
                  /\ Adder(k) /\ Joins(c, k) /\ CheckedState(k) \in Need(k)
                  /\ kind' = [kind EXCEPT ![c] = k] /\ kind'[c] = k
                  /\ c # last /\ \A j \in 1 .. Len(queue) : queue[j] # c
                  /\ \A j \in 1 .. Len(queue) : kind'[queue[j]] = kind[queue[j]]
                  /\ last # none => kind'[last] = kind[last]
<1>0. CallInv /\ UniqueInv /\ TypeInv /\ ~crashed
  BY DEF LinkInv, RunningInv, PlaceInv, CallInv
<1>1. PICK c \in Command, k \in Kind :
        /\ \E rest, refused : AppendCommand(c, k, rest, refused)
        /\ \/ AddQuit /\ c = stack[1].cmd /\ k = "quit" /\ stack[1].fn = "quit"
           \/ RunAgain /\ c = stack[1].cmd /\ k = "run" /\ stack[1].fn = "rerun"
           \/ QuitDebugger /\ c = New /\ New \in Unused /\ k = "interrupt" /\ stack = <<>>
           \/ UserAppends(k) /\ k \in Used /\ c = New /\ New \in Unused /\ stack = <<>>
           \/ /\ ListenerAppends(k) /\ k \in Used /\ c = New /\ New \in Unused
              /\ stack[1].fn = "window"
        /\ last # c /\ \A j \in 1 .. Len(queue) : queue[j] # c
        /\ \A j \in 1 .. Len(queue) : kind'[queue[j]] = kind[queue[j]]
        /\ last # none => kind'[last] = kind[last]
  BY <1>0, AddedCommand
<1>2. PICK rest, refused : AppendCommand(c, k, rest, refused)
  BY <1>1
<1>3. Adder(k)
  BY <1>1 DEF Adder
<1>4. \/ /\ CheckedState(k) \notin Need(k)
         /\ queue' = queue /\ kind' = kind /\ crashed' = crashed
         /\ queue_state' = queue_state
      \/ /\ CheckedState(k) \in Need(k)
         /\ kind' = [kind EXCEPT ![c] = k]
         /\ PutsFirst(c, k) \/ PutsBefore(c, k) \/ PutsLast(c, k)
  BY <1>0, <1>2, AppendQueue
<1>5. queue \in Seq(Command) /\ kind \in [Command -> Kind]
  BY <1>0, Places
<1>6. ASSUME PutsFirst(c, k) PROVE Joins(c, k)
  <2>1. k \in Asynchronous \cup HighPriority
    BY <1>6 DEF PutsFirst
  <2>2. GoingTo(k) \in {Busy, Stopped}
    BY <2>1, RunningKinds
  <2>3. PICK t \in Seq(Command) :
          /\ queue' = <<c>> \o t
          /\ \/ GoingTo(k) = Busy /\ t = queue /\ queue_state' = queue_state
             \/ /\ GoingTo(k) # Busy /\ t = Kept(queue, GoingTo(k))
                /\ queue_state' = KeptState(queue, GoingTo(k))
    BY <1>6 DEF PutsFirst
  <2>4. Inserts(t, queue', 1, c)
    BY <2>3, InsertFirst
  <2> QED
    BY <2>1, <2>2, <2>3, <2>4 DEF Joins
<1>7. ASSUME PutsBefore(c, k) PROVE Joins(c, k)
  <2>1. k \notin Asynchronous \cup HighPriority /\ Link # none /\ queue_state' = queue_state
    BY <1>7 DEF PutsBefore
  <2>2. ListenerAppends(k)
    BY <1>0, <1>3, <2>1, LinkIsListeners
  <2>3. GoingTo(k) = Busy
    BY <2>2, AsyncKinds DEF ListenerAppends
  <2>4. PICK p \in 1 .. Len(queue) :
          /\ queue[p] = Link
          /\ queue' = SubSeq(queue, 1, p - 1) \o <<c>> \o SubSeq(queue, p, Len(queue))
    BY <1>7 DEF PutsBefore
  <2>5. Inserts(queue, queue', p, c)
    BY <1>5, <2>4, InsertBefore
  <2> QED
    BY <2>1, <2>2, <2>3, <2>4, <2>5 DEF Joins
<1>8. ASSUME PutsLast(c, k) PROVE Joins(c, k)
  BY <1>5, <1>8, InsertLast DEF PutsLast, Joins
<1> QED
  BY <1>1, <1>3, <1>4, <1>5, <1>6, <1>7, <1>8

-----------------------------------------------------------------------------
(* The listeners at work add before the commands that set the state        *)

\* While a listener may append, its link comes before what announces a state.
LinkFirstInv == \A i \in DOMAIN stack : Open(stack[i]) =>
    \A j \in 1 .. Len(queue) :
        Sets(kind, queue[j]) => \E m \in 1 .. Len(queue) : m <= j /\ queue[m] = Link

\* Listeners that are at work have been called before, unless this step calls them.
LEMMA OldOpen ==
    ASSUME CallInv, [Next]_vars, ~EmitStateChange, ~OpenWindow, ~CommandCallback,
           NEW i \in DOMAIN stack', Open(stack'[i])
    PROVE  \E j \in DOMAIN stack : stack[j] = stack'[i]
<1>1. PICK g : g = stack'[i]
  OBVIOUS
<1>2. Open(g)
  BY <1>1
<1>3. ~Fresh(g)
  BY <1>2 DEF Fresh, Open
<1> QED
  BY <1>1, <1>3, CallOrigin

\* Only what has been announced before is ahead of a new link.
LEMMA LinkFirstStep ==
    ASSUME LinkInv, LinkFirstInv, [Next]_vars
    PROVE  LinkFirstInv'
<1>0. /\ TypeInv /\ IInv /\ CallInv /\ CallsInv /\ PlaceInv /\ RunningInv /\ OpenInv
      /\ queue \in Seq(Command) /\ Len(queue) \in Nat
      /\ \A j \in 1 .. Len(queue) : queue[j] \in Command
      /\ insert_command \in Seq(Command \cup {none})
  BY Places DEF LinkInv, RunningInv, PlaceInv, CallInv, TypeInv, IInv, QueueType
<1>1. ~crashed'
  BY LinkFound DEF LinkInv
<1>2. OpenInv'
  BY OpenStep DEF LinkInv
<1>3. ASSUME queue' = queue, kind' = kind, insert_command' = <<HeadLink>> \o insert_command
      PROVE  LinkFirstInv'
  BY <1>0, <1>3, Places DEF Link, HeadLink, LinkFirstInv
<1>4. ASSUME ~EmitStateChange, ~OpenWindow, ~CommandCallback,
             queue' = queue, kind' = kind, insert_command' = insert_command
      PROVE  LinkFirstInv'
  BY <1>0, <1>4, OldOpen DEF LinkFirstInv, Link
<1>5. CASE EmitStateChange
  BY <1>0, <1>3, <1>5, EmitCalls DEF EmitStateChange, Link, LinkFirstInv
<1>6. CASE OpenWindow
  BY <1>3, <1>6 DEF OpenWindow
<1>7. CASE CommandCallback
  <2>1. queue' = queue /\ kind' = kind
    BY <1>7 DEF CommandCallback
  <2>2. CASE insert_command' = <<HeadLink>> \o insert_command
    BY <1>3, <2>1, <2>2
  <2>3. CASE insert_command' = insert_command /\ Puts(0, 1)
    <3>1. Link' = Link
      BY <2>3 DEF Link
    <3>2. \A i \in DOMAIN stack' : \E j \in DOMAIN stack : stack[j] = stack'[i]
      BY <2>3 DEF Puts, Below
    <3> QED
      BY <2>1, <3>1, <3>2 DEF LinkFirstInv
  <2> QED
    BY <1>0, <1>7, <2>2, <2>3, CallbackCalls
<1>8. ASSUME NEW i \in DOMAIN stack, Open(stack[i])
      PROVE  /\ i # 1 => Over(stack[i]) \/ stack[1].fn \in {"complete", "execute", "send"}
             /\ stack[1].fn = "send" => (i = 2 /\ SendsFor(stack[2])) \/ Over(stack[i])
  BY <1>0, <1>8 DEF OpenInv, Open, Place
<1>9. ASSUME NEW i \in DOMAIN stack', Open(stack'[i]), queue # <<>>, queue' = Tail(queue), kind' = kind,
             insert_command' = insert_command, Head(queue) # Link, LinkFirstInv,
             \E j \in DOMAIN stack : Open(stack[j])
      PROVE  \A j \in 1 .. Len(queue') :
                 Sets(kind', queue'[j]) => \E m \in 1 .. Len(queue') : m <= j /\ queue'[m] = Link'
  <2>1. ASSUME NEW j \in 1 .. Len(queue'), Sets(kind', queue'[j])
        PROVE  \E m \in 1 .. Len(queue') : m <= j /\ queue'[m] = Link'
    <3>0. /\ Head(queue) = queue[1] /\ Len(queue') = Len(queue) - 1
          /\ \A x \in 1 .. Len(queue') : queue'[x] = queue[x + 1] /\ x + 1 \in 1 .. Len(queue)
      BY <1>0, <1>9, Places
    <3>1. j + 1 \in 1 .. Len(queue) /\ Sets(kind, queue[j + 1])
      BY <1>9, <2>1, <3>0
    <3>2. PICK m \in 1 .. Len(queue) : m <= j + 1 /\ queue[m] = Link
      BY <1>9, <3>1 DEF LinkFirstInv
    <3>3. m # 1
      BY <1>9, <3>0, <3>2
    <3>4. m - 1 \in 1 .. Len(queue') /\ m - 1 <= j /\ (m - 1) + 1 = m
      BY <1>0, <3>0, <3>2, <3>3
    <3>5. queue'[m - 1] = queue[m]
      BY <3>0, <3>4
    <3>6. Link' = Link
      BY <1>9 DEF Link
    <3> QED
      BY <3>2, <3>4, <3>5, <3>6
  <2> QED
    BY <2>1
<1>10. CASE CloseWindow
  <2>1. Puts(0, 1) /\ stack[1].fn = "window" /\ queue' = queue
    BY <1>0, <1>10, CloseCalls DEF CloseWindow
  <2>2. ASSUME NEW i \in DOMAIN stack', Open(stack'[i]) PROVE queue = <<>>
    BY <1>8, <2>1, <2>2 DEF Puts, Below, Over
  <2> QED
    BY <2>1, <2>2 DEF LinkFirstInv
<1>11. CASE Complete
  <2>1. stack'[1].fn = "emit" /\ stack'[2].fn = "execute"
    BY <1>0, <1>11, CompleteCalls
  <2>2. ASSUME NEW i \in DOMAIN stack', Open(stack'[i]) PROVE queue' = <<>>
    <3>0. PICK g : g = stack'[i]
      OBVIOUS
    <3>1. Place(i, g)'
      BY <1>2, <2>2, <3>0 DEF OpenInv
    <3>2. g.fn = "window"
      BY <2>2, <3>0 DEF Open
    <3>3. Over(g)'
      BY <2>1, <3>0, <3>1, <3>2 DEF Place
    <3> QED
      BY <3>3 DEF Over
  <2> QED
    BY <2>2 DEF LinkFirstInv
<1>12. CASE Send \/ SendSetEnvironment \/ SendInterrupt \/ SendAbort
  <2>1. /\ stack[1].fn = "send" /\ queue # <<>> /\ last = none /\ queue' = Tail(queue)
        /\ kind' = kind /\ insert_command' = insert_command
    BY <1>0, <1>12, TopIs DEF Send, SendSetEnvironment, SendInterrupt, SendAbort, Sends
  <2>2. ASSUME NEW i \in DOMAIN stack', Open(stack'[i])
        PROVE  Head(queue) # Link /\ \E j \in DOMAIN stack : Open(stack[j])
    <3>1. ~EmitStateChange /\ ~OpenWindow /\ ~CommandCallback
      BY <1>0, <2>1, TopIs DEF EmitStateChange, OpenWindow, CommandCallback
    <3>2. PICK j \in DOMAIN stack : stack[j] = stack'[i]
      BY <1>0, <2>2, <3>1, OldOpen
    <3>3. ~Over(stack[j])
      BY <2>1 DEF Over
    <3>4. SendsFor(stack[2])
      BY <1>8, <2>1, <2>2, <3>2, <3>3
    <3> QED
      BY <2>1, <2>2, <3>2, <3>4 DEF SendsFor
  <2> QED
    BY <1>9, <2>1, <2>2 DEF LinkFirstInv
<1>13. CASE SendFails
  <2>1. stack[1].fn = "send" /\ queue # <<>> /\ stack' = stack /\ ~FromListener
    BY <1>0, <1>13, TopIs DEF SendFails, Sends
  <2>2. ASSUME NEW i \in DOMAIN stack, Open(stack[i]) PROVE FALSE
    <3>1. ~Over(stack[i])
      BY <2>1 DEF Over
    <3>2. i = 2 /\ Len(stack) > 1
      BY <1>0, <1>8, <2>1, <2>2, <3>1, OpenAt
    <3> QED
      BY <2>1, <2>2, <3>2 DEF FromListener, Open
  <2> QED
    BY <2>1, <2>2 DEF LinkFirstInv
<1>14. CASE Appending
  <2>1. insert_command' = insert_command /\ Link' = Link
    BY <1>0, <1>14, AppendsLeave DEF Link
  <2>2. ~EmitStateChange /\ ~OpenWindow /\ ~CommandCallback
    BY <1>0, <1>14, AppendTop, TopIs DEF EmitStateChange, OpenWindow, CommandCallback, Top
  <2>3. CASE queue' = queue /\ kind' = kind
    BY <1>4, <2>1, <2>2, <2>3
  <2>4. ASSUME NEW c \in Command, NEW k \in Kind, Joins(c, k), kind'[c] = k, Adder(k),
               \A j \in 1 .. Len(queue) : kind'[queue[j]] = kind[queue[j]]
        PROVE  LinkFirstInv'
    <3>1. SUFFICES ASSUME NEW i \in DOMAIN stack', Open(stack'[i]), NEW j \in 1 .. Len(queue'),
                          Sets(kind', queue'[j])
                   PROVE  \E m \in 1 .. Len(queue') : m <= j /\ queue'[m] = Link
      BY <2>1 DEF LinkFirstInv
    <3>2. PICK x \in DOMAIN stack : stack[x] = stack'[i]
      BY <1>0, <2>2, <3>1, OldOpen
    <3>3. stack # <<>> /\ stack[1].fn = "window"
      BY <1>0, <1>14, <3>1, <3>2, OpenAt, AppendTop DEF Open
    <3>4. ListenerAppends(k)
      BY <1>0, <2>4, <3>3, TopIs DEF Adder, AddQuit, RunAgain, QuitDebugger, UserAppends
    <3>5. k \notin Asynchronous \cup HighPriority /\ GoingTo(k) = Busy
      BY <3>4, AsyncKinds DEF ListenerAppends
    <3>6. \A y \in 1 .. Len(queue) : Sets(kind, queue[y]) =>
              \E m \in 1 .. Len(queue) : m <= y /\ queue[m] = Link
      BY <3>1, <3>2 DEF LinkFirstInv
    <3>7. queue'[j] # c
      BY <2>4, <3>1, <3>5 DEF Sets
    <3>8. CASE \E p \in 1 .. Len(queue) : queue[p] = Link /\ Inserts(queue, queue', p, c)
      <4>1. PICK p \in 1 .. Len(queue) : queue[p] = Link /\ Inserts(queue, queue', p, c)
        BY <3>8
      <4>2. p \in Nat /\ queue'[p] = c /\ Len(queue') = Len(queue) + 1
        BY <4>1 DEF Inserts
      <4>3. CASE j < p
        <5>1. j \in 1 .. Len(queue) /\ queue'[j] = queue[j]
          BY <4>1, <4>3 DEF Inserts
        <5>2. PICK m \in 1 .. Len(queue) : m <= j /\ queue[m] = Link
          BY <2>4, <3>1, <3>6, <5>1 DEF Sets
        <5>3. m \in 1 .. Len(queue') /\ m < p
          BY <1>0, <4>2, <4>3, <5>2
        <5>4. queue'[m] = queue[m]
          BY <4>1, <5>3 DEF Inserts
        <5> QED
          BY <5>2, <5>3, <5>4
      <4>4. CASE j > p
        <5>1. p + 1 \in 1 .. Len(queue') /\ p + 1 <= j /\ p + 1 > p /\ (p + 1) - 1 = p
          BY <1>0, <4>2, <4>4
        <5>2. queue'[p + 1] = queue[p]
          BY <4>1, <5>1 DEF Inserts
        <5> QED
          BY <4>1, <5>1, <5>2
      <4> QED
        BY <3>7, <4>2, <4>3, <4>4
    <3>9. CASE Link = none /\ Inserts(queue, queue', Len(queue) + 1, c)
      BY <1>0, <2>4, <3>1, <3>6, <3>7, <3>9, Places DEF Inserts, Sets
    <3> QED
      BY <2>4, <3>5, <3>8, <3>9 DEF Joins
  <2> QED
    BY <1>1, <1>14, <2>3, <2>4, AppendJoins
<1>15. CASE UNCHANGED vars
  BY <1>15 DEF vars, self, Link, LinkFirstInv
<1>16. CASE \/ StateEmitted \/ Execute \/ AllSent \/ DebuggerReady \/ Reread
            \/ \E s \in State : BackendDone(s)
            \/ ProgramRuns \/ SharedlibEvent \/ BackendEnds
  BY <1>4, <1>5, <1>6, <1>7, <1>16 DEF StateEmitted, Execute, AllSent, DebuggerReady, Reread,
     BackendDone, ProgramRuns, SharedlibEvent, BackendEnds, self
<1> QED
  BY <1>5, <1>6, <1>7, <1>10, <1>11, <1>12, <1>13, <1>14, <1>15, <1>16 DEF Next, Return, Appending

-----------------------------------------------------------------------------
(* What the queue does while the backend is busy                           *)

\* The first command goes to the busy backend, and is about to be sent.
Overtakes ==
    /\ queue # <<>>
    /\ kind[queue[1]] \in Asynchronous
    /\ debugger_state \in Need(kind[queue[1]])
    /\ kind[queue[1]] = "interrupt" => ~reply
    /\ Only({"complete", "emit", "execute", "send", "quit"})
    /\ Stacked({"complete", "execute", "send"})
    /\ \A i \in DOMAIN stack :
           stack[i].fn \in {"complete", "emit"} => stack[i].state = debugger_state

\* The command in progress is taken from a busy backend only for such a command.
WorkInv == working /\ (last = none \/ Top("complete")) => Overtakes

\* A busy backend works on the command in progress, or that is an interrupt.
JobInv ==
    working /\ last # none =>
        \/ /\ kind[last] \notin Asynchronous
           /\ job = last
           /\ at \in Need(kind[last])
           /\ GoingTo(kind[last]) = Stopped => ends = {}
        \/ /\ kind[last] = "interrupt"
           /\ ~reply
           /\ debugger_state = Running
           /\ \A i \in DOMAIN stack :
                  stack[i].fn \in {"complete", "emit"} => stack[i].state = Running

\* A first command that fits the state is not cancelled.
LEMMA KeepsFirst ==
    ASSUME NEW q \in Seq(Command), NEW s, q # <<>>, Stays(q, s, q[1]),
           \A i, j \in 1 .. Len(q) : q[i] = q[j] => i = j
    PROVE  Kept(q, s) \in Seq(Command) /\ Kept(q, s) # <<>> /\ Kept(q, s)[1] = q[1]
<1> DEFINE t == Kept(q, s)
<1>1. /\ t \in Seq(Command) /\ Thins(t, q)
      /\ \A a \in 1 .. Len(q) : Stays(q, s, q[a]) => \E i \in 1 .. Len(t) : t[i] = q[a]
  BY KeptIs
<1>2. Len(t) \in Nat /\ Len(q) \in Nat /\ 1 \in 1 .. Len(q)
  BY <1>1, LenProperties, EmptySeq
<1> HIDE DEF t
<1>3. PICK i \in 1 .. Len(t) : t[i] = q[1]
  BY <1>1, <1>2
<1>4. i = 1
  <2>1. SUFFICES ASSUME i # 1 PROVE FALSE
    OBVIOUS
  <2>2. 1 \in 1 .. Len(t) /\ 1 < i
    BY <1>2, <2>1
  <2>3. PICK x, y \in 1 .. Len(q) : x < y /\ q[x] = t[1] /\ q[y] = t[i]
    BY <1>1, <2>2 DEF Thins
  <2>4. y = 1
    BY <1>2, <1>3, <2>3
  <2> QED
    BY <1>2, <2>3, <2>4
<1>5. t # <<>>
  BY <1>2, <1>3, EmptySeq
<1> QED
  BY <1>1, <1>3, <1>4, <1>5 DEF t

\* Who goes on when a call has to add the last command.
LEMMA QuitSteps ==
    ASSUME [Next]_vars, stack # <<>>, stack[1] = Head(stack), stack[1].fn = "quit"
    PROVE  Appending \/ UNCHANGED vars
BY DEF Next, Return, Appending, Complete, EmitStateChange, StateEmitted, OpenWindow, CloseWindow,
   Execute, Send, SendSetEnvironment, SendInterrupt, SendAbort, SendFails, AllSent, Sends,
   CommandCallback, DebuggerReady, Reread, Top, BackendDone, ProgramRuns, SharedlibEvent, BackendEnds

\* Only two kinds start without a debugger.
LEMMA StoppedNeeds ==
    /\ \A k \in Kind : Stopped \in Need(k) => k \in {"load", "attach"}
    /\ Need("interrupt") = {Running}
    /\ Need("abort") = {Started, Loaded, PStopped, Running}
    /\ Asynchronous = {"abort", "interrupt"} /\ GoingTo("interrupt") = Busy /\ GoingTo("abort") = Stopped
<1>1. \A k \in Kind : Stopped \in Need(k) => k \in {"load", "attach"}
  BY DEF Kind, Need, AnyKinds, BreakKinds, StepKinds, StoppedKinds, FrameKinds, RunKinds, Stopped, Started,
     Loaded, PStopped, Running
<1> QED
  BY <1>1, RunningKinds DEF Need, AnyKinds, BreakKinds, StepKinds, StoppedKinds, FrameKinds, Asynchronous,
     GoingTo, RunKinds

\* What overtakes stays first until it is sent.
LEMMA WorkStays ==
    ASSUME LinkInv, [Next]_vars, working, last = none \/ Top("complete"), Overtakes,
           working', last' = none \/ Top("complete")'
    PROVE  Overtakes'
<1>0. /\ TypeInv /\ IInv /\ CallInv /\ CallsInv /\ PlaceInv /\ RunningInv /\ UniqueInv
      /\ queue \in Seq(Command) /\ Len(queue) \in Nat
      /\ \A j \in 1 .. Len(queue) : queue[j] \in Command
  BY Places DEF LinkInv, RunningInv, PlaceInv, CallInv, TypeInv, IInv
<1>1. queue # <<>> /\ Head(queue) = queue[1] /\ 1 \in 1 .. Len(queue)
  BY <1>0, Places DEF Overtakes
<1>2. stack # <<>> /\ stack[1] = Head(stack) /\ 1 \in DOMAIN stack
      /\ stack[1].fn \in {"complete", "emit", "execute", "send", "quit"}
  BY <1>0, LenProperties, EmptySeq, HeadTailProperties DEF Overtakes, Stacked, CallsInv, Only
<1>3. CASE UNCHANGED vars
  BY <1>3 DEF vars, self, backend, Overtakes, Only, Stacked
<1>4. ~Appending
  BY <1>0, <1>2, AppendTop DEF Overtakes, Stacked
<1>5. ASSUME NEW n \in Nat, NEW m \in {0, 1}, Puts(n, m),
             \A i \in 1 .. n : /\ stack'[i].fn \in {"complete", "emit", "execute", "send", "quit"}
                               /\ stack'[i].fn \in {"complete", "emit"} =>
                                      stack'[i].state = debugger_state,
             debugger_state' = debugger_state, reply' = reply, kind' = kind,
             queue' # <<>>, queue'[1] = queue[1], Stacked({"complete", "execute", "send"})'
      PROVE  Overtakes'
  <2>1. Only({"complete", "emit", "execute", "send", "quit"})'
    BY <1>5, OnlyPuts DEF Overtakes
  <2>2. ASSUME NEW i \in DOMAIN stack', stack'[i].fn \in {"complete", "emit"}
        PROVE  stack'[i].state = debugger_state
    <3>1. CASE i > n
      BY <1>5, <2>2, <3>1 DEF Puts, Below, Overtakes
    <3>2. CASE ~(i > n)
      BY <1>5, <2>2, <3>2 DEF Puts
    <3> QED
      BY <3>1, <3>2
  <2> QED
    BY <1>5, <2>1, <2>2 DEF Overtakes
<1>6. CASE Complete
  <2>1. /\ Puts(2, 1) /\ stack[1].fn = "complete"
        /\ stack'[1].fn = "emit" /\ stack'[1].state = stack[1].state
        /\ stack'[2].fn = "execute"
    BY <1>0, <1>6, CompleteCalls
  <2>2. stack[1].state = debugger_state
    BY <1>2, <2>1 DEF Overtakes
  <2>3. Stays(queue, debugger_state, queue[1])
    BY DEF Overtakes, Stays
  <2>4. \A i, j \in 1 .. Len(queue) : queue[i] = queue[j] => i = j
    BY <1>0 DEF UniqueInv
  <2>5. queue' # <<>> /\ queue'[1] = queue[1]
    BY <1>0, <1>1, <1>2, <1>6, <2>2, <2>3, <2>4, KeepsFirst DEF Complete, CancelUnexpected
  <2>6. debugger_state' = debugger_state /\ reply' = reply /\ kind' = kind
    BY <1>6 DEF Complete
  <2>7. Stacked({"complete", "execute", "send"})'
    BY <2>1, NewStacked
  <2>8. \A i \in 1 .. 2 : i = 1 \/ i = 2
    OBVIOUS
  <2> QED
    BY <1>5, <2>1, <2>2, <2>5, <2>6, <2>7, <2>8
<1>7. CASE StateEmitted
  <2>1. Puts(0, 1) /\ stack[1].fn = "emit"
    BY <1>0, <1>7, ReturnCalls
  <2>2. queue' = queue /\ debugger_state' = debugger_state /\ reply' = reply /\ kind' = kind
    BY <1>7 DEF StateEmitted, self, backend
  <2>3. Stacked({"complete", "execute", "send"})'
    BY <2>1, StackedPuts DEF Overtakes
  <2>4. \A i \in 1 .. 0 : FALSE
    OBVIOUS
  <2> QED
    BY <1>1, <1>5, <2>1, <2>2, <2>3, <2>4
<1>8. CASE Execute
  <2>1. Puts(1, 1) /\ stack'[1].fn = "send"
    BY <1>0, <1>8, ExecuteCalls
  <2>2. queue' = queue /\ debugger_state' = debugger_state /\ reply' = reply /\ kind' = kind
    BY <1>8 DEF Execute, self, backend
  <2>3. Stacked({"complete", "execute", "send"})'
    BY <2>1, NewStacked
  <2>4. \A i \in 1 .. 1 : i = 1
    OBVIOUS
  <2> QED
    BY <1>1, <1>5, <2>1, <2>2, <2>3, <2>4
<1>9. ~EmitStateChange
  BY <1>0, <1>2, EmitCalls DEF Overtakes
<1>10. ASSUME stack[1].fn = "send" PROVE UNCHANGED vars
  <2>1. last = none
    BY <1>10, <1>2 DEF Top
  <2>2. kind[Head(queue)] \in Asynchronous
    BY <1>1 DEF Overtakes
  <2>3. ~Send
    BY <2>2 DEF Send
  <2>4. ~SendSetEnvironment /\ ~SendFails
    BY <2>2, StoppedNeeds DEF SendSetEnvironment, SendFails
  <2>5. ~AllSent
    BY <1>1, <2>1 DEF AllSent
  <2>6. ~SendAbort
    BY DEF SendAbort, BackendGone
  <2>7. ~SendInterrupt
    BY <1>0, <1>1, <1>2, <1>10, Places DEF SendInterrupt, Top
  <2> QED
    BY <1>0, <1>2, <1>10, <2>3, <2>4, <2>5, <2>6, <2>7, TopSteps
<1> QED
  BY <1>0, <1>2, <1>3, <1>4, <1>6, <1>7, <1>8, <1>9, <1>10, TopSteps, QuitSteps

\* A busy backend is given another command only if that goes to a busy backend.
LEMMA WorkStep ==
    ASSUME LinkInv, SettleInv, ReplyInv, JobInv, WorkInv, ~AbortsLoad, [Next]_vars
    PROVE  WorkInv'
<1>0. /\ TypeInv /\ IInv /\ CallInv /\ CallsInv /\ PlaceInv /\ RunningInv /\ UniqueInv
      /\ last \in Command \cup {none} /\ none \notin Command /\ kind \in [Command -> Kind]
  BY Places DEF LinkInv, RunningInv, PlaceInv, CallInv, TypeInv, IInv
<1>1. ~crashed'
  BY LinkFound DEF LinkInv
<1>2. SUFFICES ASSUME working', last' = none \/ Top("complete")' PROVE Overtakes'
  BY DEF WorkInv
<1>3. working
  <2>1. CASE Send /\ ~working
    BY <1>0, <1>2, <2>1, Places DEF Send, Sends, Top
  <2> QED
    BY <1>0, <1>2, <2>1, BackendMoves, IdleCalls DEF CommandCallback, ProgramRuns
<1>4. CASE last = none \/ Top("complete")
  BY <1>2, <1>3, <1>4, WorkStays DEF WorkInv
<1>5. CASE last # none /\ ~Top("complete")
  <2>1. last' = last
    BY <1>0, <1>5, AppendsLeave, QueueMoves DEF Complete
  <2>2. Top("complete")'
    BY <1>2, <1>5, <2>1
  <2>3. PICK g : g = stack'[1]
    OBVIOUS
  <2>4. 1 \in DOMAIN stack' /\ g.fn = "complete"
    <3>1. CallsInv'
      BY <1>0, CallsStep DEF IInv
    <3> QED
      BY <2>2, <2>3, <3>1, LenProperties, EmptySeq, HeadTailProperties DEF Top, CallsInv
  <2>5. Fresh(g)
    <3>1. SUFFICES ASSUME NEW j \in DOMAIN stack, stack[j] = g, j > 1 \/ g = stack[1] PROVE FALSE
      <4>1. ~(1 > 1)
        OBVIOUS
      <4> QED
        BY <1>0, <2>3, <2>4, <3>1, <4>1, CallOrigin
    <3>2. j = 1
      BY <1>0, <2>4, <3>1 DEF CallInv, FrameInv
    <3>3. Top("complete")
      BY <1>0, <2>4, <3>1, <3>2, LenProperties, EmptySeq, HeadTailProperties DEF Top, CallsInv
    <3> QED
      BY <1>5, <3>3
  <2>6. stack = <<>> /\ Appending /\ g.state = debugger_state
    BY <1>2, <2>4, <2>5 DEF Fresh
  <2>7. Settles(debugger_state) /\ SettleInv
    BY <2>6 DEF SettleInv, Stacked
  <2>8. at \in State /\ at # Running /\ reply' = reply /\ debugger_state' = debugger_state
    BY <1>0, <2>6, AppendsLeave DEF CallInv, ReportInv, IInv, BackendInv
  <2>9. debugger_state = Running => ~reply
    BY <2>7, <2>8 DEF Settles, ReplyInv
  <2>10. ~AddQuit /\ ~RunAgain /\ \A k : ~ListenerAppends(k)
    BY <2>6 DEF AddQuit, RunAgain, ListenerAppends, Top
  <2>11. ASSUME NEW k \in Kind, Adder(k)
         PROVE  /\ CheckedState(k) \in Need(k) /\ k \in Asynchronous
                /\ GoingTo(k) = Stopped \/ debugger_state = Running
                /\ stack' \in Seq(Call) /\ DOMAIN stack' = 1 .. Len(stack')
                /\ \/ Len(stack') = 2 /\ stack'[2].fn = "execute"
                   \/ Len(stack') = 3 /\ stack'[2].fn = "execute" /\ stack'[3].fn = "quit"
                /\ k = "interrupt" \/ UserAppends(k)
    BY <1>0, <1>3, <2>3, <2>4, <2>10, <2>11, UserCalls, QuitCalls, StoppedNeeds DEF Adder
  <2>12. PICK c \in Command, k \in Kind :
           Adder(k) /\ Joins(c, k) /\ CheckedState(k) \in Need(k) /\ kind'[c] = k
    BY <1>1, <2>6, <2>11, AppendJoins
  <2>13. queue' # <<>> /\ queue'[1] = c
    BY <1>0, <2>11, <2>12, QueueStep, EmptySeq DEF Joins, Inserts, QueueType
  <2>14. debugger_state \in Need(k)
    <3>1. CASE k = "interrupt"
      BY <2>11, <2>12, <3>1, StoppedNeeds DEF Busy, Stopped
    <3>2. CASE k = "abort" /\ UserAppends(k)
      <4>1. kind[last] \notin {"load", "attach"} /\ kind[last] \in Kind
        BY <1>0, <1>5, <3>2 DEF UserAppends
      <4>2. debugger_state = Running \/ (debugger_state = at /\ at \in Need(kind[last]))
        BY <1>3, <1>5, <2>7 DEF JobInv, Settles
      <4>3. debugger_state # Stopped
        BY <4>1, <4>2, StoppedNeeds DEF Stopped, Running
      <4>4. debugger_state \in State
        BY <1>0 DEF IInv, PhaseInv
      <4> QED
        BY <3>2, <4>3, <4>4, StoppedNeeds DEF State, Stopped, Started, Loaded, PStopped, Running
    <3> QED
      BY <2>11, <2>12, <3>1, <3>2, StoppedNeeds
  <2>15. kind'[queue'[1]] = "interrupt" => ~reply'
    BY <2>8, <2>9, <2>11, <2>12, <2>13, StoppedNeeds DEF Busy, Stopped
  <2>16. \A i \in DOMAIN stack' : /\ i = 1 \/ stack'[i].fn \in {"execute", "quit"}
                                  /\ stack'[1].fn = "complete" /\ stack'[1].state = debugger_state
    BY <2>3, <2>4, <2>6, <2>11, <2>12
  <2>17. Only({"complete", "emit", "execute", "send", "quit"})' /\ Stacked({"complete", "execute", "send"})'
    BY <2>3, <2>4, <2>16 DEF Only, Stacked
  <2>18. \A i \in DOMAIN stack' :
             stack'[i].fn \in {"complete", "emit"} => stack'[i].state = debugger_state
    BY <2>16
  <2> QED
    BY <2>8, <2>11, <2>12, <2>13, <2>14, <2>15, <2>17, <2>18 DEF Overtakes
<1> QED
  BY <1>4, <1>5

\* Each queued command fits the state that the ones before it lead to.
PlanInv == Planned(kind, queue, queue_state)

\* The first ones fit the state of an idle backend, or the one that the command
\* in progress leads to.
FrontInv ==
    /\ last = none /\ ~working =>
           /\ Front(kind, queue, at, {})
           /\ NoneSets(kind, queue) => queue_state = at
    /\ last # none /\ Sets(kind, last) =>
           /\ Front(kind, queue, GoingTo(kind[last]), Asynchronous)
           /\ NoneSets(kind, queue) => queue_state = GoingTo(kind[last])

\* Only signals change the state.
LEMMA StateStays ==
    ASSUME CallInv, [Next]_vars, ~EmitStateChange
    PROVE  debugger_state' = debugger_state
<1>1. CASE Appending
  BY <1>1, AppendsLeave
<1>2. CASE ~Appending
  BY <1>2 DEF Next, Return, Appending, vars, self, StateEmitted, Complete,
     OpenWindow, CloseWindow, Execute, Send, SendSetEnvironment, SendInterrupt,
     SendFails, AllSent, CommandCallback, Reread, BackendDone, ProgramRuns,
     SendAbort, DebuggerReady, SharedlibEvent, BackendEnds
<1> QED
  BY <1>1, <1>2

\* The command in progress changes when it is completed and when it is sent.
LEMMA LastMoves ==
    ASSUME PlaceInv, [Next]_vars
    PROVE  \/ last' = last /\ (last # none => kind'[last] = kind[last])
           \/ Complete /\ last' = none /\ kind' = kind
           \/ /\ Send \/ SendSetEnvironment \/ SendInterrupt \/ SendAbort
              /\ queue # <<>> /\ last = none /\ last' = queue[1] /\ queue' = Tail(queue)
              /\ last' # none /\ last' \in Command /\ kind' = kind /\ Top("send")
              /\ debugger_state' = debugger_state
              /\ Head(queue) = queue[1] /\ 1 \in 1 .. Len(queue)
<1>0. TypeInv /\ CallInv /\ UniqueInv
  BY DEF PlaceInv, CallInv
<1>1. CASE Appending
  BY <1>0, <1>1, AppendsLeave, AddedCommand
<1>2. CASE ~Appending
  BY <1>0, <1>2, NoAppendQueue, Places, QueueMoves DEF Send, SendSetEnvironment, SendInterrupt,
     SendAbort, Sends
<1> QED
  BY <1>1, <1>2

\* The backend works on what the queue has in progress.
LEMMA JobStep ==
    ASSUME LinkInv, WorkInv, JobInv, FrontInv, [Next]_vars
    PROVE  JobInv'
<1>0. /\ TypeInv /\ IInv /\ CallInv /\ CallsInv /\ PlaceInv /\ RunningInv /\ UniqueInv
      /\ last \in Command \cup {none} /\ none \notin Command /\ kind \in [Command -> Kind]
      /\ queue \in Seq(Command)
  BY Places DEF LinkInv, RunningInv, PlaceInv, CallInv, TypeInv, IInv
<1>1. SUFFICES ASSUME working', last' # none PROVE JobInv'
  BY DEF JobInv
<1>2. CASE Send /\ ~working
  <2>1. /\ last' = queue[1] /\ last = none /\ kind' = kind /\ at' = at /\ job' = queue[1]
        /\ ends' = EndsOf(kind[queue[1]], at) /\ kind[queue[1]] \notin Asynchronous
        /\ queue[1] \in Command /\ 1 \in 1 .. Len(queue)
    BY <1>0, <1>2, Places DEF Send, Sends
  <2>2. Plain(kind, queue, 1, 1)
    BY DEF Plain
  <2>3. at \in Need(kind[queue[1]])
    BY <1>2, <2>1, <2>2 DEF FrontInv, Front
  <2>4. GoingTo(kind[queue[1]]) = Stopped => ends' = {}
    BY <2>1 DEF GoingTo, Asynchronous, Stopped, Started, Loaded, Running, Busy, EndsOf, RunKinds,
       StepKinds
  <2> QED
    BY <2>1, <2>3, <2>4 DEF JobInv
<1>3. CASE working /\ last = none
  <2>1. /\ Send \/ SendSetEnvironment \/ SendInterrupt \/ SendAbort
        /\ last' = queue[1] /\ kind' = kind /\ debugger_state' = debugger_state
        /\ Head(queue) = queue[1]
    BY <1>0, <1>1, <1>3, LastMoves DEF Complete, FreeLast
  <2>2. Overtakes
    BY <1>3 DEF WorkInv
  <2>3. ~SendAbort
    BY <1>1 DEF SendAbort, BackendGone
  <2>4. SendInterrupt
    BY <2>1, <2>2, <2>3, StoppedNeeds DEF Overtakes, Send, SendSetEnvironment
  <2>5. kind[queue[1]] = "interrupt" /\ stack' = stack /\ reply' = reply
    BY <2>1, <2>4 DEF SendInterrupt, backend
  <2>6. ~reply /\ debugger_state = Running
    BY <2>2, <2>5, StoppedNeeds DEF Overtakes
  <2> QED
    BY <2>1, <2>2, <2>5, <2>6 DEF JobInv, Overtakes
<1>4. CASE working /\ last # none
  <2>1. last' = last /\ kind'[last] = kind[last] /\ ~Complete
    BY <1>0, <1>1, <1>4, LastMoves DEF Complete, FreeLast
  <2>2. at' = at /\ job' = job /\ ends' = ends /\ (reply' = reply \/ reply' = FALSE)
    BY <1>0, <1>1, <1>4, <2>1, IdleCalls, BackendMoves DEF CommandCallback, ProgramRuns
  <2>3. CASE kind[last] \notin Asynchronous
    BY <1>4, <2>1, <2>2, <2>3, StoppedNeeds DEF JobInv
  <2>4. CASE kind[last] \in Asynchronous
    BY <1>0, <1>1, <1>4, <2>1, <2>2, <2>4, TopIs, StateStays, CallOrigin DEF JobInv,
       EmitStateChange, Fresh
  <2> QED
    BY <2>3, <2>4
<1> QED
  BY <1>0, <1>1, <1>2, <1>3, <1>4, BackendMoves, IdleCalls DEF CommandCallback, ProgramRuns

\* An idle backend has no command in progress, but for one whose end the queue is
\* about to see; what is queued for a busy backend finds it so.
IdleInv ==
    /\ \/ working \/ last = none \/ Top("complete")
       \/ at = Stopped /\ Stacked({"reread"})
    /\ \A k \in 1 .. Len(queue) :
           /\ kind[queue[k]] = "abort" => working \/ last = none
           /\ kind[queue[k]] = "interrupt" =>
                  last = none \/ GoingTo(kind[last]) # Stopped

\* What is queued after an append is the new command or has been queued before.
LEMMA JoinsOrigin ==
    ASSUME TypeInv, NEW c, NEW k, Joins(c, k)
    PROVE  \A i \in 1 .. Len(queue') :
               queue'[i] = c \/ \E a \in 1 .. Len(queue) : queue'[i] = queue[a]
<1>0. queue \in Seq(Command)
  BY Places
<1>1. ASSUME NEW q, NEW p, Inserts(q, queue', p, c), NEW i \in 1 .. Len(queue')
      PROVE  queue'[i] = c \/ \E a \in 1 .. Len(q) : queue'[i] = q[a]
  <2>1. p \in Nat /\ queue'[p] = c
    BY <1>1 DEF Inserts
  <2>2. i < p \/ i = p \/ i > p
    BY <2>1
  <2> QED
    BY <1>1, <2>1, <2>2 DEF Inserts
<1>2. \A a \in 1 .. Len(Kept(queue, Stopped)) :
          \E b \in 1 .. Len(queue) : Kept(queue, Stopped)[a] = queue[b]
  BY <1>0, KeptIs DEF Thins
<1>3. CASE \E p : Inserts(queue, queue', p, c)
  BY <1>1, <1>3
<1>4. CASE Inserts(Kept(queue, Stopped), queue', 1, c)
  BY <1>1, <1>2, <1>4
<1> QED
  BY <1>3, <1>4 DEF Joins

\* An idle backend ends the command in progress.
LEMMA IdleLastStep ==
    ASSUME LinkInv, FrontInv, IdleInv, [Next]_vars, ~working', last' # none
    PROVE  Top("complete")' \/ (at' = Stopped /\ Stacked({"reread"})')
<1>0. /\ TypeInv /\ IInv /\ CallInv /\ CallsInv /\ PlaceInv /\ RunningInv
      /\ FrameInv /\ ReportInv
  BY DEF LinkInv, RunningInv, PlaceInv, CallInv, TypeInv, IInv
<1>1. ASSUME 1 \in DOMAIN stack', stack'[1].fn = "complete" PROVE Top("complete")'
  <2>1. CallsInv'
    BY <1>0, CallsStep DEF IInv
  <2> QED
    BY <1>1, <2>1, LenProperties, EmptySeq, HeadTailProperties DEF Top, CallsInv
<1>2. CASE SendAbort
  <2>1. Puts(2, 0) /\ stack'[2].fn = "reread" /\ at' = Stopped
    BY <1>0, <1>2, AbortCalls DEF SendAbort, BackendGone
  <2> QED
    BY <2>1, NewStacked
<1>3. CASE BackendEnds
  <2>1. DOMAIN stack' = 1 .. Len(stack') /\ Len(stack') = 2 /\ stack'[2].fn = "reread" /\ at' = Stopped
    BY <1>0, <1>3, EndsCalls DEF BackendEnds, BackendGone
  <2>2. 2 \in DOMAIN stack'
    BY <2>1
  <2> QED
    BY <2>1, <2>2 DEF Stacked
<1>4. CASE DebuggerReady
  BY <1>0, <1>1, <1>4, ReadyCalls DEF Puts
<1>5. CASE SharedlibEvent
  <2>1. DOMAIN stack' = 1 .. Len(stack') /\ Len(stack') = 3 /\ stack'[1].fn = "complete"
    BY <1>0, <1>5, SharedlibCalls
  <2>2. 1 \in DOMAIN stack'
    BY <2>1
  <2> QED
    BY <1>1, <2>1, <2>2
<1>6. CASE ~SendAbort /\ ~BackendEnds /\ ~DebuggerReady /\ ~SharedlibEvent
  <2>1. at' = at /\ ~working /\ ~Send
    <3>1. ~Send
      BY DEF Send
    <3>2. CASE CommandCallback \/ ProgramRuns
      BY <1>6, <3>1, <3>2 DEF CommandCallback, ProgramRuns
    <3> QED
      BY <1>0, <1>6, <3>1, <3>2, BackendMoves
  <2>2. CASE last = none
    BY <1>0, <1>1, <1>6, <2>1, <2>2, LastMoves, SetEnvironmentCalls, Places, StoppedNeeds DEF
       Puts, SendInterrupt, Sends, Plain, FrontInv, Front, ReportInv
  <2>3. CASE last # none /\ Top("complete")
    BY <1>0, <2>3, CompletesFirst DEF Complete, FreeLast, vars, Top
  <2>4. CASE last # none /\ at = Stopped /\ Stacked({"reread"})
    BY <1>0, <1>1, <2>1, <2>4, StackStays, RereadCalls DEF Function, Puts
  <2> QED
    BY <2>1, <2>2, <2>3, <2>4 DEF IdleInv
<1> QED
  BY <1>2, <1>3, <1>4, <1>5, <1>6

\* An abort that is queued finds the backend busy or the queue idle.
LEMMA IdleAbortStep ==
    ASSUME LinkInv, FrontInv, IdleInv, [Next]_vars,
           NEW k \in 1 .. Len(queue'), kind'[queue'[k]] = "abort"
    PROVE  working' \/ last' = none
<1>0. /\ TypeInv /\ IInv /\ CallInv /\ CallsInv /\ PlaceInv /\ RunningInv /\ AbortInv
      /\ queue \in Seq(Command) /\ Len(queue) \in Nat
  BY Places DEF LinkInv, RunningInv, PlaceInv, CallInv, TypeInv, IInv
<1>1. SUFFICES ASSUME ~working', last' # none PROVE FALSE
  OBVIOUS
<1>2. CASE Appending
  <2>0. working' = working /\ last' = last
    BY <1>0, <1>2, AppendsLeave
  <2>1. stack # <<>>
    BY <1>1, <2>0 DEF IdleInv, Top, Stacked
  <2>2. 1 \in DOMAIN stack /\ stack[1].fn \in {"window", "quit", "rerun"}
    BY <1>0, <1>2, <2>1, AppendTop
  <2>3. \A j \in 1 .. Len(queue) : kind[queue[j]] # "abort"
    BY <1>0, <2>2, AbortOnly DEF Steps
  <2>4. ~crashed'
    BY LinkFound DEF LinkInv
  <2>5. PICK c \in Command, y \in Kind :
          /\ Adder(y) /\ Joins(c, y) /\ kind'[c] = y
          /\ \A j \in 1 .. Len(queue) : kind'[queue[j]] = kind[queue[j]]
    BY <1>2, <2>3, <2>4, AppendJoins
  <2>6. y # "abort"
    BY <2>1, <2>5, AsyncKinds, StoppedNeeds DEF Adder, UserAppends, ListenerAppends
  <2>7. queue'[k] = c \/ \E a \in 1 .. Len(queue) : queue'[k] = queue[a]
    BY <1>0, <2>5, JoinsOrigin
  <2> QED
    BY <2>3, <2>5, <2>6, <2>7
<1>3. CASE ~Appending
  <2>1. Thins(queue', queue) /\ kind' = kind
    BY <1>0, <1>3, NoAppendQueue
  <2>2. Len(queue') \in Nat
    <3>1. QueueType'
      BY <1>0, QueueStep
    <3> QED
      BY <3>1, LenProperties DEF QueueType
  <2>3. k = 1 /\ \E a \in 1 .. Len(queue) : a = 1 /\ queue[a] = queue'[k] /\ kind[queue[a]] = "abort"
    BY <1>0, <2>1, <2>2, AbortThins
  <2>4. /\ 1 \in 1 .. Len(queue) /\ kind[queue[1]] = "abort" /\ queue[1] = queue'[1]
        /\ Stacked({"complete", "execute", "send"}) /\ Only(Steps)
    BY <1>0, <2>3 DEF AbortInv
  <2>5. stack # <<>>
    BY <2>4 DEF Stacked
  <2>6. CASE last = none
    BY <1>0, <1>1, <2>2, <2>3, <2>4, <2>6, LastMoves, Places DEF AbortInv
  <2>7. CASE last # none
    <3>1. working
      BY <2>4, <2>7 DEF IdleInv
    <3>2. ~SendAbort /\ ~BackendEnds /\ ~SharedlibEvent
      BY <2>5, <2>7 DEF SendAbort, Sends, BackendEnds, SharedlibEvent
    <3>3. ~DebuggerReady
      <4>1. SUFFICES ASSUME DebuggerReady PROVE FALSE
        OBVIOUS
      <4>2. stack[1].fn = "ready" /\ 1 \in DOMAIN stack
        BY <1>0, <4>1, TopIs DEF DebuggerReady
      <4> QED
        BY <2>4, <4>2 DEF Only, Steps
    <3> QED
      BY <1>0, <1>1, <3>1, <3>2, <3>3, BackendMoves DEF CommandCallback, ProgramRuns
  <2> QED
    BY <2>6, <2>7
<1> QED
  BY <1>2, <1>3

\* An interrupt is never queued behind the end of the debugger.
LEMMA IdleInterruptStep ==
    ASSUME LinkInv, SettleInv, ReplyInv, JobInv, IdleInv, ~QuitsAgain, [Next]_vars,
           NEW k \in 1 .. Len(queue'), kind'[queue'[k]] = "interrupt"
    PROVE  last' = none \/ GoingTo(kind'[last']) # Stopped
<1>0. /\ TypeInv /\ IInv /\ CallInv /\ CallsInv /\ PlaceInv /\ RunningInv /\ InterruptInv
      /\ ReportInv
      /\ queue \in Seq(Command) /\ Len(queue) \in Nat
  BY Places DEF LinkInv, RunningInv, PlaceInv, CallInv, TypeInv, IInv
<1>1. SUFFICES ASSUME last' # none, GoingTo(kind'[last']) = Stopped PROVE FALSE
  OBVIOUS
<1>2. ASSUME last' = last, kind'[last] = kind[last],
             \E a \in 1 .. Len(queue) : kind[queue[a]] = "interrupt"
      PROVE  FALSE
  BY <1>1, <1>2 DEF IdleInv
<1>3. CASE Appending
  <2>1. last' = last /\ last # none /\ kind'[last] = kind[last]
    BY <1>0, <1>1, <1>3, LastMoves, AppendsLeave
  <2>2. ~crashed'
    BY LinkFound DEF LinkInv
  <2>3. CASE queue' = queue /\ kind' = kind
    BY <1>2, <2>1, <2>3
  <2>4. ASSUME NEW c \in Command, NEW y \in Kind, Adder(y), Joins(c, y), kind'[c] = y,
               \A j \in 1 .. Len(queue) : kind'[queue[j]] = kind[queue[j]]
        PROVE  FALSE
    <3>1. queue'[k] = c \/ \E a \in 1 .. Len(queue) : queue'[k] = queue[a]
      BY <1>0, <2>4, JoinsOrigin
    <3>2. y = "interrupt"
      BY <1>2, <2>1, <2>4, <3>1
    <3>3. ~QuitDebugger
      BY <1>1, <2>1 DEF QuitDebugger
    <3>4. UserAppends("interrupt")
      BY <2>4, <3>2, <3>3, AsyncKinds, StoppedNeeds DEF Adder, ListenerAppends
    <3>5. stack = <<>> /\ debugger_state = Running
      BY <3>4 DEF UserAppends
    <3>6. working
      BY <2>1, <3>5 DEF IdleInv, Top, Stacked
    <3>7. runs /\ {Loaded, PStopped} \subseteq ends
      BY <1>0, <3>5 DEF SettleInv, Settles, Stacked, ReportInv, ReplyInv
    <3>8. kind[last] \notin Asynchronous /\ ends = {}
      BY <1>1, <2>1, <3>6, StoppedNeeds DEF JobInv, Busy, Stopped
    <3> QED
      BY <3>7, <3>8
  <2> QED
    BY <1>3, <2>2, <2>3, <2>4, AppendJoins
<1>4. CASE ~Appending
  <2>1. Thins(queue', queue) /\ kind' = kind
    BY <1>0, <1>4, NoAppendQueue
  <2>2. CASE last' = last
    BY <1>2, <2>1, <2>2 DEF Thins
  <2>3. CASE last' # last
    <3>1. /\ queue # <<>> /\ last' = queue[1] /\ queue' = Tail(queue) /\ 1 \in 1 .. Len(queue)
      BY <1>0, <1>1, <2>3, LastMoves
    <3>2. Tail(queue)[k] = queue[k + 1] /\ k + 1 \in 1 .. Len(queue)
      BY <1>0, <3>1, Places
    <3>3. kind[queue[k + 1]] = "interrupt" /\ 1 < k + 1
      BY <2>1, <3>1, <3>2
    <3>4. GoingTo(kind[queue[1]]) = Busy
      BY <1>0, <3>1, <3>2, <3>3 DEF InterruptInv
    <3> QED
      BY <1>1, <2>1, <3>1, <3>4 DEF Busy, Stopped
  <2> QED
    BY <2>2, <2>3
<1> QED
  BY <1>3, <1>4

\* An idle backend waits for nothing.
LEMMA IdleStep ==
    ASSUME LinkInv, SettleInv, ReplyInv, JobInv, FrontInv, IdleInv, ~QuitsAgain, [Next]_vars
    PROVE  IdleInv'
BY IdleLastStep, IdleAbortStep, IdleInterruptStep DEF IdleInv

\* What leaves the plan as it is.
LEMMA QuietQueue ==
    ASSUME [Next]_vars, ~Appending, ~Complete, ~Send, ~SendSetEnvironment, ~SendInterrupt, ~SendAbort,
           ~SendFails
    PROVE  queue' = queue /\ queue_state' = queue_state /\ kind' = kind
BY DEF Next, Return, Appending, vars, self, EmitStateChange, StateEmitted, OpenWindow, CloseWindow,
   Execute, AllSent, CommandCallback, DebuggerReady, Reread, BackendDone, ProgramRuns, SharedlibEvent,
   BackendEnds

\* What a command that sets the state leaves to fit the state before it.
LEMMA InsertSetter ==
    ASSUME NEW q, NEW t, NEW c, Inserts(q, t, 1, c), NEW L, Sets(L, c), NEW s, NEW X,
           L[c] \in X \/ s \in Need(L[c])
    PROVE  Front(L, t, s, X) /\ ~NoneSets(L, t)
<1>1. t[1] = c /\ Len(t) \in Nat /\ 1 \in 1 .. Len(t)
  BY DEF Inserts
<1>2. ASSUME NEW j \in 1 .. Len(t), Plain(L, t, 1, j) PROVE j = 1
  BY <1>1, <1>2 DEF Plain
<1>3. Front(L, t, s, X)
  BY <1>1, <1>2 DEF Front
<1> QED
  BY <1>1, <1>3 DEF NoneSets

\* What is kept has been queued.
LEMMA KeptKinds ==
    ASSUME TypeInv, NEW K, \A j \in 1 .. Len(queue) : K[queue[j]] = kind[queue[j]], NEW s
    PROVE  \A j \in 1 .. Len(Kept(queue, s)) : K[Kept(queue, s)[j]] = kind[Kept(queue, s)[j]]
<1>1. \A j \in 1 .. Len(Kept(queue, s)) : \E a \in 1 .. Len(queue) : Kept(queue, s)[j] = queue[a]
  BY Places, KeptIs DEF Thins
<1>2. ASSUME NEW j \in 1 .. Len(Kept(queue, s))
      PROVE  K[Kept(queue, s)[j]] = kind[Kept(queue, s)[j]]
  BY <1>1
<1> QED
  BY <1>2

\* A listener finds no command that sets the state before its link.
LEMMA LinkPlain ==
    ASSUME LinkInv, LinkFirstInv, NEW k, ListenerAppends(k),
           NEW i \in 1 .. Len(queue), Sets(kind, queue[i])
    PROVE  Link # none /\ \A p \in 1 .. Len(queue) : queue[p] = Link => p <= i
<1>0. /\ TypeInv /\ IInv /\ UniqueInv
      /\ queue \in Seq(Command) /\ Len(queue) \in Nat /\ none \notin Command
      /\ \A j \in 1 .. Len(queue) : queue[j] \in Command
  BY Places DEF LinkInv, RunningInv, PlaceInv, CallInv, TypeInv
<1>1. 1 \in DOMAIN stack /\ Open(stack[1])
  BY <1>0, TopIs, ListenerCalls DEF IInv, ListenerAppends, Open
<1>2. PICK m \in 1 .. Len(queue) : m <= i /\ queue[m] = Link
  BY <1>1 DEF LinkFirstInv
<1>3. \A p \in 1 .. Len(queue) : queue[p] = Link => p = m
  BY <1>0, <1>2 DEF UniqueInv
<1> QED
  BY <1>0, <1>2, <1>3

\* The queued commands stay in step when one is added.
LEMMA PlanAppends ==
    ASSUME LinkInv, LinkFirstInv, PlanInv, NEW c \in Command, NEW k \in Kind,
           Adder(k), Joins(c, k), CheckedState(k) \in Need(k), kind'[c] = k,
           \A j \in 1 .. Len(queue) : kind'[queue[j]] = kind[queue[j]]
    PROVE  PlanInv'
<1>0. /\ TypeInv /\ IInv /\ CallInv /\ UniqueInv
      /\ queue \in Seq(Command) /\ Len(queue) \in Nat /\ none \notin Command
      /\ \A j \in 1 .. Len(queue) : queue[j] \in Command
  BY Places DEF LinkInv, RunningInv, PlaceInv, CallInv, TypeInv
<1>1. SUFFICES Planned(kind', queue', queue_state')
  BY DEF PlanInv
<1>2. \A i, j \in 1 .. Len(queue) : queue[i] = queue[j] => i = j
  BY <1>0 DEF UniqueInv
<1>3. PICK L, t, r : L = kind' /\ t = queue' /\ r = queue_state'
  OBVIOUS
<1>4. /\ L[c] = k /\ \A j \in 1 .. Len(queue) : L[queue[j]] = kind[queue[j]]
      /\ Sets(L, c) = (GoingTo(k) # Busy)
  BY <1>3 DEF Sets
<1>5. SUFFICES Planned(L, t, r)
  BY <1>3
<1>6. CASE /\ k \in Asynchronous \cup HighPriority /\ GoingTo(k) = Busy
           /\ Inserts(queue, t, 1, c) /\ r = queue_state
  <2>1. Follows(kind, queue, 1, L[c])
    BY DEF Follows
  <2>2. ~Sets(L, c)
    BY <1>4, <1>6
  <2> QED
    BY <1>4, <1>6, <2>1, <2>2, InsertPlanned DEF PlanInv
<1>7. CASE /\ k \in Asynchronous \cup HighPriority /\ GoingTo(k) = Stopped
           /\ Inserts(Kept(queue, Stopped), t, 1, c) /\ r = KeptState(queue, Stopped)
  <2>0. PICK q, s : q = Kept(queue, Stopped) /\ s = KeptState(queue, Stopped)
    OBVIOUS
  <2>1. /\ Planned(kind, q, s) /\ Front(kind, q, Stopped, {})
        /\ NoneSets(kind, q) => s = Stopped
    BY <1>0, <1>2, <2>0, KeptPlanned DEF PlanInv
  <2>2. \A j \in 1 .. Len(q) : L[q[j]] = kind[q[j]]
    BY <1>0, <1>4, <2>0, KeptKinds
  <2>3. Inserts(q, t, 1, c) /\ r = s
    BY <1>7, <2>0
  <2>4. Follows(kind, q, 1, L[c])
    BY DEF Follows
  <2>5. Leads(kind, q, 1, GoingTo(L[c]))
    BY <1>4, <1>7, <2>1 DEF Front, Leads
  <2>6. Plain(kind, q, 1, Len(q) + 1) => r = GoingTo(L[c])
    BY <1>4, <1>7, <2>1, <2>3 DEF Inserts, Plain, NoneSets
  <2> QED
    BY <2>1, <2>2, <2>3, <2>4, <2>5, <2>6, InsertPlanned
<1>8. CASE /\ GoingTo(k) = Busy /\ ListenerAppends(k)
           /\ \E p \in 1 .. Len(queue) : queue[p] = Link /\ Inserts(queue, t, p, c)
           /\ r = queue_state
  <2>1. PICK p \in 1 .. Len(queue) : queue[p] = Link /\ Inserts(queue, t, p, c)
    BY <1>8
  <2>2. ~Sets(L, c)
    BY <1>4, <1>8
  <2>3. ASSUME NEW i \in 1 .. Len(queue), i < p, Sets(kind, queue[i]) PROVE FALSE
    <3>1. p <= i
      BY <1>8, <2>1, <2>3, LinkPlain
    <3> QED
      BY <2>3, <3>1
  <2>4. Follows(kind, queue, p, L[c])
    BY <2>3 DEF Follows
  <2> QED
    BY <1>4, <1>8, <2>1, <2>2, <2>4, InsertPlanned DEF PlanInv
<1>9. CASE /\ k \notin Asynchronous \cup HighPriority /\ Link = none
           /\ Inserts(queue, t, Len(queue) + 1, c)
           /\ r = IF GoingTo(k) # Busy THEN GoingTo(k) ELSE queue_state
  <2>1. ASSUME NEW i \in 1 .. Len(queue), Sets(kind, queue[i]), Plain(kind, queue, i + 1, Len(queue) + 1)
        PROVE  GoingTo(kind[queue[i]]) \in Need(L[c])
    BY <1>0, <1>4, <1>9, <2>1, LinkPlain, CheckedIs DEF HighPriority, PlanInv, Planned
  <2>2. Leads(kind, queue, Len(queue) + 1, GoingTo(L[c]))
    BY <1>0 DEF Leads
  <2>3. Plain(kind, queue, Len(queue) + 1, Len(queue) + 1)
    BY <1>0 DEF Plain
  <2>4. Follows(kind, queue, Len(queue) + 1, L[c])
    BY <2>1 DEF Follows
  <2>5. (Sets(L, c) => r = GoingTo(L[c])) /\ (~Sets(L, c) => r = queue_state)
    BY <1>4, <1>9
  <2> QED
    BY SMTT(30), <1>4, <1>9, <2>2, <2>3, <2>4, <2>5, InsertPlanned DEF PlanInv
<1> QED
  BY <1>3, <1>6, <1>7, <1>8, <1>9 DEF Joins

\* What is left when the first command is taken out.
LEMMA TailUnique ==
    ASSUME TypeInv, UniqueInv, queue # <<>>
    PROVE  /\ Tail(queue) \in Seq(Command)
           /\ \A i, j \in 1 .. Len(Tail(queue)) : Tail(queue)[i] = Tail(queue)[j] => i = j
<1>0. /\ queue \in Seq(Command) /\ Len(queue) \in Nat
      /\ Tail(queue) \in Seq(Command)
      /\ Len(Tail(queue)) = Len(queue) - 1
      /\ \A j \in 1 .. Len(queue) - 1 : Tail(queue)[j] = queue[j + 1] /\ j + 1 \in 1 .. Len(queue)
  BY Places
<1>1. ASSUME NEW i \in 1 .. Len(Tail(queue)), NEW j \in 1 .. Len(Tail(queue)),
             Tail(queue)[i] = Tail(queue)[j]
      PROVE  i = j
  <2>1. i + 1 = j + 1
    BY <1>0, <1>1 DEF UniqueInv
  <2> QED
    BY <1>0, <2>1
<1> QED
  BY <1>0, <1>1

\* The queued commands stay in step.
LEMMA PlanStep ==
    ASSUME LinkInv, LinkFirstInv, PlanInv, [Next]_vars
    PROVE  PlanInv'
<1>0. /\ TypeInv /\ IInv /\ CallInv /\ UniqueInv /\ PlaceInv
      /\ queue \in Seq(Command) /\ Len(queue) \in Nat
  BY Places DEF LinkInv, RunningInv, PlaceInv, CallInv, TypeInv
<1>1. \A i, j \in 1 .. Len(queue) : queue[i] = queue[j] => i = j
  BY <1>0 DEF UniqueInv
<1>2. ASSUME queue' = queue, queue_state' = queue_state, kind' = kind PROVE PlanInv'
  BY <1>2 DEF PlanInv
<1>3. CASE Appending
  <2>1. ~crashed'
    BY LinkFound DEF LinkInv
  <2> QED
    BY <1>2, <1>3, <2>1, AppendJoins, PlanAppends
<1>4. CASE Complete
  BY <1>0, <1>1, <1>4, KeptPlanned DEF Complete, CancelUnexpected, PlanInv
<1>5. ASSUME queue # <<>> PROVE Planned(kind, Tail(queue), queue_state)
  BY <1>0, <1>5, TailPlanned DEF PlanInv
<1>6. CASE Send \/ SendSetEnvironment \/ SendInterrupt \/ SendAbort
  BY <1>5, <1>6 DEF Send, SendSetEnvironment, SendInterrupt, SendAbort, Sends, PlanInv
<1>7. CASE SendFails
  BY <1>0, <1>5, <1>7, TailUnique, KeptPlanned DEF SendFails, Sends, CancelUnexpected, PlanInv
<1> QED
  BY <1>2, <1>3, <1>4, <1>6, <1>7, QuietQueue

\* A queue that has nothing in progress does not see the backend change.
LEMMA StillIdle ==
    ASSUME LinkInv, ReplyInv, WorkInv, ~DiesIdle, [Next]_vars, last = none, last' = none, ~working'
    PROVE  ~working /\ at' = at
<1>0. /\ TypeInv /\ IInv /\ CallInv /\ FrameInv /\ PlaceInv /\ CallsInv
      /\ queue \in Seq(Command) /\ none \notin Command
  BY Places DEF LinkInv, RunningInv, PlaceInv, CallInv, TypeInv, IInv
<1>1. ~Send /\ ~SendAbort
  BY <1>0, Places DEF Send, SendAbort, Sends
<1>2. ~working
  <2>1. SUFFICES ASSUME working PROVE FALSE
    OBVIOUS
  <2>2. /\ Only({"complete", "emit", "execute", "send", "quit"})
        /\ Stacked({"complete", "execute", "send"})
    BY <2>1 DEF WorkInv, Overtakes
  <2>3. stack # <<>> /\ ~BackendEnds /\ ~SharedlibEvent
    BY <2>2 DEF Stacked, BackendEnds, SharedlibEvent
  <2>4. ~DebuggerReady
    <3>1. SUFFICES ASSUME DebuggerReady PROVE FALSE
      OBVIOUS
    <3>2. stack[1].fn = "ready" /\ 1 \in DOMAIN stack
      BY <1>0, <3>1, TopIs DEF DebuggerReady
    <3> QED
      BY <2>2, <3>2 DEF Only
  <2> QED
    BY <1>0, <1>1, <2>1, <2>3, <2>4, BackendMoves DEF CommandCallback, ProgramRuns
<1>3. ~DebuggerReady
  BY <1>0, <1>2, TopIs DEF DebuggerReady, FrameInv
<1>4. ~BackendEnds /\ ~SharedlibEvent /\ ~ProgramRuns
  BY <1>2 DEF BackendEnds, SharedlibEvent, ProgramRuns, ReplyInv
<1>5. at' = at
  BY <1>0, <1>1, <1>3, <1>4, BackendMoves DEF CommandCallback
<1> QED
  BY <1>2, <1>5

\* What the listeners add when the program has been loaded or has stopped.
LEMMA ListenerNeeds ==
    /\ \A k \in Adds("program-loaded") : Loaded \in Need(k) /\ PStopped \in Need(k)
    /\ \A k \in Adds("sharedlib-event") : PStopped \in Need(k)
    /\ \A k \in Adds("program-stopped") : PStopped \in Need(k)
<1>1. ASSUME NEW k \in BreakKinds PROVE Need(k) = {Loaded, PStopped}
  BY DEF BreakKinds, Need, AnyKinds, StepKinds, StoppedKinds, FrameKinds
<1>2. Need("remove_break") = {Loaded, PStopped, Running} /\ Need("list_break") = {Loaded, PStopped, Running}
      /\ Need("inspect_memory") = {Started, Loaded, PStopped, Running}
  BY DEF Need, BreakKinds, AnyKinds, StepKinds, StoppedKinds, FrameKinds
<1>3. Adds("program-loaded") = BreakKinds \cup {"remove_break"} /\ Adds("sharedlib-event") = BreakKinds \cup {"remove_break"}
      /\ Adds("program-stopped") = {"list_break", "inspect_memory"}
  BY DEF Adds
<1> QED
  BY <1>1, <1>2, <1>3

\* A command that is added while the backend and the queue are idle fits.
LEMMA IdleAppend ==
    ASSUME LinkInv, TellInv, FrontInv, last = none, ~working, NEW k \in Kind, Adder(k),
           CheckedState(k) \in Need(k)
    PROVE  at \in Need(k) /\ (~ListenerAppends(k) => queue = <<>>)
<1>0. /\ TypeInv /\ IInv /\ CallInv /\ FrameInv /\ PlaceInv /\ CallsInv /\ PendingInv
      /\ queue \in Seq(Command) /\ none \notin Command
      /\ debugger_state \in State
  BY Places DEF LinkInv, RunningInv, PlaceInv, CallInv, TypeInv, IInv, PhaseInv
<1>1. CASE ~ListenerAppends(k)
  <2>1. Appending
    BY <1>1 DEF Adder, Appending
  <2>2. ~\E y \in Used : ListenerAppends(y)
    BY <1>1 DEF Adder, AddQuit, RunAgain, QuitDebugger, UserAppends, ListenerAppends, Top
  <2>3. debugger_state = at /\ \A i \in DOMAIN stack : stack[i].fn \in {"quit", "rerun"}
    BY <1>0, <2>1, <2>2, AppendsInSync
  <2>4. queue = <<>>
    BY <1>0, <2>3 DEF PendingInv, Stacked
  <2>5. NoneSets(kind, queue)
    <3>1. Len(queue) = 0
      BY <2>4
    <3> QED
      BY <3>1 DEF NoneSets
  <2>6. queue_state = at
    BY <2>5 DEF FrontInv
  <2>7. CheckedState(k) = at
    BY <1>0, <1>1, <2>3, <2>6, CheckedIs
  <2> QED
    BY <2>4, <2>7
<1>2. CASE ListenerAppends(k)
  <2>1. CheckedState(k) = debugger_state
    BY <1>0, <1>2, CheckedIs
  <2>2. stack[1].fn = "window" /\ ~stack[1].refused /\ k \in Adds(stack[1].signal) /\ 1 \in DOMAIN stack
    BY <1>0, <1>2, TopIs, ListenerCalls DEF ListenerAppends
  <2>3. Tells(stack[1]) /\ Open(stack[1])
    BY <2>2 DEF TellInv, Open
  <2>4. stack[1].signal \in {"program-loaded", "sharedlib-event", "program-stopped",
                             "program-moved", "program-exited", "callback"}
    BY <2>2, AddingSignals
  <2>5. ~Stacked({"ready"})
    BY <1>0 DEF Stacked, FrameInv
  <2>6. stack[1].signal # "program-exited"
    BY <2>1, <2>2, <2>3, AddingSignals DEF Tells, Loaded, PStopped, Running
  <2>7. stack[1].signal \in {"program-loaded", "sharedlib-event", "program-stopped"}
    BY <2>2, <2>3, <2>4, <2>5, <2>6 DEF Tells
  <2>8. at \in Need(k)
    BY <2>2, <2>3, <2>7, ListenerNeeds DEF Tells
  <2> QED
    BY <1>2, <2>8
<1> QED
  BY <1>1, <1>2

\* A command that is added while the queue and the backend are idle fits the state
\* of the backend, and those before and after it still do.
LEMMA FrontIdleAppend ==
    ASSUME LinkInv, TellInv, FrontInv, last = none, ~working,
           NEW c \in Command, NEW k \in Kind, Adder(k), Joins(c, k), CheckedState(k) \in Need(k),
           kind'[c] = k, \A j \in 1 .. Len(queue) : kind'[queue[j]] = kind[queue[j]]
    PROVE  Front(kind', queue', at, {}) /\ (NoneSets(kind', queue') => queue_state' = at)
<1>0. TypeInv
  BY DEF LinkInv, RunningInv, PlaceInv, CallInv
<1>1. at \in Need(k)
  BY IdleAppend
<1>2. Front(kind, queue, at, {}) /\ (NoneSets(kind, queue) => queue_state = at)
  BY DEF FrontInv
<1>3. PICK L, t : L = kind' /\ t = queue'
  OBVIOUS
<1>4. /\ L[c] = k /\ \A j \in 1 .. Len(queue) : L[queue[j]] = kind[queue[j]]
      /\ Sets(L, c) <=> GoingTo(k) # Busy
  BY <1>3 DEF Sets
<1>5. ASSUME NEW p, Inserts(queue, t, p, c), ~Sets(L, c) => queue_state' = queue_state
      PROVE  Front(L, t, at, {}) /\ (NoneSets(L, t) => queue_state' = at)
  BY <1>1, <1>2, <1>4, <1>5, InsertFront
<1>6. CASE GoingTo(k) = Stopped /\ Inserts(Kept(queue, Stopped), t, 1, c)
  BY <1>1, <1>3, <1>4, <1>6, InsertSetter DEF Busy, Stopped
<1>7. CASE \E p : Inserts(queue, t, p, c) /\ (GoingTo(k) = Busy => queue_state' = queue_state)
  BY <1>3, <1>4, <1>5, <1>7
<1> QED
  BY <1>3, <1>6, <1>7 DEF Joins

\* So does one that is added while a command is in progress that sets the state.
LEMMA FrontBusyAppend ==
    ASSUME LinkInv, FrontInv, last # none, Sets(kind, last),
           NEW c \in Command, NEW k \in Kind, Adder(k), Joins(c, k), CheckedState(k) \in Need(k),
           kind'[c] = k, \A j \in 1 .. Len(queue) : kind'[queue[j]] = kind[queue[j]]
    PROVE  /\ Front(kind', queue', GoingTo(kind[last]), Asynchronous)
           /\ NoneSets(kind', queue') => queue_state' = GoingTo(kind[last])
<1>0. TypeInv /\ CallInv /\ Len(queue) \in Nat
  BY Places DEF LinkInv, RunningInv, PlaceInv, CallInv
<1>1. PICK g : g = GoingTo(kind[last])
  OBVIOUS
<1>2. Front(kind, queue, g, Asynchronous) /\ (NoneSets(kind, queue) => queue_state = g)
  BY <1>1 DEF FrontInv
<1>3. PICK L, t : L = kind' /\ t = queue'
  OBVIOUS
<1>4. /\ L[c] = k /\ \A j \in 1 .. Len(queue) : L[queue[j]] = kind[queue[j]]
      /\ Sets(L, c) <=> GoingTo(k) # Busy
  BY <1>3 DEF Sets
<1>5. ASSUME NEW p, Inserts(queue, t, p, c), ~Sets(L, c) => queue_state' = queue_state,
             Plain(kind, queue, 1, p) => L[c] \in Asynchronous \/ g \in Need(L[c])
      PROVE  Front(L, t, g, Asynchronous) /\ (NoneSets(L, t) => queue_state' = g)
  <2>1. /\ Front(L, t, g, Asynchronous)
        /\ NoneSets(L, t) => NoneSets(kind, queue) /\ ~Sets(L, c)
    BY <1>2, <1>4, <1>5, InsertFront
  <2> QED
    BY <1>2, <1>5, <2>1
<1>6. ListenerAppends(k) \/ k = "quit" => g \in Need(k)
  BY <1>0, <1>1, CheckedIs
<1>7. CASE GoingTo(k) = Stopped /\ k \in Asynchronous \cup HighPriority /\ Inserts(Kept(queue, Stopped), t, 1, c)
  BY <1>1, <1>3, <1>4, <1>6, <1>7, InsertSetter DEF Busy, Stopped, HighPriority
<1>8. CASE /\ GoingTo(k) = Busy /\ k \in Asynchronous \cup HighPriority
           /\ Inserts(queue, t, 1, c) /\ queue_state' = queue_state
  <2>1. k \in Asynchronous
    BY <1>8, RunningKinds DEF HighPriority, Busy, Stopped
  <2> QED
    BY <1>1, <1>3, <1>4, <1>5, <1>8, <2>1
<1>9. CASE /\ GoingTo(k) = Busy /\ ListenerAppends(k) /\ queue_state' = queue_state
           /\ \E p \in 1 .. Len(queue) : Inserts(queue, t, p, c)
  BY <1>1, <1>3, <1>4, <1>5, <1>6, <1>9
<1>10. CASE /\ k \notin Asynchronous \cup HighPriority
            /\ Inserts(queue, t, Len(queue) + 1, c)
            /\ queue_state' = IF GoingTo(k) # Busy THEN GoingTo(k) ELSE queue_state
  BY <1>0, <1>1, <1>2, <1>3, <1>4, <1>5, <1>6, <1>10, CheckedIs DEF HighPriority, NoneSets, Plain
<1> QED
  BY <1>3, <1>7, <1>8, <1>9, <1>10 DEF Joins

\* What is left in the queue when the command in progress is completed fits the
\* state that the backend is in.
LEMMA FrontCompletes ==
    ASSUME LinkInv, IdleInv, PlanInv, FrontInv, Complete, ~working
    PROVE  Front(kind, queue', at, {}) /\ (NoneSets(kind, queue') => queue_state' = at)
<1>0. /\ TypeInv /\ IInv /\ CallInv /\ CallsInv /\ UniqueInv /\ FrameInv /\ ReportInv /\ InterruptInv
      /\ queue \in Seq(Command) /\ at \in State
      /\ last \in Command \cup {none} /\ kind \in [Command -> Kind]
      /\ \A j \in 1 .. Len(queue) : queue[j] \in Command
  BY Places DEF LinkInv, RunningInv, PlaceInv, CallInv, TypeInv, IInv, BackendInv
<1>1. \A i, j \in 1 .. Len(queue) : queue[i] = queue[j] => i = j
  BY <1>0 DEF UniqueInv
<1>2. Head(stack).state = at
  BY <1>0, TopIs DEF Complete, FrameInv
<1>3. CASE last # none /\ GoingTo(kind[last]) # at
  BY <1>0, <1>1, <1>2, <1>3, KeptPlanned DEF Complete, CancelUnexpected, PlanInv
<1>4. CASE last = none
  BY <1>4 DEF Complete, FrontInv
<1>5. CASE last # none /\ GoingTo(kind[last]) = at
  <2>1. queue' = queue /\ queue_state' = queue_state
    BY <1>2, <1>5 DEF Complete
  <2>2. at \in {Stopped, Started, Loaded, Running}
    <3>1. at # Busy
      BY <1>0 DEF State, Stopped, Busy, Running
    <3> QED
      BY <1>0, <1>5, <3>1, GoingStates
  <2>3. Front(kind, queue, at, Asynchronous) /\ (NoneSets(kind, queue) => queue_state = at)
    BY <1>5, <2>2 DEF FrontInv, Sets, Busy, Stopped, Started, Loaded, Running
  <2>4. ASSUME NEW j \in 1 .. Len(queue), kind[queue[j]] \in Asynchronous PROVE FALSE
    <3>1. kind[queue[j]] # "abort"
      BY <1>5 DEF IdleInv
    <3>2. kind[queue[j]] = "interrupt"
      BY <2>4, <3>1, StoppedNeeds
    <3>3. at # Stopped /\ at # Running
      BY <1>0, <1>5, <3>2 DEF IdleInv, ReportInv
    <3>4. working
      BY <1>0, <1>5, <2>2, <3>2, <3>3 DEF InterruptInv
    <3> QED
      BY <3>4
  <2>5. Front(kind, queue, at, {})
    BY <2>3, <2>4 DEF Front
  <2> QED
    BY <2>1, <2>3, <2>5
<1> QED
  BY <1>3, <1>4, <1>5

\* So does what is left when a command has failed.
LEMMA FrontFails ==
    ASSUME LinkInv, SentInv, PlanInv, FrontInv, SendFails, ~working
    PROVE  Front(kind, queue', at, {}) /\ (NoneSets(kind, queue') => queue_state' = at)
<1>0. /\ TypeInv /\ IInv /\ CallInv /\ CallsInv /\ UniqueInv
      /\ queue \in Seq(Command) /\ queue # <<>> /\ Head(queue) = queue[1] /\ last = none
  BY Places DEF LinkInv, RunningInv, PlaceInv, CallInv, TypeInv, IInv, SendFails, Sends
<1>1. debugger_state = at
  <2>1. stack[1].fn = "send" /\ 1 \in DOMAIN stack
    BY <1>0, TopIs DEF SendFails, Sends
  <2>2. \A j \in DOMAIN stack : ~(j < 1)
    BY <1>0, LenProperties DEF CallsInv
  <2>3. ASSUME NEW j \in DOMAIN stack, j = 1 + 1, stack[j].fn = "window", ~stack[j].refused PROVE FALSE
    BY <1>0, <2>3, LenProperties DEF CallsInv, SendFails, FromListener
  <2> QED
    BY <2>1, <2>2, <2>3 DEF SentInv
<1>2. Planned(kind, Tail(queue), queue_state)
  BY <1>0, TailPlanned DEF PlanInv
<1>3. CASE GoingTo(kind[Head(queue)]) # Busy
  <2>1. queue' = Kept(Tail(queue), at) /\ queue_state' = KeptState(Tail(queue), at)
    BY <1>1, <1>3 DEF SendFails, CancelUnexpected
  <2>2. /\ Front(kind, Kept(Tail(queue), at), at, {})
        /\ NoneSets(kind, Kept(Tail(queue), at)) => KeptState(Tail(queue), at) = at
    BY <1>0, <1>2, TailUnique, KeptPlanned
  <2> QED
    BY <2>1, <2>2
<1>4. CASE GoingTo(kind[Head(queue)]) = Busy
  <2>1. queue' = Tail(queue) /\ queue_state' = queue_state
    BY <1>4 DEF SendFails
  <2>2. ~Sets(kind, queue[1])
    BY <1>0, <1>4 DEF Sets
  <2>3. Front(kind, queue, at, {}) /\ (NoneSets(kind, queue) => queue_state = at)
    BY <1>0 DEF FrontInv
  <2>4. PICK t : t = Tail(queue)
    OBVIOUS
  <2>5. Front(kind, t, at, {}) /\ (NoneSets(kind, t) => NoneSets(kind, queue))
    BY <1>0, <2>2, <2>3, <2>4, TailPlanned DEF PlanInv
  <2> QED
    BY <2>1, <2>3, <2>4, <2>5
<1> QED
  BY <1>3, <1>4

\* The commands that are sent next fit the state.
LEMMA FrontStep ==
    ASSUME LinkInv, ReplyInv, SentInv, TellInv, WorkInv, IdleInv, PlanInv, FrontInv, ~DiesIdle,
           [Next]_vars
    PROVE  FrontInv'
<1>0. /\ TypeInv /\ IInv /\ CallInv /\ UniqueInv /\ PlaceInv
      /\ queue \in Seq(Command)
      /\ last \in Command \cup {none} /\ kind \in [Command -> Kind]
  BY Places DEF LinkInv, RunningInv, PlaceInv, CallInv, TypeInv
<1>1. ~crashed'
  BY LinkFound DEF LinkInv
<1>2. ASSUME last' = none, ~working'
      PROVE  Front(kind', queue', at', {}) /\ (NoneSets(kind', queue') => queue_state' = at')
  <2>1. CASE Complete
    BY <1>2, <2>1, FrontCompletes DEF Complete
  <2>2. CASE ~Complete
    <3>1. last = none
      BY <1>0, <1>2, <2>2, LastMoves
    <3>2. ~working /\ at' = at
      BY <1>2, <3>1, StillIdle
    <3>3. Front(kind, queue, at, {}) /\ (NoneSets(kind, queue) => queue_state = at)
      BY <3>1, <3>2 DEF FrontInv
    <3>4. CASE queue' = queue /\ queue_state' = queue_state /\ kind' = kind
      BY <3>2, <3>3, <3>4
    <3>5. CASE Appending
      BY <1>1, <3>1, <3>2, <3>4, <3>5, AppendJoins, FrontIdleAppend
    <3>6. CASE SendFails
      BY <3>2, <3>6, FrontFails DEF SendFails
    <3>7. ~Send /\ ~SendSetEnvironment /\ ~SendInterrupt /\ ~SendAbort
      BY <1>0, <1>2, Places DEF Send, SendSetEnvironment, SendInterrupt, SendAbort, Sends
    <3> QED
      BY <2>2, <3>4, <3>5, <3>6, <3>7, QuietQueue
  <2> QED
    BY <2>1, <2>2
<1>3. ASSUME last' # none, Sets(kind', last')
      PROVE  /\ Front(kind', queue', GoingTo(kind'[last']), Asynchronous)
             /\ NoneSets(kind', queue') => queue_state' = GoingTo(kind'[last'])
  <2>1. CASE last = none
    <3>1. /\ Send \/ SendSetEnvironment \/ SendInterrupt \/ SendAbort
          /\ queue # <<>> /\ last' = queue[1] /\ kind' = kind
      BY <1>0, <1>3, <2>1, LastMoves
    <3>2. queue_state' = queue_state /\ queue' = Tail(queue)
      BY <3>1 DEF Send, SendSetEnvironment, SendInterrupt, SendAbort
    <3>3. PICK t : t = Tail(queue)
      OBVIOUS
    <3>4. /\ Front(kind, t, GoingTo(kind[queue[1]]), {})
          /\ NoneSets(kind, t) => queue_state = GoingTo(kind[queue[1]])
      BY <1>0, <1>3, <3>1, <3>3, TailPlanned DEF PlanInv
    <3>5. Front(kind, t, GoingTo(kind[queue[1]]), Asynchronous)
      BY <3>4 DEF Front
    <3> QED
      BY <3>1, <3>2, <3>3, <3>4, <3>5
  <2>2. CASE last # none
    <3>1. last' = last /\ kind'[last] = kind[last] /\ ~Complete
      BY <1>0, <1>3, <2>2, LastMoves DEF Complete, FreeLast
    <3>2. Sets(kind, last)
      BY <1>3, <3>1 DEF Sets
    <3>3. /\ Front(kind, queue, GoingTo(kind[last]), Asynchronous)
          /\ NoneSets(kind, queue) => queue_state = GoingTo(kind[last])
      BY <2>2, <3>2 DEF FrontInv
    <3>4. CASE queue' = queue /\ queue_state' = queue_state /\ kind' = kind
      BY <3>1, <3>3, <3>4
    <3>5. CASE Appending
      BY <1>1, <2>2, <3>1, <3>2, <3>4, <3>5, FrontBusyAppend, AppendJoins
    <3>6. ~Send /\ ~SendSetEnvironment /\ ~SendInterrupt /\ ~SendAbort /\ ~SendFails
      BY <2>2 DEF Send, SendSetEnvironment, SendInterrupt, SendAbort, SendFails, Sends
    <3> QED
      BY <3>1, <3>4, <3>5, <3>6, QuietQueue
  <2> QED
    BY <2>1, <2>2
<1> QED
  BY <1>2, <1>3 DEF FrontInv

-----------------------------------------------------------------------------
(* The answers                                                             *)

\* What a step does to the answers of a command.
Counted(c) ==
    \/ answers'[c] = answers[c]
    \/ answers'[c] = 0 /\ Appending /\ c # last /\ ~In(c, queue)
    \/ answers'[c] = answers[c] + 1 /\ In(c, queue) /\ ~In(c, queue')
    \/ answers'[c] = answers[c] + 1 /\ c = last /\ CommandCallback /\ queue_state # Stopped

\* The clients that are told of a cancellation are those whose command is taken
\* off the queue.
LEMMA CancelAnswers ==
    ASSUME NEW q \in Seq(Command), NEW s, NEW c \in Command
    PROVE  /\ c \in Told(q, s) => In(c, q) /\ ~In(c, Kept(q, s))
           /\ In(c, q) /\ ~In(c, Kept(q, s)) /\ kind[c] \in Asks => c \in Told(q, s)
<1>1. /\ Kept(q, s) \in Seq(Command)
      /\ \A i \in 1 .. Len(Kept(q, s)) : Stays(q, s, Kept(q, s)[i])
      /\ \A a \in 1 .. Len(q) : Stays(q, s, q[a]) =>
             \E i \in 1 .. Len(Kept(q, s)) : Kept(q, s)[i] = q[a]
  BY KeptIs
<1> DEFINE t == Kept(q, s)
<1>2. DOMAIN q = 1 .. Len(q) /\ DOMAIN t = 1 .. Len(t)
  BY <1>1, LenProperties
<1> HIDE DEF t
<1>3. c \in Told(q, s) => In(c, q) /\ ~Stays(q, s, c)
  BY DEF Told
<1>4. In(c, t) => Stays(q, s, c)
  BY <1>1, <1>2 DEF In, t
<1>5. In(c, q) /\ Stays(q, s, c) => In(c, t)
  BY <1>1, <1>2 DEF In, t
<1>6. In(c, q) /\ ~Stays(q, s, c) /\ kind[c] \in Asks => c \in Told(q, s)
  BY DEF Told
<1> QED
  BY <1>3, <1>4, <1>5, <1>6 DEF t

\* What an append does to them.
LEMMA AppendAnswers ==
    ASSUME TypeInv, NEW c \in Command, NEW k \in Kind, NEW rest, NEW refused,
           AppendCommand(c, k, rest, refused)
    PROVE  \/ answers' = answers /\ queue' = queue
           \/ /\ answers' = [answers EXCEPT ![c] = 0] /\ In(c, queue')
              /\ \A d \in Command : In(d, queue) => In(d, queue')
           \/ /\ answers' = [Answer(Told(queue, GoingTo(k))) EXCEPT ![c] = 0]
              /\ In(c, queue')
              /\ \A d \in Command : In(d, Kept(queue, GoingTo(k))) => In(d, queue')
              /\ \A d \in Command : In(d, queue') => d = c \/ In(d, Kept(queue, GoingTo(k)))
           \/ crashed'
<1>0. /\ queue \in Seq(Command) /\ queue' \in Seq(Command)
      /\ DOMAIN queue = 1 .. Len(queue) /\ DOMAIN queue' = 1 .. Len(queue')
  BY Places, AppendQueueType, LenProperties DEF TypeInv, QueueType
<1>1. ASSUME NEW t \in Seq(Command), NEW p, Inserts(t, queue', p, c)
      PROVE  /\ In(c, queue') /\ \A d \in Command : In(d, t) => In(d, queue')
             /\ \A d \in Command : In(d, queue') => d = c \/ In(d, t)
  <2>1. p \in 1 .. Len(queue') /\ queue'[p] = c
    BY <1>1 DEF Inserts
  <2>2. /\ \A j \in 1 .. Len(t) : j < p => j \in 1 .. Len(queue') /\ queue'[j] = t[j]
        /\ \A j \in 1 .. Len(t) : j >= p => j + 1 \in 1 .. Len(queue') /\ queue'[j + 1] = t[j]
    BY <1>1, InsertPlain
  <2>3. DOMAIN t = 1 .. Len(t) /\ Len(t) \in Nat
    BY LenProperties
  <2>4. ASSUME NEW d \in Command, In(d, t) PROVE In(d, queue')
    <3>1. PICK j \in 1 .. Len(t) : t[j] = d
      BY <2>3, <2>4 DEF In
    <3>2. j < p \/ j >= p
      BY <2>1, <2>3
    <3> QED
      BY <1>0, <2>2, <3>1, <3>2 DEF In
  <2>5. In(c, queue')
    BY <1>0, <2>1 DEF In
  <2>6. ASSUME NEW d \in Command, In(d, queue'), d # c PROVE In(d, t)
    <3>1. PICK j \in 1 .. Len(queue') : queue'[j] = d
      BY <1>0, <2>6 DEF In
    <3>2. j < p \/ j > p
      BY <2>1, <2>6, <3>1
    <3> QED
      BY <1>1, <2>3, <3>1, <3>2 DEF In, Inserts
  <2> QED
    BY <2>4, <2>5, <2>6
<1>2. CASE CheckedState(k) \notin Need(k)
  BY <1>2 DEF AppendCommand
<1>3. CASE AppendFirst(c, k, rest)
  BY <1>0, <1>1, <1>3, KeptIs, InsertFirst DEF AppendFirst
<1>4. CASE /\ CheckedState(k) \in Need(k)
           /\ AppendBefore(c, k, rest) \/ AppendLast(c, k, rest)
  <2>1. answers' = [answers EXCEPT ![c] = 0]
    BY <1>4 DEF AppendBefore, AppendLast
  <2>2. k \notin Asynchronous \cup HighPriority
    BY <1>4 DEF AppendBefore, AppendLast
  <2>3. PutsBefore(c, k) \/ PutsLast(c, k)
    BY <1>4, <2>2, AppendQueue DEF PutsFirst
  <2>4. CASE crashed'
    BY <2>4
  <2>5. CASE \E p \in 1 .. Len(queue) :
                 queue' = SubSeq(queue, 1, p - 1) \o <<c>> \o SubSeq(queue, p, Len(queue))
    BY <1>0, <1>1, <2>1, <2>5, InsertBefore
  <2>6. CASE queue' = Append(queue, c)
    BY <1>0, <1>1, <2>1, <2>6, InsertLast
  <2> QED
    BY <2>3, <2>4, <2>5, <2>6 DEF PutsBefore, PutsLast
<1> QED
  BY <1>2, <1>3, <1>4 DEF AppendCommand

\* The first command is taken off.
LEMMA TailOrHead ==
    ASSUME TypeInv, UniqueInv, queue # <<>>, NEW d
    PROVE  /\ In(d, queue) => In(d, Tail(queue)) \/ d = Head(queue)
           /\ In(d, Tail(queue)) => In(d, queue) /\ d # Head(queue)
           /\ Tail(queue) \in Seq(Command) /\ Head(queue) \in Command /\ In(Head(queue), queue)
<1>1. /\ queue \in Seq(Command) /\ DOMAIN queue = 1 .. Len(queue) /\ Len(queue) \in Nat
      /\ \A j \in 1 .. Len(queue) : queue[j] \in Command
      /\ Head(queue) = queue[1] /\ 1 \in 1 .. Len(queue) /\ Tail(queue) \in Seq(Command)
      /\ Len(Tail(queue)) = Len(queue) - 1
      /\ \A j \in 1 .. Len(queue) - 1 : Tail(queue)[j] = queue[j + 1] /\ j + 1 \in 1 .. Len(queue)
  BY Places
<1> DEFINE t == Tail(queue)
<1>2. DOMAIN t = 1 .. Len(queue) - 1
  BY <1>1, LenProperties
<1> HIDE DEF t
<1>3. \A j \in 1 .. Len(queue) - 1 : t[j] = queue[j + 1] /\ j + 1 \in 1 .. Len(queue)
  BY <1>1 DEF t
<1>4. ASSUME In(d, queue), d # Head(queue) PROVE In(d, t)
  <2>1. PICK j \in 1 .. Len(queue) : queue[j] = d
    BY <1>1, <1>4 DEF In
  <2>2. j # 1
    BY <1>1, <1>4, <2>1
  <2>3. j - 1 \in 1 .. Len(queue) - 1 /\ (j - 1) + 1 = j
    BY <1>1, <2>2
  <2> QED
    BY <1>2, <1>3, <2>1, <2>3 DEF In
<1>5. ASSUME In(d, t) PROVE In(d, queue) /\ d # Head(queue)
  BY <1>1, <1>2, <1>3, <1>5 DEF In, UniqueInv
<1> QED
  BY <1>1, <1>4, <1>5 DEF t, In

\* Each step answers the commands that it takes off the queue, and new ones have
\* no answer.
LEMMA AnswerMoves ==
    ASSUME LinkInv, [Next]_vars, ~crashed', NEW d \in Command
    PROVE  /\ Counted(d)
           /\ In(d, queue') /\ ~In(d, queue) => answers'[d] = 0
           /\ In(d, queue) /\ ~In(d, queue') /\ kind[d] \in Asks /\ last' # d =>
                  answers'[d] = answers[d] + 1
<1>0. /\ TypeInv /\ CallInv /\ UniqueInv /\ PlaceInv
      /\ queue \in Seq(Command) /\ DOMAIN queue = 1 .. Len(queue) /\ Len(queue) \in Nat
      /\ answers \in [Command -> Nat] /\ last \in Command \cup {none}
  BY Places DEF LinkInv, RunningInv, PlaceInv, CallInv, TypeInv, QueueType
<1>1. \A C : Answer(C)[d] = IF d \in C THEN answers[d] + 1 ELSE answers[d]
  BY DEF Answer
<1>2. CASE Appending
  <2>1. PICK c \in Command, k \in Kind :
          /\ \E rest, refused : AppendCommand(c, k, rest, refused)
          /\ last # c /\ \A j \in 1 .. Len(queue) : queue[j] # c
    BY <1>0, <1>2, AddedCommand
  <2>2. PICK rest, refused : AppendCommand(c, k, rest, refused)
    BY <2>1
  <2>3. ~In(c, queue)
    BY <1>0, <2>1 DEF In
  <2>4. In(d, queue') => d = c \/ In(d, queue)
    <3>1. \A i \in 1 .. Len(queue') :
              queue'[i] = c \/ \E a \in 1 .. Len(queue) : queue'[i] = queue[a]
      BY <1>0, <2>2, AppendOrigin
    <3>2. DOMAIN queue' = 1 .. Len(queue')
      BY <1>0, <2>2, AppendQueueType, LenProperties DEF TypeInv, QueueType
    <3> QED
      BY <1>0, <3>1, <3>2 DEF In
  <2>5. CASE answers' = answers /\ queue' = queue
    BY <2>5 DEF Counted
  <2>6. CASE /\ answers' = [answers EXCEPT ![c] = 0] /\ In(c, queue')
             /\ \A e \in Command : In(e, queue) => In(e, queue')
    BY <1>0, <1>2, <2>1, <2>3, <2>4, <2>6 DEF Counted
  <2>7. CASE /\ answers' = [Answer(Told(queue, GoingTo(k))) EXCEPT ![c] = 0]
             /\ In(c, queue')
             /\ \A e \in Command : In(e, Kept(queue, GoingTo(k))) => In(e, queue')
             /\ \A e \in Command : In(e, queue') => e = c \/ In(e, Kept(queue, GoingTo(k)))
    BY <1>0, <1>1, <1>2, <2>1, <2>3, <2>4, <2>7, CancelAnswers DEF Answer, Counted
  <2> QED
    BY <1>0, <2>2, <2>5, <2>6, <2>7, AppendAnswers
<1>3. CASE ~Appending
  <2>1. kind' = kind /\ Thins(queue', queue)
    BY <1>0, <1>3, NoAppendQueue
  <2>2. DOMAIN queue' = 1 .. Len(queue')
    BY <1>0, QueueStep, LenProperties DEF QueueType
  <2>3. In(d, queue') => In(d, queue)
    BY <1>0, <2>1, <2>2 DEF In, Thins
  <2>4. CASE UNCHANGED <<queue, answers>>
    BY <2>3, <2>4 DEF Counted
  <2>5. CASE Complete /\ ~UNCHANGED <<queue, answers>>
    BY <1>0, <1>1, <2>3, <2>5, CancelAnswers DEF Complete, CancelUnexpected, Counted
  <2>6. CASE Send \/ SendSetEnvironment \/ SendInterrupt \/ SendAbort
    BY <1>0, <2>3, <2>6, TailOrHead DEF Send, SendSetEnvironment, SendInterrupt, SendAbort, Sends,
       Counted
  <2>7. CASE SendFails
    <3>1. queue # <<>> /\ last' = last
      BY <2>7 DEF SendFails, Sends
    <3>2. /\ In(d, queue) => In(d, Tail(queue)) \/ d = Head(queue)
          /\ In(d, Tail(queue)) => In(d, queue) /\ d # Head(queue)
          /\ Tail(queue) \in Seq(Command) /\ Head(queue) \in Command /\ In(Head(queue), queue)
      BY <1>0, <3>1, TailOrHead
    <3>3. CASE GoingTo(kind[Head(queue)]) # Busy
      <4>1. PICK s : s = debugger_state
        OBVIOUS
      <4>2. queue' = Kept(Tail(queue), s) /\ answers' = Answer(Told(Tail(queue), s))
        BY <2>7, <3>3, <4>1 DEF SendFails, CancelUnexpected
      <4>3. /\ d \in Told(Tail(queue), s) => In(d, Tail(queue)) /\ ~In(d, Kept(Tail(queue), s))
            /\ In(d, Tail(queue)) /\ ~In(d, Kept(Tail(queue), s)) /\ kind[d] \in Asks =>
                   d \in Told(Tail(queue), s)
        BY <3>2, CancelAnswers
      <4>4. kind[Head(queue)] \notin Asks
        BY <3>3, AsksKinds
      <4> QED
        BY <1>1, <2>3, <3>2, <4>2, <4>3, <4>4 DEF Counted
    <3>4. CASE GoingTo(kind[Head(queue)]) = Busy
      <4>1. queue' = Tail(queue) /\ answers' = Answer({Head(queue)})
        BY <2>7, <3>4 DEF SendFails
      <4>2. d \in {Head(queue)} <=> d = Head(queue)
        OBVIOUS
      <4> QED
        BY <1>1, <2>3, <3>2, <4>1, <4>2 DEF Counted
    <3> QED
      BY <3>3, <3>4
  <2>8. CASE CommandCallback /\ last # none /\ queue_state # Stopped
    BY <1>1, <2>8 DEF CommandCallback, Counted
  <2>9. CASE CommandCallback /\ ~(last # none /\ queue_state # Stopped)
    BY <2>4, <2>9 DEF CommandCallback
  <2> QED
    BY <1>3, <2>4, <2>5, <2>6, <2>7, <2>8, <2>9 DEF Next, Return, Appending, EmitStateChange,
       StateEmitted, OpenWindow, CloseWindow, Execute, AllSent, DebuggerReady, Reread, BackendDone,
       ProgramRuns, SharedlibEvent, BackendEnds, vars, self
<1> QED
  BY <1>2, <1>3

\* Why the client of the command in progress has no answer.
Unanswered ==
    \/ working /\ reply
    \/ queue_state = Stopped /\ (Stacked({"ready"}) \/ (Top("complete") /\ ~working))
    \/ at = Stopped

\* A client is answered once: neither the commands in the queue nor, while its
\* callback is to come, the one in progress have an answer; and the one in
\* progress has one by the end, unless the debugger stops.
AnswerInv ==
    /\ \A c \in Command : answers[c] <= 1
    /\ \A c \in Command : In(c, queue) => answers[c] = 0
    /\ last # none /\ reply => answers[last] = 0
    /\ last # none /\ kind[last] \in Asks /\ answers[last] = 0 => Unanswered

\* The state of the queue does not change while a report is under way.
LEMMA ReadyStays ==
    ASSUME LinkInv, [Next]_vars, last # none, Stacked({"ready"}), queue_state = Stopped
    PROVE  \/ last' = none
           \/ queue_state' = Stopped /\ Stacked({"ready"})'
           \/ queue_state' = Stopped /\ Top("complete")' /\ ~working'
<1>0. /\ TypeInv /\ IInv /\ CallInv /\ CallsInv /\ FrameInv
      /\ last \in Command \cup {none} /\ none \notin Command
  BY Places DEF LinkInv, RunningInv, PlaceInv, CallInv, TypeInv, IInv
<1>1. PICK r \in DOMAIN stack : stack[r].fn = "ready" /\ r = Len(stack)
  BY <1>0 DEF Stacked, FrameInv
<1>2. 1 \in DOMAIN stack /\ DOMAIN stack = 1 .. Len(stack) /\ Len(stack) \in Nat
  BY <1>0, <1>1, LenProperties DEF CallsInv
<1>3. CASE Appending
  <2>1. PICK k \in Kind, c \in Command : Adder(k) /\ \E rest, refused : AppendCommand(c, k, rest, refused)
    BY <1>0, <1>3, Appends DEF Adder
  <2>2. ListenerAppends(k)
    BY <1>0, <1>1, <1>2, <2>1, TopIs, EmptySeq DEF AddQuit, RunAgain, FrameInv, CallsInv, Adder,
       QuitDebugger, UserAppends
  <2>3. k \notin Asynchronous \cup HighPriority /\ GoingTo(k) = Busy
    BY <2>2, AsyncKinds DEF ListenerAppends
  <2>4. queue_state' = queue_state
    BY <1>0, <2>1, <2>3, AppendQueue DEF PutsFirst, PutsBefore, PutsLast
  <2>5. Stacked({"ready"})'
    BY <1>0, <2>2, ListenerCalls, TopIs, StackStays DEF Function
  <2> QED
    BY <2>4, <2>5
<1>4. CASE ~Appending
  <2>1. queue_state' = queue_state \/ last' = none
    BY <1>0, <1>4 DEF Next, Return, Appending, EmitStateChange, StateEmitted, OpenWindow, CloseWindow,
       Execute, Send, SendSetEnvironment, SendInterrupt, SendAbort, SendFails, AllSent, Sends,
       CommandCallback, DebuggerReady, Reread, BackendDone, ProgramRuns, SharedlibEvent, BackendEnds,
       Complete, FreeLast, vars, self
  <2>2. Stacked({"ready"})' \/ DebuggerReady
    BY <1>0, <1>4, StackStays DEF Function
  <2>3. DebuggerReady => ~working' /\ Top("complete")'
    <3>1. SUFFICES ASSUME DebuggerReady PROVE ~working' /\ Top("complete")'
      OBVIOUS
    <3>2. ~working'
      BY <1>0, <3>1, IdleCalls
    <3>3. stack' \in Seq(Call) /\ 1 \in DOMAIN stack' /\ stack'[1].fn = "complete"
      BY <1>0, <3>1, ReadyCalls DEF Puts
    <3>4. stack' # <<>> /\ Head(stack') = stack'[1]
      BY <3>3, LenProperties, EmptySeq, HeadTailProperties
    <3> QED
      BY <3>2, <3>3, <3>4 DEF Top
  <2> QED
    BY <2>1, <2>2, <2>3
<1> QED
  BY <1>3, <1>4

\* A backend that has ended starts again with a new command.
LEMMA EndedStays ==
    ASSUME LinkInv, ReplyInv, JobInv, [Next]_vars,
           last # none, kind[last] \in Asks, last' = last, at = Stopped
    PROVE  at' = Stopped
<1>0. TypeInv /\ CallInv /\ PlaceInv /\ last \in Command
  BY Places DEF LinkInv, RunningInv, PlaceInv, CallInv, TypeInv
<1>1. ~working
  BY AsksKinds, StoppedNeeds DEF JobInv
<1>2. CASE SendAbort \/ BackendEnds
  BY <1>2 DEF SendAbort, BackendEnds, BackendGone
<1>3. ~DebuggerReady
  BY <1>0, <1>1, TopIs DEF DebuggerReady, CallInv, TypeInv, IInv, FrameInv
<1>4. ~SharedlibEvent
  BY <1>0, <1>1 DEF SharedlibEvent, ReplyInv
<1>5. CASE Send \/ CommandCallback \/ ProgramRuns
  BY <1>5 DEF Send, CommandCallback, ProgramRuns
<1> QED
  BY <1>0, <1>2, <1>3, <1>4, <1>5, BackendMoves

\* The command in progress is answered, or the debugger stops.
LEMMA LastAnswer ==
    ASSUME LinkInv, ReplyInv, TellInv, WorkInv, JobInv, AnswerInv, [Next]_vars, ~crashed',
           last' # none, kind'[last'] \in Asks, answers'[last'] = 0
    PROVE  Unanswered'
<1>0. /\ TypeInv /\ CallInv /\ PlaceInv /\ UniqueInv /\ last \in Command \cup {none} /\ none \notin Command
      /\ answers \in [Command -> Nat] /\ CallsInv /\ IInv
      /\ DOMAIN queue = 1 .. Len(queue)
  BY Places DEF LinkInv, RunningInv, PlaceInv, CallInv, TypeInv, QueueType, IInv
<1>1. CASE last' = last
  <2>1. kind[last] \in Asks
    BY <1>0, <1>1, LastMoves
  <2>2. ~In(last, queue) /\ last \in Command /\ answers[last] \in Nat
    BY <1>0, <1>1 DEF UniqueInv, In
  <2>3. /\ answers[last] = 0
        /\ answers'[last] = answers[last]
    BY <1>1, <2>2, AnswerMoves DEF Counted
  <2>4. Unanswered
    BY <1>1, <2>1, <2>3 DEF AnswerInv
  <2>5. CASE working /\ reply
    <3>1. CASE SendAbort \/ BackendEnds
      BY <3>1 DEF SendAbort, BackendEnds, BackendGone, Unanswered
    <3>2. ~DebuggerReady
      BY <1>0, <2>5, TopIs DEF DebuggerReady, ReplyInv, Stacked, Top
    <3>3. ~SharedlibEvent
      BY <2>5 DEF SharedlibEvent, ReplyInv
    <3>4. CASE CommandCallback
      BY <1>0, <1>1, <2>2, <2>3, <3>4, TopIs, ReadyStays DEF CommandCallback, Answer, TellInv,
         Tells, Unanswered
    <3>5. CASE Send \/ ProgramRuns \/ (working' = working /\ reply' = reply)
      BY <1>1, <2>5, <3>5 DEF Send, Sends, ReplyInv, ProgramRuns, Unanswered
    <3> QED
      BY <1>0, <3>1, <3>2, <3>3, <3>4, <3>5, BackendMoves
  <2>6. CASE queue_state = Stopped /\ Stacked({"ready"})
    BY <1>1, <2>6, ReadyStays DEF Unanswered
  <2>7. CASE queue_state = Stopped /\ Top("complete") /\ ~working
    BY <1>0, <1>1, <2>7, TopIs, TopSteps DEF Complete, FreeLast, vars, self, backend, Unanswered,
       Top
  <2>8. CASE at = Stopped
    BY <1>1, <2>1, <2>8, EndedStays DEF Unanswered
  <2> QED
    BY <2>4, <2>5, <2>6, <2>7, <2>8 DEF Unanswered
<1>2. CASE last' # last
  <2>1. /\ Send \/ SendSetEnvironment \/ SendInterrupt \/ SendAbort
        /\ last = none /\ last' = queue[1] /\ kind' = kind /\ Head(queue) = queue[1]
    BY <1>0, <1>2, LastMoves
  <2>2. kind[queue[1]] \in Asks /\ kind[queue[1]] \notin Asynchronous \cup {"set_environment"}
    BY <2>1, AsksKinds
  <2>3. Send
    BY <2>1, <2>2 DEF SendSetEnvironment, SendInterrupt, SendAbort, Asynchronous
  <2>4. ~working
    BY <2>1, <2>2 DEF WorkInv, Overtakes
  <2> QED
    BY <2>1, <2>2, <2>3, <2>4 DEF Send, Unanswered
<1> QED
  BY <1>1, <1>2

\* No client is answered twice.
LEMMA AnswerStep ==
    ASSUME LinkInv, ReplyInv, TellInv, WorkInv, JobInv, AnswerInv, [Next]_vars
    PROVE  AnswerInv'
<1>0. /\ TypeInv /\ CallInv /\ PlaceInv /\ UniqueInv /\ last \in Command \cup {none} /\ none \notin Command
      /\ answers \in [Command -> Nat] /\ CallsInv
      /\ DOMAIN queue = 1 .. Len(queue)
  BY Places DEF LinkInv, RunningInv, PlaceInv, CallInv, TypeInv, QueueType, IInv
<1>1. ~crashed'
  BY LinkFound DEF LinkInv
<1>2. last # none => ~In(last, queue) /\ last \in Command
  BY <1>0 DEF UniqueInv, In
<1>3. CommandCallback => reply
  BY <1>0, TopIs DEF CommandCallback, ReplyInv, Stacked
<1>4. ASSUME NEW c \in Command PROVE answers'[c] <= 1
  BY <1>0, <1>1, <1>3, AnswerMoves DEF AnswerInv, Counted
<1>5. ASSUME NEW c \in Command, In(c, queue') PROVE answers'[c] = 0
  BY <1>0, <1>1, <1>2, <1>5, AnswerMoves DEF AnswerInv, Counted
<1>6. ASSUME last' # none, reply' PROVE answers'[last'] = 0
  <2>1. CASE last' = last
    <3>1. reply /\ ~CommandCallback
      <4>1. ~Send
        BY <1>6, <2>1 DEF Send, Sends
      <4>2. ~SendAbort /\ ~BackendEnds
        BY <1>6 DEF SendAbort, BackendEnds, BackendGone
      <4>3. ~CommandCallback
        BY <1>6 DEF CommandCallback
      <4>4. DebuggerReady \/ ProgramRuns \/ SharedlibEvent => reply
        BY <1>6 DEF DebuggerReady, ProgramRuns, SharedlibEvent
      <4> QED
        BY <1>0, <1>6, <4>1, <4>2, <4>3, <4>4, BackendMoves
    <3>2. answers[last] = 0 /\ last \in Command /\ ~In(last, queue) /\ Counted(last)
      BY <1>1, <1>2, <1>6, <2>1, <3>1, AnswerMoves DEF AnswerInv
    <3> QED
      BY <2>1, <3>1, <3>2 DEF Counted
  <2>2. CASE last' # last
    BY <1>0, <1>6, <2>2, LastMoves DEF Send, SendSetEnvironment, SendInterrupt, SendAbort, In,
       AnswerInv
  <2> QED
    BY <2>1, <2>2
<1> QED
  BY <1>1, <1>4, <1>5, <1>6, LastAnswer DEF AnswerInv

-----------------------------------------------------------------------------
(* The queue and the backend fit                                           *)

\* What the runs of the queue assume: otherwise there are behaviours in which the
\* queue and the backend do not fit.
Orderly == ~DiesIdle /\ ~AbortsLoad /\ ~QuitsAgain

(* The inductive invariant: the queue knows what the backend does.            *)
FitInv ==
    /\ LinkInv /\ SettleInv /\ ReplyInv /\ SentInv /\ TellInv /\ LinkFirstInv
    /\ WorkInv /\ JobInv /\ IdleInv /\ PlanInv /\ FrontInv /\ AnswerInv

\* It holds at the start.
LEMMA FitInit ==
    ASSUME Init
    PROVE  FitInv
<1>1. stack = <<>> /\ queue = <<>> /\ Len(queue) = 0 /\ 1 .. Len(queue) = {} /\ DOMAIN stack = {}
      /\ DOMAIN queue = {}
  BY EmptySeq DEF Init
<1>2. LinkInv
  BY RunningInit DEF Init, LinkInv, OpenInv
<1>3. SettleInv /\ ReplyInv /\ TellInv /\ LinkFirstInv
  BY <1>1 DEF Init, SettleInv, Settles, ReplyInv, TellInv, LinkFirstInv, Stacked, Stopped,
     Loaded, PStopped
<1>4. SentInv
  BY <1>1 DEF Init, SentInv
<1>5. WorkInv /\ JobInv /\ IdleInv
  BY <1>1 DEF Init, WorkInv, JobInv, IdleInv
<1>6. PlanInv
  BY <1>1 DEF Init, PlanInv, Planned
<1>7. FrontInv
  BY <1>1 DEF Init, FrontInv, Front
<1>8. AnswerInv
  BY DEF Init, AnswerInv
<1> QED
  BY <1>2, <1>3, <1>4, <1>5, <1>6, <1>7, <1>8 DEF FitInv

\* It is kept.
LEMMA FitStep ==
    ASSUME Orderly, FitInv, [Next]_vars
    PROVE  FitInv'
<1>1. LinkInv /\ RunningInv /\ PlaceInv /\ CallInv /\ OpenInv /\ ~crashed
  BY DEF FitInv, LinkInv, RunningInv, PlaceInv
<1>2. LinkInv'
  BY <1>1, RunningStep, OpenStep, LinkFound DEF LinkInv
<1>3. SettleInv' /\ ReplyInv' /\ SentInv'
  BY <1>1, SettleStep, ReplyStep, SentStep DEF FitInv
<1>4. TellInv' /\ LinkFirstInv' /\ PlanInv'
  BY TellStep, LinkFirstStep, PlanStep DEF FitInv
<1>5. WorkInv' /\ JobInv'
  BY WorkStep, JobStep DEF FitInv, Orderly
<1>6. IdleInv' /\ FrontInv'
  BY IdleStep, FrontStep DEF FitInv, Orderly
<1>7. AnswerInv'
  BY AnswerStep DEF FitInv
<1> QED
  BY <1>2, <1>3, <1>4, <1>5, <1>6, <1>7 DEF FitInv

(* The queue knows what the backend does, whatever is queued or under way: what *)
(* it is busy with is the command in progress, an idle one finds none in        *)
(* progress, and each command of the queue fits the state that the ones before  *)
(* it lead to.  dma_debugger_queue_append, _complete and _execute keep this for *)
(* any commands, any kinds in use and any nesting of the calls.                 *)
THEOREM QueueFitsBackend == Orderly => (Spec => []FitInv)
<1>1. Init => FitInv
  BY FitInit
<1>2. Orderly /\ FitInv /\ [Next]_vars => FitInv'
  BY FitStep
<1> SUFFICES ASSUME Orderly PROVE Spec => []FitInv
  OBVIOUS
<1>3. FitInv /\ [Next]_vars => FitInv'
  BY <1>2
<1> QED
  BY <1>1, <1>3, PTL DEF Spec

(* Back in the main loop with an idle backend nothing is stuck in the queue, and *)
(* the two states that it keeps are the state of the backend                     *)
(* (dma_debugger_queue_complete and dma_queue_emit_debugger_state).              *)
THEOREM QueueInSync == Orderly => (Spec => []InSync)
<1>1. FitInv => InSync
  <2>1. SUFFICES ASSUME FitInv, stack = <<>>, ~working
                 PROVE  queue = <<>> /\ last = none /\ debugger_state = at /\ queue_state = at
    BY DEF InSync
  <2>2. \A F : ~Stacked(F)
    BY <2>1, EmptySeq DEF Stacked
  <2>3. debugger_state = at
    BY <2>1, <2>2 DEF FitInv, SettleInv, Settles
  <2>4. last = none
    BY <2>1, <2>2 DEF FitInv, IdleInv, Top
  <2>5. queue = <<>>
    BY <2>2, <2>4, <2>1 DEF FitInv, LinkInv, RunningInv, PlaceInv, PendingInv
  <2>6. NoneSets(kind, queue)
    BY <2>5, EmptySeq DEF NoneSets
  <2>7. queue_state = at
    BY <2>1, <2>4, <2>6 DEF FitInv, FrontInv
  <2> QED
    BY <2>3, <2>4, <2>5, <2>7
<1> QED
  BY <1>1, QueueFitsBackend, PTL

(* dma_debugger_queue_command_callback calls the callback of the command in       *)
(* progress, and that is the command whose answer the backend gives, although     *)
(* commands that are put first may take the place of the one in progress.         *)
THEOREM CallbacksFindOwner == Orderly => (Spec => []CallbackToOwner)
<1>1. FitInv => CallbackToOwner
  <2>1. SUFFICES ASSUME FitInv, Top("callback"), last # none PROVE job = last
    BY DEF CallbackToOwner
  <2>2. CallsInv
    BY <2>1 DEF FitInv, LinkInv, RunningInv, PlaceInv, CallInv, TypeInv, IInv
  <2>3. 1 \in DOMAIN stack /\ stack[1].fn = "callback"
    BY <2>1, <2>2, TopIs
  <2>4. reply /\ working
    BY <2>1, <2>3 DEF FitInv, ReplyInv, Stacked
  <2> QED
    BY <2>1, <2>4 DEF FitInv, JobInv
<1> QED
  BY <1>1, QueueFitsBackend, PTL

(* dma_queue_check_state looks at a command when it is added; when                *)
(* dma_debugger_queue_execute gives it to the backend, that is idle and in a      *)
(* state which the command fits, whatever has come in between.                    *)
THEOREM SentCommandsFit == Orderly => (Spec => CommandsFitState)
<1> DEFINE Fits == last' \notin {last, none} /\ kind[last'] \notin Asynchronous =>
                       ~working /\ at \in Need(kind[last'])
<1>1. FitInv /\ [Next]_vars => [Fits]_vars
  <2>1. SUFFICES ASSUME FitInv, [Next]_vars, last' \notin {last, none},
                        kind[last'] \notin Asynchronous
                 PROVE  ~working /\ at \in Need(kind[last'])
    OBVIOUS
  <2>2. PlaceInv
    BY <2>1 DEF FitInv, LinkInv, RunningInv
  <2>3. last = none /\ last' = queue[1] /\ queue # <<>> /\ 1 \in 1 .. Len(queue)
    BY <2>1, <2>2, LastMoves
  <2>4. ~working
    BY <2>1, <2>3 DEF FitInv, WorkInv, Overtakes
  <2>5. Plain(kind, queue, 1, 1)
    BY DEF Plain
  <2>6. at \in Need(kind[queue[1]])
    BY <2>1, <2>3, <2>4, <2>5 DEF FitInv, FrontInv, Front
  <2> QED
    BY <2>3, <2>4, <2>6
<1> HIDE DEF Fits
<1>2. Orderly => (Spec => [][Fits]_vars)
  BY <1>1, QueueFitsBackend, PTL DEF Spec
<1> QED
  BY <1>2 DEF Fits, CommandsFitState

(* Whatever cancels a command (dma_queue_cancel_unexpected), refuses it or answers *)
(* it, its client's callback is called once: never twice, and not at all only if   *)
(* the debugger stops or is about to.                                              *)
THEOREM ClientsAnsweredOnce == Orderly => (Spec => AnsweredOnce)
<1> DEFINE Once == \A c \in Command :
                /\ answers'[c] <= 1
                /\ Live(c) /\ kind[c] \in Asks /\ ~Live(c)' /\ answers'[c] = 0 =>
                       \/ queue_state = Stopped \/ at = Stopped
                       \/ \E i \in DOMAIN queue : kind[queue[i]] = "abort"
<1>1. FitInv /\ FitInv' /\ [Next]_vars => [Once]_vars
  <2> DEFINE Gone(c) == Live(c) /\ kind[c] \in Asks /\ ~Live(c)' /\ answers'[c] = 0
             Ending == \/ queue_state = Stopped \/ at = Stopped
                       \/ \E i \in DOMAIN queue : kind[queue[i]] = "abort"
  <2>1. SUFFICES ASSUME FitInv, FitInv', [Next]_vars, NEW c \in Command
                 PROVE  answers'[c] <= 1 /\ (Gone(c) => Ending)
    OBVIOUS
  <2>2. answers'[c] <= 1
    BY <2>1 DEF FitInv, AnswerInv
  <2>3. SUFFICES ASSUME Gone(c) PROVE Ending
    BY <2>2
  <2>4. /\ LinkInv /\ PlaceInv /\ TypeInv /\ answers[c] \in Nat /\ none \notin Command
        /\ DOMAIN queue = 1 .. Len(queue) /\ CallsInv
    BY <2>1, Places DEF FitInv, LinkInv, RunningInv, PlaceInv, CallInv, TypeInv, IInv, QueueType
  <2>5. ~crashed'
    BY <2>1 DEF FitInv, LinkInv
  <2>6. /\ In(c, queue) \/ last = c
        /\ kind[c] \in Asks /\ ~In(c, queue') /\ last' # c /\ answers'[c] = 0
    BY <2>3 DEF Live
  <2>7. ~In(c, queue)
    BY <2>1, <2>4, <2>5, <2>6, AnswerMoves
  <2>8. last = c /\ Complete
    BY <2>1, <2>4, <2>6, <2>7, LastMoves
  <2>9. answers[c] = 0
    BY <2>1, <2>4, <2>5, <2>6, <2>7, AnswerMoves DEF Counted
  <2>10. Unanswered
    BY <2>1, <2>4, <2>6, <2>8, <2>9 DEF FitInv, AnswerInv
  <2>11. CASE working /\ reply
    BY <2>1, <2>4, <2>8, <2>11, Places, StoppedNeeds DEF Complete, FitInv, WorkInv, Overtakes
  <2> QED
    BY <2>10, <2>11 DEF Unanswered
<1> HIDE DEF Once
<1>2. Orderly => (Spec => [][Once]_vars)
  BY <1>1, QueueFitsBackend, PTL DEF Spec
<1> QED
  BY <1>2 DEF Once, AnsweredOnce
=============================================================================
