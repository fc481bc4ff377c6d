--------------------- MODULE AnjutaCommandQueue_proofs ---------------------
(***************************************************************************)
(* The command queue runs its commands one at a time, in the order they    *)
(* were pushed, whatever the number of commands and however deep the       *)
(* nested calls: proved as the refinement of SerialRunner.                 *)
(*                                                                         *)
(* The argument is a token.  A busy queue has one token: the command that  *)
(* is at work, or the innermost call, when it is the start of a command or *)
(* an emission of command-finished that still has to reach                 *)
(* on_command_finished.  All the calls below the innermost one only return *)
(* (they are Quiet), so a nested start never finds another command at      *)
(* work, and a queue without a token is not busy.                          *)
(*                                                                         *)
(* On top of the token rests the count of references (LifeInv): whatever   *)
(* has a command still to use holds it, and the queue is dropped only      *)
(* where no call is left that would use it.                                *)
(***************************************************************************)
EXTENDS AnjutaCommandQueue, TLAPS

\* A call that will start a command or hand the queue on.
Live(f) ==
    \/ f.fn = "start"
    \/ f.fn = "emit" /\ (f.stage = "clients" \/ f.left > 0)

Quiet(s) == \A i \in 1 .. Len(s) : ~Live(s[i])

LiveTop == stack # <<>> /\ Live(Head(stack))

StackInv ==
    /\ stack # <<>> => Quiet(Tail(stack))
    /\ stack # <<>> /\ Head(stack).fn = "emit" =>
           /\ Head(stack).left <= 1
           /\ Head(stack).stage = "clients" => Head(stack).left = 1

TokenInv ==
    /\ busy <=> active # {} \/ LiveTop
    /\ LiveTop => active = {}
    /\ \A c, d \in active : c = d
    /\ \A c \in Command :
           running[c] <=> c \in active \/ (Top("start") /\ Head(stack).cmd = c)

\* A command is connected exactly when it is taken from the queue (or pushed
\* on an idle automatic queue), and it is queued at most once.
QueueInv ==
    /\ \A c \in Command : running[c] => connected[c] = 1
    /\ \A i \in 1 .. Len(queue) : connected[queue[i]] = 0 /\ In(queue[i], pushed)
    /\ \A i, j \in 1 .. Len(queue) : queue[i] = queue[j] => i = j
    /\ \A c \in Command : ~In(c, pushed) => connected[c] = 0
    /\ \A i \in 1 .. Len(done) : In(done[i], pushed)
    /\ mode = "AUTOMATIC" /\ ~busy => queue = <<>>

\* The types, with a count of references that may for now be any integer: that
\* it never falls below zero needs the references themselves (RefInv).
TypeInv ==
    /\ mode \in Mode
    /\ queue \in Seq(Command)
    /\ busy \in BOOLEAN
    /\ alive \in BOOLEAN
    /\ running \in [Command -> BOOLEAN]
    /\ connected \in [Command -> Nat]
    /\ owned \subseteq Command
    /\ held \in [Command -> Int]
    /\ active \subseteq Command
    /\ stack \in Seq(Frame)
    /\ pushed \in Seq(Command)
    /\ done \in Seq(Command)
    /\ announced \in Nat

IInv == TypeInv /\ StackInv /\ TokenInv /\ QueueInv

-----------------------------------------------------------------------------
(* The call stack                                                          *)

\* Calling f from the calls r.
LEMMA Call ==
    ASSUME NEW f \in Frame, NEW r \in Seq(Frame)
    PROVE  /\ <<f>> \o r \in Seq(Frame)
           /\ <<f>> \o r # <<>>
           /\ Head(<<f>> \o r) = f
           /\ Tail(<<f>> \o r) = r
OBVIOUS

\* No call quiet calls return to is live.
LEMMA QuietEmpty == Quiet(<<>>)
BY DEF Quiet

\* A call that only returns keeps the stack quiet.
LEMMA QuietCall ==
    ASSUME NEW f \in Frame, NEW r \in Seq(Frame), ~Live(f), Quiet(r)
    PROVE  Quiet(<<f>> \o r)
<1> DEFINE s == <<f>> \o r
<1>1. Len(s) = Len(r) + 1 /\ s[1] = f
    OBVIOUS
<1>2. ASSUME NEW i \in 2 .. Len(r) + 1
      PROVE  s[i] = r[i - 1]
    OBVIOUS
<1> HIDE DEF s
<1>3. ASSUME NEW i \in 1 .. Len(s)
      PROVE  ~Live(s[i])
    <2>1. CASE i = 1
        BY <1>1, <2>1
    <2>2. CASE i # 1
        <3>1. i \in 2 .. Len(r) + 1 /\ i - 1 \in 1 .. Len(r)
            BY <1>1, <2>2
        <3>2. QED
            BY <1>2, <3>1 DEF Quiet
    <2>3. QED
        BY <2>1, <2>2
<1>4. QED
    BY <1>3 DEF Quiet, s

\* Quiet calls stay quiet when the innermost returns.
LEMMA QuietReturn ==
    ASSUME NEW s \in Seq(Frame), s # <<>>, Quiet(s)
    PROVE  ~Live(Head(s)) /\ Quiet(Tail(s))
<1>1. Head(s) = s[1] /\ 1 \in 1 .. Len(s)
    OBVIOUS
<1>2. Len(Tail(s)) = Len(s) - 1
    OBVIOUS
<1>3. \A i \in 1 .. Len(s) - 1 : Tail(s)[i] = s[i + 1] /\ i + 1 \in 1 .. Len(s)
    OBVIOUS
<1>4. QED
    BY <1>1, <1>2, <1>3 DEF Quiet

\* The frames the actions push are frames.
LEMMA FrameTypes ==
    ASSUME NEW c \in Command, connected \in [Command -> Nat]
    PROVE  /\ Starting(c) \in Frame /\ Emitting(c) \in Frame
           /\ Releasing(c) \in Frame /\ Announcing \in Frame
BY DEF Starting, Emitting, Releasing, Announcing, Frame

\* A frame other than the announcement is a call about a command.
LEMMA FrameFields ==
    ASSUME NEW f \in Frame, f.fn # "finished"
    PROVE  /\ f.cmd \in Command /\ f.left \in Nat
           /\ f.stage \in {"class", "clients", "queue"}
           /\ [f EXCEPT !.stage = "queue"] \in Frame
           /\ f.left > 0 => [f EXCEPT !.left = @ - 1] \in Frame
BY DEF Frame, Announcing

-----------------------------------------------------------------------------
(* What the building blocks of the actions do                              *)

\* A command that does not run is started by one new innermost call.
LEMMA Started ==
    ASSUME TypeInv, NEW c \in Command, NEW r \in Seq(Frame), ~running[c],
           ConnectAndStart(c, r)
    PROVE  /\ stack' \in Seq(Frame) /\ stack' # <<>>
           /\ Head(stack') = Starting(c) /\ Tail(stack') = r
           /\ running' = [running EXCEPT ![c] = TRUE]
           /\ connected' = [connected EXCEPT ![c] = @ + 1]
           /\ running' \in [Command -> BOOLEAN]
           /\ connected' \in [Command -> Nat]
<1>1. Starting(c) \in Frame
    BY FrameTypes DEF TypeInv
<1>2. stack' = <<Starting(c)>> \o r
    BY DEF ConnectAndStart
<1>3. /\ stack' \in Seq(Frame) /\ stack' # <<>>
      /\ Head(stack') = Starting(c) /\ Tail(stack') = r
    BY <1>1, <1>2, Call
<1>4. QED
    BY <1>3, SMTT(30) DEF ConnectAndStart, TypeInv

\* A completion is one new innermost emission.
LEMMA Emitted ==
    ASSUME TypeInv, NEW c \in Command, NEW r \in Seq(Frame), Emit(c, r)
    PROVE  /\ stack' \in Seq(Frame) /\ stack' # <<>>
           /\ Head(stack') = Emitting(c) /\ Tail(stack') = r
           /\ running' = [running EXCEPT ![c] = FALSE]
           /\ running' \in [Command -> BOOLEAN]
           /\ done' = Append(done, c)
           /\ done' \in Seq(Command)
<1>1. Emitting(c) \in Frame
    BY FrameTypes DEF TypeInv
<1>2. stack' = <<Emitting(c)>> \o r
    BY DEF Emit
<1>3. /\ stack' \in Seq(Frame) /\ stack' # <<>>
      /\ Head(stack') = Emitting(c) /\ Tail(stack') = r
    BY <1>1, <1>2, Call
<1>4. done' \in Seq(Command)
    BY DEF Emit, TypeInv
<1>5. QED
    BY <1>3, <1>4 DEF Emit, TypeInv

\* Once on_command_finished is called, the emission only returns.
LEMMA CalledQuiet ==
    ASSUME TypeInv, StackInv, Top("emit"), Head(stack).stage = "queue",
           Head(stack).left > 0
    PROVE  /\ Called \in Seq(Frame) /\ Called # <<>>
           /\ Quiet(Called) /\ Quiet(Tail(Called))
           /\ Head(Called).fn = "emit" /\ Head(Called).stage = "queue"
           /\ Head(Called).left = 0 /\ ~Live(Head(Called))
<1> DEFINE f == Head(stack)
           g == [f EXCEPT !.left = @ - 1]
<1>1. f \in Frame /\ f.fn # "finished" /\ Tail(stack) \in Seq(Frame)
    BY DEF TypeInv, Top
<1>2. g \in Frame
    BY <1>1, FrameFields
<1>3. f.left = 1
    <2>1. f.left \in Nat
        BY <1>1, FrameFields
    <2>2. f.left <= 1
        BY DEF StackInv, Top
    <2>3. QED
        BY <2>1, <2>2
<1>4. g.fn = "emit" /\ g.stage = "queue" /\ g.left = 0
    BY <1>1, <1>3 DEF Top, Frame, Announcing
<1>5. ~Live(g)
    BY <1>4 DEF Live
<1>6. Quiet(Tail(stack))
    BY DEF StackInv, Top
<1>7. Called = <<g>> \o Tail(stack)
    BY DEF Called
<1> HIDE DEF g
<1>8. QED
    BY <1>1, <1>2, <1>4, <1>5, <1>6, <1>7, Call, QuietCall

\* Without a live call on top the stack only returns.
LEMMA QuietStack ==
    ASSUME stack' \in Seq(Frame),
           stack' # <<>> => ~Live(Head(stack')) /\ Quiet(Tail(stack'))
    PROVE  StackInv' /\ ~LiveTop' /\ ~Top("start")'
<1>1. ~LiveTop' /\ ~Top("start")'
    BY DEF LiveTop, Top, Live
<1>2. ASSUME stack' # <<>>, Head(stack').fn = "emit"
      PROVE  Head(stack').stage # "clients" /\ Head(stack').left <= 1
    <2>1. Head(stack').stage # "clients" /\ ~(Head(stack').left > 0)
        BY <1>2 DEF Live
    <2>2. Head(stack') \in Frame
        BY <1>2
    <2>3. Head(stack').left \in Nat
        BY <1>2, <2>2, FrameFields
    <2>4. QED
        BY <2>1, <2>3
<1>3. QED
    BY <1>1, <1>2 DEF StackInv

\* Returning from the innermost call leaves no live call.
LEMMA ReturnStack ==
    ASSUME TypeInv, StackInv, stack # <<>>, stack' = Tail(stack)
    PROVE  StackInv' /\ ~LiveTop' /\ ~Top("start")' /\ stack' \in Seq(Frame)
<1>1. Tail(stack) \in Seq(Frame) /\ Quiet(Tail(stack))
    BY DEF TypeInv, StackInv
<1>2. stack' # <<>> => ~Live(Head(stack')) /\ Quiet(Tail(stack'))
    BY <1>1, QuietReturn
<1>3. QED
    BY <1>1, <1>2, QuietStack

\* A start on top of quiet calls is the only live call.
LEMMA StartStack ==
    ASSUME NEW c \in Command, stack' # <<>>, Head(stack') = Starting(c),
           Quiet(Tail(stack'))
    PROVE  /\ StackInv' /\ LiveTop' /\ Top("start")'
           /\ Head(stack').cmd = c
BY DEF StackInv, LiveTop, Top, Live, Starting

\* An emission on top of quiet calls is the only live call.
LEMMA EmitStack ==
    ASSUME NEW c \in Command, stack' # <<>>, Head(stack') = Emitting(c),
           Quiet(Tail(stack')), connected[c] = 1
    PROVE  StackInv' /\ LiveTop' /\ ~Top("start")'
BY DEF StackInv, LiveTop, Top, Live, Emitting

-----------------------------------------------------------------------------
(* The inductive invariant: one lemma per action                           *)

\* A new queue has no command and no call.
LEMMA InitIInv == Init => IInv
<1> SUFFICES ASSUME Init
             PROVE  IInv
    OBVIOUS
<1>1. TypeInv
    <2>1. queue \in Seq(Command) /\ pushed \in Seq(Command)
          /\ done \in Seq(Command) /\ stack \in Seq(Frame)
        BY DEF Init
    <2>2. running \in [Command -> BOOLEAN] /\ connected \in [Command -> Nat]
          /\ held \in [Command -> Int]
        BY DEF Init
    <2>3. QED
        BY <2>1, <2>2 DEF Init, TypeInv
<1>2. StackInv /\ TokenInv
    BY DEF Init, StackInv, TokenInv, LiveTop, Top
<1>3. QueueInv
    BY DEF Init, QueueInv, In
<1>4. QED
    BY <1>1, <1>2, <1>3 DEF IInv

\* Launching passes the token from the innermost call to the command at work.
LEMMA LaunchStep == ASSUME IInv, Launch PROVE IInv'
<1> DEFINE c == Head(stack).cmd
<1>1. TypeInv /\ StackInv /\ TokenInv /\ QueueInv
    BY DEF IInv
<1>2. /\ Head(stack) \in Frame /\ Head(stack).fn = "start" /\ stack # <<>>
      /\ stack' = Tail(stack)
    BY <1>1 DEF Launch, Top, TypeInv
<1>3. c \in Command
    BY <1>2, FrameFields
<1>4. StackInv' /\ ~LiveTop' /\ ~Top("start")' /\ stack' \in Seq(Frame)
    BY <1>1, <1>2, ReturnStack
<1>5. LiveTop /\ active = {}
    BY <1>1, <1>2 DEF LiveTop, Live, TokenInv
<1>6. active' = {c}
    BY <1>5 DEF Launch
<1>7. TypeInv'
    BY <1>1, <1>3, <1>4, <1>6 DEF TypeInv, Launch, self, hist
<1>8. TokenInv'
    <2>1. busy' = busy /\ running' = running
        BY DEF Launch, self
    <2>2. QED
        BY <1>1, <1>2, <1>4, <1>5, <1>6, <2>1 DEF TokenInv, Top
<1>9. QueueInv'
    BY <1>1 DEF QueueInv, Launch, self, hist, In
<1>10. QED
    BY <1>4, <1>7, <1>8, <1>9 DEF IInv

\* A call that only returns, whatever reference it drops, moves no token.
LEMMA ReturnStep ==
    ASSUME IInv, EndEmission \/ ReleaseNext \/ Announce
    PROVE  IInv'
<1>1. TypeInv /\ StackInv /\ TokenInv /\ QueueInv
    BY DEF IInv
<1>2. /\ Head(stack) \in Frame /\ stack # <<>> /\ stack' = Tail(stack)
      /\ ~Top("start")
      /\ Head(stack).fn = "emit" =>
             Head(stack).stage = "queue" /\ Head(stack).left = 0
    BY <1>1 DEF EndEmission, ReleaseNext, Announce, Top, TypeInv
<1>3. StackInv' /\ ~LiveTop' /\ ~Top("start")'
    BY <1>1, <1>2, ReturnStack
<1>4. ~LiveTop
    BY <1>2 DEF LiveTop, Live, Top
<1>5. UNCHANGED <<mode, queue, busy, running, connected, active, pushed, done>>
    BY DEF EndEmission, ReleaseNext, Announce, self, cmds, hist
<1>9. TypeInv'
    <2>1. stack' \in Seq(Frame)
        BY <1>1, <1>2, ReturnStack
    <2>2. held' \in [Command -> Int]
        BY <1>1 DEF EndEmission, ReleaseNext, Announce, cmds, TypeInv
    <2>3. alive' \in BOOLEAN
        BY <1>1 DEF EndEmission, ReleaseNext, Announce, self, TypeInv
    <2>4. owned' \subseteq Command
        BY <1>1 DEF EndEmission, ReleaseNext, Announce, cmds, TypeInv
    <2>5. announced' \in Nat
        BY <1>1 DEF EndEmission, ReleaseNext, Announce, hist, TypeInv
    <2>6. QED
        BY <1>1, <1>5, <2>1, <2>2, <2>3, <2>4, <2>5 DEF TypeInv
<1>6. TokenInv'
    BY <1>1, <1>2, <1>3, <1>4, <1>5 DEF TokenInv
<1>7. QueueInv'
    BY <1>1, <1>5 DEF QueueInv, In
<1>8. QED
    BY <1>3, <1>6, <1>7, <1>9 DEF IInv

\* The client's handlers run while the token is the emission they belong to.
LEMMA ClientHandlersStep == ASSUME IInv, ClientHandlers PROVE IInv'
<1> DEFINE f == Head(stack)
           g == [f EXCEPT !.stage = "queue"]
<1>1. TypeInv /\ StackInv /\ TokenInv /\ QueueInv
    BY DEF IInv
<1>2. /\ f \in Frame /\ f.fn = "emit" /\ f.stage = "clients" /\ f.left = 1
      /\ Tail(stack) \in Seq(Frame) /\ Quiet(Tail(stack)) /\ stack # <<>>
    BY <1>1 DEF ClientHandlers, Top, TypeInv, StackInv
<1>3. g \in Frame /\ g.fn = "emit" /\ g.stage = "queue" /\ g.left = 1
    BY <1>2 DEF Frame, Announcing
<1>4. stack' = <<g>> \o Tail(stack)
    BY DEF ClientHandlers
<1> HIDE DEF g
<1>5. /\ stack' \in Seq(Frame) /\ stack' # <<>>
      /\ Head(stack') = g /\ Tail(stack') = Tail(stack)
    BY <1>2, <1>3, <1>4, Call
<1>6. LiveTop /\ ~Top("start") /\ LiveTop' /\ ~Top("start")'
    BY <1>2, <1>3, <1>5 DEF LiveTop, Live, Top
<1>7. UNCHANGED <<mode, queue, busy, running, connected, active, pushed, done>>
    BY DEF ClientHandlers, self, hist
<1>8. TypeInv'
    BY <1>1, <1>5, <1>7 DEF TypeInv, ClientHandlers, self, hist
<1>9. StackInv'
    <2>1. Quiet(Tail(stack'))
        BY <1>2, <1>5
    <2>2. Head(stack').left <= 1 /\ Head(stack').stage # "clients"
        BY <1>3, <1>5
    <2>3. QED
        BY <2>1, <2>2 DEF StackInv
<1>10. TokenInv'
    BY <1>1, <1>6, <1>7 DEF TokenInv
<1>11. QueueInv'
    BY <1>1, <1>7 DEF QueueInv, In
<1>12. QED
    BY <1>8, <1>9, <1>10, <1>11 DEF IInv

\* With nothing queued the token is given up, and busy with it.
LEMMA BecomeIdleStep == ASSUME IInv, BecomeIdle PROVE IInv'
<1>1. TypeInv /\ StackInv /\ TokenInv /\ QueueInv
    BY DEF IInv
<1>2. /\ Top("emit") /\ Head(stack).stage = "queue" /\ Head(stack).left > 0
      /\ queue = <<>> /\ busy' = FALSE
    BY DEF BecomeIdle
<1>3. /\ Called \in Seq(Frame) /\ Called # <<>>
      /\ Quiet(Called) /\ Quiet(Tail(Called)) /\ ~Live(Head(Called))
    BY <1>1, <1>2, CalledQuiet
<1>4. Announcing \in Frame /\ ~Live(Announcing)
    BY DEF Frame, Announcing, Live
<1>5. /\ stack' \in Seq(Frame) /\ stack' # <<>>
      /\ ~Live(Head(stack')) /\ Quiet(Tail(stack'))
    BY <1>3, <1>4, Call DEF BecomeIdle
<1>6. StackInv' /\ ~LiveTop' /\ ~Top("start")'
    BY <1>5, QuietStack
<1>7. LiveTop /\ ~Top("start") /\ active = {}
    BY <1>1, <1>2 DEF LiveTop, Live, Top, TokenInv
<1>8. UNCHANGED <<mode, queue, running, connected, active, pushed, done>>
    BY DEF BecomeIdle, cmds, hist
<1>9. TypeInv'
    BY <1>1, <1>2, <1>5, <1>8 DEF TypeInv, BecomeIdle, cmds, hist
<1>10. TokenInv'
    BY <1>1, <1>2, <1>6, <1>7, <1>8 DEF TokenInv
<1>11. QueueInv'
    BY <1>1, <1>2, <1>8 DEF QueueInv, In
<1>12. QED
    BY <1>6, <1>9, <1>10, <1>11 DEF IInv

\* Appending to a history keeps what is in it.
LEMMA AppendIn ==
    ASSUME NEW s \in Seq(Command), NEW c \in Command
    PROVE  /\ Append(s, c) \in Seq(Command)
           /\ \A d \in Command : In(d, Append(s, c)) <=> In(d, s) \/ d = c
           /\ Len(Append(s, c)) = Len(s) + 1
           /\ \A i \in 1 .. Len(s) : Append(s, c)[i] = s[i]
           /\ Append(s, c)[Len(s) + 1] = c
<1>1. /\ Append(s, c) \in Seq(Command)
      /\ Len(Append(s, c)) = Len(s) + 1
      /\ \A i \in 1 .. Len(s) : Append(s, c)[i] = s[i]
      /\ Append(s, c)[Len(s) + 1] = c
      /\ DOMAIN s = 1 .. Len(s)
      /\ DOMAIN Append(s, c) = 1 .. Len(s) + 1
    OBVIOUS
<1> DEFINE t == Append(s, c)
<1> HIDE DEF t
<1>2. ASSUME NEW d \in Command
      PROVE  In(d, t) <=> In(d, s) \/ d = c
    <2>1. ASSUME In(d, t) PROVE In(d, s) \/ d = c
        <3>1. PICK i \in 1 .. Len(s) + 1 : t[i] = d
            BY <1>1, <2>1 DEF In, t
        <3>2. CASE i \in 1 .. Len(s)
            BY <1>1, <3>1, <3>2 DEF In, t
        <3>3. CASE i = Len(s) + 1
            BY <1>1, <3>1, <3>3 DEF t
        <3>4. QED
            BY <3>1, <3>2, <3>3
    <2>2. ASSUME In(d, s) PROVE In(d, t)
        <3>1. PICK i \in 1 .. Len(s) : s[i] = d
            BY <1>1, <2>2 DEF In
        <3>2. t[i] = d /\ i \in DOMAIN t
            BY <1>1, <3>1 DEF t
        <3>3. QED
            BY <3>2 DEF In
    <2>3. ASSUME d = c PROVE In(d, t)
        <3>1. t[Len(s) + 1] = d /\ Len(s) + 1 \in DOMAIN t
            BY <1>1, <2>3 DEF t
        <3>2. QED
            BY <3>1 DEF In
    <2>4. QED
        BY <2>1, <2>2, <2>3
<1>3. QED
    BY <1>1, <1>2 DEF t

\* The head and the tail of a queue.
LEMMA TailAt ==
    ASSUME NEW q \in Seq(Command), q # <<>>
    PROVE  /\ Head(q) \in Command /\ Head(q) = q[1] /\ 1 \in 1 .. Len(q)
           /\ Tail(q) \in Seq(Command) /\ Len(Tail(q)) = Len(q) - 1
           /\ \A i \in 1 .. Len(q) - 1 :
                  Tail(q)[i] = q[i + 1] /\ i + 1 \in 2 .. Len(q)
OBVIOUS

\* A completion keeps the invariant: the token stays with the emission.
LEMMA EmitStep ==
    ASSUME IInv, NEW c \in Command, NEW r \in Seq(Frame), Emit(c, r), Quiet(r),
           running[c], active' = active \ {c},
           Top("start") => Head(stack).cmd = c,
           UNCHANGED <<self, connected, owned, held, pushed, announced>>
    PROVE  IInv'
<1>1. TypeInv /\ StackInv /\ TokenInv /\ QueueInv
    BY DEF IInv
<1>2. /\ stack' \in Seq(Frame) /\ stack' # <<>>
      /\ Head(stack') = Emitting(c) /\ Tail(stack') = r
      /\ running' = [running EXCEPT ![c] = FALSE]
      /\ running' \in [Command -> BOOLEAN]
      /\ done' = Append(done, c) /\ done' \in Seq(Command)
    BY <1>1, Emitted
<1>3. connected[c] = 1 /\ In(c, pushed)
    BY <1>1 DEF QueueInv
<1>4. StackInv' /\ LiveTop' /\ ~Top("start")'
    BY <1>2, <1>3, EmitStack
<1>5. busy /\ \A d \in Command : running[d] => d = c
    <2>1. c \in active \/ Top("start")
        BY <1>1 DEF TokenInv
    <2>2. Top("start") => LiveTop
        BY DEF Top, LiveTop, Live
    <2>3. QED
        BY <1>1, <2>1, <2>2 DEF TokenInv
<1>6. active' = {}
    <2>1. \A d \in active : running[d] /\ d \in Command
        BY <1>1 DEF TokenInv, TypeInv
    <2>2. QED
        BY <1>5, <2>1
<1>7. TypeInv'
    BY <1>1, <1>2, <1>6 DEF TypeInv, self
<1>8. TokenInv'
    <2>1. \A d \in Command : ~running'[d]
        BY <1>1, <1>2, <1>5 DEF TypeInv
    <2>2. QED
        BY <1>4, <1>5, <1>6, <2>1 DEF TokenInv, self
<1>9. QueueInv'
    <2>1. \A i \in 1 .. Len(done') : In(done'[i], pushed')
        <3>1. ASSUME NEW i \in 1 .. Len(done) + 1
              PROVE  In(done'[i], pushed)
            <4>1. CASE i \in 1 .. Len(done)
                BY <1>1, <1>2, <4>1, AppendIn DEF QueueInv, TypeInv
            <4>2. CASE i = Len(done) + 1
                BY <1>1, <1>2, <1>3, <4>2, AppendIn DEF TypeInv
            <4>3. QED
                BY <4>1, <4>2
        <3>2. Len(done') = Len(done) + 1
            BY <1>1, <1>2, AppendIn DEF TypeInv
        <3>3. QED
            BY <3>1, <3>2
    <2>2. \A d \in Command : running'[d] => connected'[d] = 1
        BY <1>1, <1>2 DEF QueueInv, TypeInv
    <2>3. QED
        BY <1>1, <2>1, <2>2 DEF QueueInv, self
<1>10. QED
    BY <1>4, <1>7, <1>8, <1>9 DEF IInv

\* A command that completes inside anjuta_command_start.
LEMMA CompleteInStartStep == ASSUME IInv, CompleteInStart PROVE IInv'
<1>1. TypeInv /\ StackInv /\ TokenInv
    BY DEF IInv
<1>2. /\ Head(stack) \in Frame /\ Head(stack).fn = "start" /\ stack # <<>>
      /\ Tail(stack) \in Seq(Frame) /\ Quiet(Tail(stack)) /\ LiveTop
    BY <1>1 DEF CompleteInStart, Top, TypeInv, StackInv, LiveTop, Live
<1>3. Head(stack).cmd \in Command
    BY <1>2, FrameFields
<1>4. running[Head(stack).cmd] /\ active = {}
    BY <1>1, <1>2, <1>3 DEF TokenInv, Top
<1>5. active' = active \ {Head(stack).cmd}
    BY <1>4 DEF CompleteInStart
<1>6. QED
    BY <1>2, <1>3, <1>4, <1>5, EmitStep DEF CompleteInStart

\* A command whose thread or child has finished.
LEMMA CompleteStep ==
    ASSUME IInv, NEW c \in Command, Complete(c)
    PROVE  IInv'
<1>1. TypeInv /\ StackInv /\ TokenInv
    BY DEF IInv
<1>2. stack = <<>> /\ c \in active /\ ~Top("start") /\ stack \in Seq(Frame)
    BY <1>1 DEF Complete, Top, TypeInv
<1>3. Quiet(stack) /\ running[c]
    BY <1>1, <1>2, QuietEmpty DEF TokenInv
<1>4. QED
    BY <1>2, <1>3, EmitStep DEF Complete

\* Starting a command when no other is at work: it takes the token.
LEMMA TakeToken ==
    ASSUME IInv, NEW c \in Command, NEW r \in Seq(Frame), Quiet(r),
           ConnectAndStart(c, r), connected[c] = 0, active = {},
           ~Top("start"), active' = active, busy' = TRUE
    PROVE  /\ ~running[c] /\ \A d \in Command : ~running[d]
           /\ running' = [running EXCEPT ![c] = TRUE]
           /\ connected' = [connected EXCEPT ![c] = @ + 1]
           /\ running' \in [Command -> BOOLEAN]
           /\ connected' \in [Command -> Nat]
           /\ stack' \in Seq(Frame)
           /\ StackInv' /\ TokenInv'
           /\ \A d \in Command : running'[d] => connected'[d] = 1
<1>1. TypeInv /\ StackInv /\ TokenInv /\ QueueInv
    BY DEF IInv
<1>2. \A d \in Command : ~running[d]
    BY <1>1 DEF TokenInv
<1>3. /\ stack' \in Seq(Frame) /\ stack' # <<>>
      /\ Head(stack') = Starting(c) /\ Tail(stack') = r
      /\ running' = [running EXCEPT ![c] = TRUE]
      /\ connected' = [connected EXCEPT ![c] = @ + 1]
      /\ running' \in [Command -> BOOLEAN]
      /\ connected' \in [Command -> Nat]
    BY <1>1, <1>2, Started
<1>4. StackInv' /\ LiveTop' /\ Top("start")' /\ Head(stack').cmd = c
    BY <1>3, StartStack
<1>5. \A d \in Command : running'[d] <=> d = c
    BY <1>1, <1>2, <1>3 DEF TypeInv
<1>6. TokenInv'
    BY <1>4, <1>5 DEF TokenInv
<1>7. connected'[c] = 1
    BY <1>1, <1>3 DEF TypeInv
<1>8. QED
    BY <1>2, <1>3, <1>4, <1>5, <1>6, <1>7

\* Taking the head of the queue leaves a queue of unconnected commands.
LEMMA PopQueue ==
    ASSUME IInv, queue # <<>>, queue' = Tail(queue),
           connected' = [connected EXCEPT ![Head(queue)] = @ + 1],
           \A d \in Command : running'[d] => connected'[d] = 1,
           busy' = TRUE, UNCHANGED <<pushed, done>>
    PROVE  QueueInv'
<1>1. TypeInv /\ QueueInv
    BY DEF IInv
<1>2. /\ Head(queue) \in Command /\ Head(queue) = queue[1]
      /\ 1 \in 1 .. Len(queue)
      /\ Tail(queue) \in Seq(Command) /\ Len(Tail(queue)) = Len(queue) - 1
      /\ \A i \in 1 .. Len(queue) - 1 :
             Tail(queue)[i] = queue[i + 1] /\ i + 1 \in 2 .. Len(queue)
    BY <1>1, TailAt DEF TypeInv
<1>3. \A i \in 1 .. Len(queue) : queue[i] \in Command
    BY <1>1 DEF TypeInv
<1>4. ASSUME NEW i \in 1 .. Len(queue')
      PROVE  connected'[queue'[i]] = 0 /\ In(queue'[i], pushed')
    <2>1. queue'[i] = queue[i + 1] /\ i + 1 \in 2 .. Len(queue)
        BY <1>2, <1>4
    <2>2. queue[i + 1] # queue[1] /\ i + 1 \in 1 .. Len(queue)
        BY <1>1, <1>2, <2>1 DEF QueueInv
    <2>3. connected[queue[i + 1]] = 0 /\ In(queue[i + 1], pushed)
        BY <1>1, <2>2 DEF QueueInv
    <2>4. QED
        BY <1>1, <1>2, <1>3, <2>1, <2>2, <2>3 DEF TypeInv
<1>5. ASSUME NEW i \in 1 .. Len(queue'), NEW j \in 1 .. Len(queue'),
             queue'[i] = queue'[j]
      PROVE  i = j
    <2>1. /\ queue'[i] = queue[i + 1] /\ i + 1 \in 1 .. Len(queue)
          /\ queue'[j] = queue[j + 1] /\ j + 1 \in 1 .. Len(queue)
          /\ i \in Nat /\ j \in Nat
        BY <1>2, <1>5
    <2>2. i + 1 = j + 1
        BY <1>1, <1>5, <2>1 DEF QueueInv
    <2>3. QED
        BY <2>1, <2>2
<1>6. ASSUME NEW d \in Command, ~In(d, pushed')
      PROVE  connected'[d] = 0
    <2>1. In(Head(queue), pushed)
        BY <1>1, <1>2 DEF QueueInv
    <2>2. d # Head(queue) /\ connected[d] = 0
        BY <1>1, <1>6, <2>1 DEF QueueInv
    <2>3. QED
        BY <1>1, <1>2, <2>2 DEF TypeInv
<1>7. \A i \in 1 .. Len(done') : In(done'[i], pushed')
    BY <1>1 DEF QueueInv
<1>8. QED
    BY <1>4, <1>5, <1>6, <1>7 DEF QueueInv

\* on_command_finished hands the token to the next command.
LEMMA StartNextStep == ASSUME IInv, StartNext PROVE IInv'
<1> DEFINE c == Head(queue)
           r == <<Releasing(c)>> \o Called
<1>1. TypeInv /\ StackInv /\ TokenInv /\ QueueInv
    BY DEF IInv
<1>2. /\ Top("emit") /\ Head(stack).stage = "queue" /\ Head(stack).left > 0
      /\ queue # <<>> /\ queue' = Tail(queue) /\ ConnectAndStart(c, r)
      /\ UNCHANGED <<mode, busy, alive, owned, held, active, hist>>
    BY DEF StartNext
<1>3. Called \in Seq(Frame) /\ Quiet(Called)
    BY <1>1, <1>2, CalledQuiet
<1>4. c \in Command /\ connected[c] = 0 /\ queue' \in Seq(Command)
    <2>1. c \in Command /\ c = queue[1] /\ 1 \in 1 .. Len(queue)
          /\ Tail(queue) \in Seq(Command)
        BY <1>1, <1>2, TailAt DEF TypeInv
    <2>2. QED
        BY <1>1, <1>2, <2>1 DEF QueueInv
<1>5. Releasing(c) \in Frame /\ ~Live(Releasing(c))
    BY <1>1, <1>4, FrameTypes DEF TypeInv, Releasing, Live
<1>6. r \in Seq(Frame) /\ Quiet(r)
    BY <1>3, <1>5, Call, QuietCall
<1>7. LiveTop /\ ~Top("start") /\ active = {} /\ busy
    BY <1>1, <1>2 DEF LiveTop, Live, Top, TokenInv
<1> HIDE DEF r
<1>8. /\ connected' = [connected EXCEPT ![c] = @ + 1]
      /\ running' \in [Command -> BOOLEAN] /\ connected' \in [Command -> Nat]
      /\ stack' \in Seq(Frame)
      /\ StackInv' /\ TokenInv'
      /\ \A d \in Command : running'[d] => connected'[d] = 1
    BY <1>2, <1>4, <1>6, <1>7, TakeToken
<1>9. TypeInv'
    BY <1>1, <1>2, <1>4, <1>8 DEF TypeInv, hist
<1>10. QueueInv'
    BY <1>2, <1>7, <1>8, PopQueue DEF hist
<1>11. QED
    BY <1>8, <1>9, <1>10 DEF IInv

\* anjuta_command_queue_start gives the idle queue its token.
LEMMA StartStep == ASSUME IInv, Start PROVE IInv'
<1> DEFINE c == Head(queue)
<1>1. TypeInv /\ StackInv /\ TokenInv /\ QueueInv
    BY DEF IInv
<1>2. /\ stack = <<>> /\ ~busy /\ queue # <<>> /\ queue' = Tail(queue)
      /\ busy' = TRUE /\ ConnectAndStart(c, stack)
      /\ UNCHANGED <<mode, alive, owned, held, active, hist>>
    BY DEF Start
<1>3. c \in Command /\ connected[c] = 0 /\ queue' \in Seq(Command)
    <2>1. c \in Command /\ c = queue[1] /\ 1 \in 1 .. Len(queue)
          /\ Tail(queue) \in Seq(Command)
        BY <1>1, <1>2, TailAt DEF TypeInv
    <2>2. QED
        BY <1>1, <1>2, <2>1 DEF QueueInv
<1>4. stack \in Seq(Frame) /\ Quiet(stack) /\ active = {} /\ ~Top("start")
    BY <1>1, <1>2, QuietEmpty DEF TypeInv, TokenInv, Top
<1>5. /\ connected' = [connected EXCEPT ![c] = @ + 1]
      /\ running' \in [Command -> BOOLEAN] /\ connected' \in [Command -> Nat]
      /\ stack' \in Seq(Frame)
      /\ StackInv' /\ TokenInv'
      /\ \A d \in Command : running'[d] => connected'[d] = 1
    BY <1>2, <1>3, <1>4, TakeToken
<1>6. TypeInv'
    BY <1>1, <1>2, <1>3, <1>5 DEF TypeInv, hist
<1>7. QueueInv'
    BY <1>2, <1>5, PopQueue DEF hist
<1>8. QED
    BY <1>5, <1>6, <1>7 DEF IInv

\* A push that finds an idle automatic queue starts its command.
LEMMA PushIdleStep ==
    ASSUME IInv, NEW c \in Command, Push(c), mode = "AUTOMATIC", ~busy
    PROVE  IInv'
<1>1. TypeInv /\ StackInv /\ TokenInv /\ QueueInv
    BY DEF IInv
<1>2. /\ ~In(c, pushed) /\ pushed' = Append(pushed, c)
      /\ busy' = TRUE /\ ConnectAndStart(c, stack)
      /\ UNCHANGED <<queue, held, mode, alive, owned, active, done, announced>>
    BY DEF Push
<1>3. active = {} /\ ~LiveTop
    BY <1>1 DEF TokenInv
<1>4. stack = <<>>
    BY <1>3 DEF Push, Top, LiveTop, Live
<1>5. stack \in Seq(Frame) /\ Quiet(stack) /\ ~Top("start") /\ connected[c] = 0
    BY <1>1, <1>2, <1>4, QuietEmpty DEF TypeInv, Top, QueueInv
<1>6. /\ connected' = [connected EXCEPT ![c] = @ + 1]
      /\ running' \in [Command -> BOOLEAN] /\ connected' \in [Command -> Nat]
      /\ stack' \in Seq(Frame)
      /\ StackInv' /\ TokenInv'
      /\ \A d \in Command : running'[d] => connected'[d] = 1
    BY <1>2, <1>3, <1>5, TakeToken
<1>7. /\ pushed' \in Seq(Command)
      /\ \A d \in Command : In(d, pushed') <=> In(d, pushed) \/ d = c
    BY <1>1, <1>2, AppendIn DEF TypeInv
<1>8. TypeInv'
    BY <1>1, <1>2, <1>6, <1>7 DEF TypeInv
<1>9. QueueInv'
    <2>1. queue = <<>> /\ Len(queue') = 0 /\ queue' = <<>>
        BY <1>1, <1>2 DEF QueueInv
    <2>2. \A i \in 1 .. Len(done') : done'[i] \in Command /\ In(done'[i], pushed')
        BY <1>1, <1>2, <1>7 DEF QueueInv, TypeInv
    <2>3. \A d \in Command : ~In(d, pushed') => connected'[d] = 0
        BY <1>1, <1>6, <1>7 DEF QueueInv, TypeInv
    <2>4. QED
        BY <1>6, <2>1, <2>2, <2>3 DEF QueueInv
<1>10. QED
    BY <1>6, <1>8, <1>9 DEF IInv

\* Any other push only queues its command.
LEMMA PushQueueStep ==
    ASSUME IInv, NEW c \in Command, Push(c), mode = "MANUAL" \/ busy
    PROVE  IInv'
<1>1. TypeInv /\ StackInv /\ TokenInv /\ QueueInv
    BY DEF IInv
<1>2. /\ ~In(c, pushed) /\ pushed' = Append(pushed, c)
      /\ queue' = Append(queue, c) /\ held' = [held EXCEPT ![c] = @ + 1]
      /\ UNCHANGED <<busy, running, connected, stack, mode, alive, owned,
                     active, done, announced>>
    BY <1>1, ConstantsAssumption DEF Push, TypeInv
<1>3. /\ pushed' \in Seq(Command)
      /\ \A d \in Command : In(d, pushed') <=> In(d, pushed) \/ d = c
    BY <1>1, <1>2, AppendIn DEF TypeInv
<1>4. /\ queue' \in Seq(Command) /\ Len(queue') = Len(queue) + 1
      /\ \A i \in 1 .. Len(queue) : queue'[i] = queue[i]
      /\ queue'[Len(queue) + 1] = c
    BY <1>1, <1>2, AppendIn DEF TypeInv
<1>5. TypeInv'
    BY <1>1, <1>2, <1>3, <1>4 DEF TypeInv
<1>6. StackInv'
    BY <1>1, <1>2 DEF StackInv
<1>7. TokenInv'
    BY <1>1, <1>2 DEF TokenInv, LiveTop, Top
<1>8. QueueInv'
    <2>1. connected[c] = 0 /\ Len(queue) \in Nat
        BY <1>1, <1>2 DEF QueueInv, TypeInv
    <2>2. \A i \in 1 .. Len(queue) :
              /\ queue[i] \in Command /\ connected[queue[i]] = 0
              /\ In(queue[i], pushed) /\ queue[i] # c
        BY <1>1, <1>2 DEF QueueInv, TypeInv
    <2>3. ASSUME NEW i \in 1 .. Len(queue')
          PROVE  connected'[queue'[i]] = 0 /\ In(queue'[i], pushed')
        <3>1. CASE i \in 1 .. Len(queue)
            BY <1>2, <1>3, <1>4, <2>2, <3>1
        <3>2. CASE i = Len(queue) + 1
            BY <1>2, <1>3, <1>4, <2>1, <3>2
        <3>3. QED
            BY <1>4, <2>1, <2>3, <3>1, <3>2
    <2>4. ASSUME NEW i \in 1 .. Len(queue'), NEW j \in 1 .. Len(queue'),
                 queue'[i] = queue'[j]
          PROVE  i = j
        <3>1. CASE i \in 1 .. Len(queue) /\ j \in 1 .. Len(queue)
            BY <1>1, <1>4, <2>4, <3>1 DEF QueueInv
        <3>2. CASE i = Len(queue) + 1 /\ j \in 1 .. Len(queue)
            BY <1>4, <2>2, <2>4, <3>2
        <3>3. CASE j = Len(queue) + 1 /\ i \in 1 .. Len(queue)
            BY <1>4, <2>2, <2>4, <3>3
        <3>4. QED
            BY <1>4, <2>1, <2>4, <3>1, <3>2, <3>3
    <2>5. \A i \in 1 .. Len(done') : done'[i] \in Command /\ In(done'[i], pushed')
        BY <1>1, <1>2, <1>3, SMTT(30) DEF QueueInv, TypeInv
    <2>6. \A d \in Command : ~In(d, pushed') => connected'[d] = 0
        BY <1>1, <1>2, <1>3 DEF QueueInv
    <2>7. \A d \in Command : running'[d] => connected'[d] = 1
        BY <1>1, <1>2 DEF QueueInv
    <2>8. ~(mode' = "AUTOMATIC" /\ ~busy')
        BY <1>2
    <2>9. QED
        BY <2>3, <2>4, <2>5, <2>6, <2>7, <2>8 DEF QueueInv
<1>9. QED
    BY <1>5, <1>6, <1>7, <1>8 DEF IInv

\* The two ways of a push.
LEMMA PushStep == ASSUME IInv, NEW c \in Command, Push(c) PROVE IInv'
<1>1. (mode = "AUTOMATIC" /\ ~busy) \/ mode = "MANUAL" \/ busy
    BY DEF Push
<1>2. QED
    BY <1>1, PushIdleStep, PushQueueStep

\* A step that changes nothing.
LEMMA StutterStep == ASSUME IInv, UNCHANGED vars PROVE IInv'
<1>1. UNCHANGED <<mode, queue, busy, alive, running, connected, owned, held,
                  active, stack, pushed, done, announced>>
    BY DEF vars, self, cmds, hist
<1>2. QED
    BY <1>1 DEF IInv, TypeInv, StackInv, TokenInv, QueueInv, LiveTop, Top, In

\* The inductive invariant holds of every state of the queue.
THEOREM Invariant == Spec => []IInv
<1>1. IInv /\ [Next]_vars => IInv'
    <2> SUFFICES ASSUME IInv, [Next]_vars
                 PROVE  IInv'
        OBVIOUS
    <2>1. ASSUME NEW c \in Command, Push(c) PROVE IInv'
        BY <2>1, PushStep
    <2>2. ASSUME NEW c \in Command, Complete(c) PROVE IInv'
        BY <2>2, CompleteStep
    <2>3. CASE Start
        BY <2>3, StartStep
    <2>4. CASE Return
        BY <2>4, LaunchStep, CompleteInStartStep, ClientHandlersStep,
           StartNextStep, BecomeIdleStep, ReturnStep DEF Return
    <2>5. CASE UNCHANGED vars
        BY <2>5, StutterStep
    <2>6. QED
        BY <2>1, <2>2, <2>3, <2>4, <2>5 DEF Next
<1>2. QED
    BY InitIInv, <1>1, PTL DEF Spec

\* At most one command runs.
THEOREM Exclusive == Spec => []OneAtATime
<1>1. IInv => OneAtATime
    <2> SUFFICES ASSUME IInv, NEW c \in Command, NEW d \in Command,
                        running[c], running[d]
                 PROVE  c = d
        BY DEF OneAtATime
    <2>1. Top("start") => active = {}
        BY DEF IInv, TokenInv, Top, LiveTop, Live
    <2>2. QED
        BY <2>1 DEF IInv, TokenInv
<1>2. QED
    BY Invariant, <1>1, PTL

\* Back in the main loop, busy tells whether a command is at work, and an
\* automatic queue leaves no command waiting.
THEOREM NoStall == Spec => []BusyIffWorking
<1>1. IInv => BusyIffWorking
    BY DEF IInv, TokenInv, QueueInv, LiveTop, BusyIffWorking
<1>2. QED
    BY Invariant, <1>1, PTL

-----------------------------------------------------------------------------
(* The queue implements the serial runner                                  *)

\* The current command of the runner is the one that runs.
LEMMA TheCurrent ==
    ASSUME NEW r, NEW c \in Command, \A d \in Command : r[d] <=> d = c
    PROVE  (IF \E d \in Command : r[d]
            THEN CHOOSE d \in Command : r[d] ELSE none) = c
OBVIOUS

\* With the token at an emission or with an idle queue, no command runs.
LEMMA NoneRuns ==
    ASSUME IInv, active = {}, ~Top("start")
    PROVE  /\ \A c \in Command : ~running[c]
           /\ Current = none
BY DEF IInv, TokenInv, Current

\* Connecting and starting a command makes it the current one.
LEMMA StartedCurrent ==
    ASSUME IInv, NEW c \in Command, NEW r, ConnectAndStart(c, r),
           \A d \in Command : ~running[d]
    PROVE  Current' = c
<1>1. \A d \in Command : running'[d] <=> d = c
    BY DEF IInv, TypeInv, ConnectAndStart
<1>2. QED
    BY <1>1, TheCurrent DEF Current

\* A pushed command is new to the runner.
LEMMA NewCommand ==
    ASSUME IInv, NEW c \in Command, ~In(c, pushed)
    PROVE  ~Runner!Known(c)
<1>1. TypeInv /\ TokenInv /\ QueueInv
    BY DEF IInv
<1>2. connected[c] = 0 /\ ~running[c]
    BY <1>1 DEF QueueInv
<1>3. c # Current
    <2>1. CASE \E d \in Command : running[d]
        <3>1. running[Current]
            BY <2>1 DEF Current
        <3>2. QED
            BY <1>2, <3>1
    <2>2. CASE ~\E d \in Command : running[d]
        BY <2>2, ConstantsAssumption DEF Current
    <2>3. QED
        BY <2>1, <2>2
<1>4. \A i \in DOMAIN queue : queue[i] # c
    <2>1. DOMAIN queue = 1 .. Len(queue)
        BY <1>1 DEF TypeInv
    <2>2. \A i \in 1 .. Len(queue) : In(queue[i], pushed)
        BY <1>1 DEF QueueInv
    <2>3. QED
        BY <2>1, <2>2
<1>5. \A i \in DOMAIN done : done[i] # c
    <2>1. DOMAIN done = 1 .. Len(done)
        BY <1>1 DEF TypeInv
    <2>2. \A i \in 1 .. Len(done) : In(done[i], pushed)
        BY <1>1 DEF QueueInv
    <2>3. QED
        BY <2>1, <2>2
<1>6. QED
    BY <1>3, <1>4, <1>5 DEF Runner!Known

\* A push on an idle automatic queue submits a command and begins it; any other
\* push submits it.
LEMMA PushRefines ==
    ASSUME IInv, NEW c \in Command, Push(c)
    PROVE  Runner!Submit(c) \/ Runner!SubmitAndBegin(c)
<1>1. ~Runner!Known(c)
    BY NewCommand DEF Push
<1>2. CASE mode = "AUTOMATIC" /\ ~busy
    <2>1. active = {} /\ ~Top("start") /\ queue = <<>>
        BY <1>2 DEF IInv, TokenInv, QueueInv, Top, LiveTop, Live
    <2>2. ConnectAndStart(c, stack) /\ queue' = queue /\ done' = done
        BY <1>2 DEF Push
    <2>3. Current = none /\ Current' = c
        BY <2>1, <2>2, NoneRuns, StartedCurrent
    <2>4. QED
        BY <1>1, <2>1, <2>2, <2>3 DEF Runner!SubmitAndBegin
<1>3. CASE mode = "MANUAL" \/ busy
    <2>1. queue' = Append(queue, c) /\ running' = running /\ done' = done
        BY <1>3, ConstantsAssumption DEF Push, IInv, TypeInv
    <2>2. QED
        BY <1>1, <2>1 DEF Runner!Submit, Current
<1>4. QED
    BY <1>2, <1>3 DEF Push

\* Starting the head of the queue begins it.
LEMMA StartRefines == ASSUME IInv, Start \/ StartNext PROVE Runner!Begin
<1> DEFINE c == Head(queue)
<1>1. active = {} /\ ~Top("start")
    BY DEF IInv, TokenInv, Top, LiveTop, Live, Start, StartNext
<1>2. /\ queue # <<>> /\ queue' = Tail(queue) /\ done' = done
      /\ \E r : ConnectAndStart(c, r)
    BY DEF Start, StartNext, hist
<1>3. c \in Command
    BY <1>2, TailAt DEF IInv, TypeInv
<1>4. Current = none /\ Current' = c
    BY <1>1, <1>2, <1>3, NoneRuns, StartedCurrent
<1>5. QED
    BY <1>2, <1>4 DEF Runner!Begin

\* A completion ends the current command.
LEMMA EmitRefines ==
    ASSUME IInv, NEW c \in Command, NEW r, Emit(c, r), running[c],
           queue' = queue
    PROVE  Runner!End
<1>1. \A d \in Command : running[d] <=> d = c
    <2>1. \A d \in Command : running[d] => d = c
        BY DEF IInv, TokenInv, Top, LiveTop, Live
    <2>2. QED
        BY <2>1
<1>2. Current = c
    BY <1>1, TheCurrent DEF Current
<1>3. \A d \in Command : ~running'[d]
    BY <1>1 DEF IInv, TypeInv, Emit
<1>4. Current' = none
    BY <1>3 DEF Current
<1>5. c # none
    BY ConstantsAssumption
<1>6. QED
    BY <1>2, <1>4, <1>5 DEF Runner!End, Emit

\* Every behaviour of the queue is a behaviour of the serial runner: commands
\* begin in the order they were pushed, one at a time, each exactly once.
THEOREM Implements == Spec => SerialExecution
<1>1. Init => Runner!Init
    BY DEF Init, Runner!Init, Current
<1>2. IInv /\ [Next]_vars => [Runner!Next]_(Runner!vars)
    <2> SUFFICES ASSUME IInv, [Next]_vars
                 PROVE  Runner!Next \/ UNCHANGED <<queue, Current, done>>
        BY DEF Runner!vars
    <2>1. ASSUME NEW c \in Command, Push(c) PROVE Runner!Next
        BY <2>1, PushRefines DEF Runner!Next
    <2>2. ASSUME NEW c \in Command, Complete(c) PROVE Runner!Next
        <3>1. running[c] /\ Emit(c, stack) /\ queue' = queue
            BY <2>2 DEF IInv, TokenInv, Complete, self
        <3>2. QED
            BY <3>1, EmitRefines DEF Runner!Next
    <2>3. CASE Start \/ StartNext
        BY <2>3, StartRefines DEF Runner!Next
    <2>4. CASE CompleteInStart
        <3>1. Head(stack) \in Frame /\ Head(stack).fn = "start"
            BY <2>4 DEF CompleteInStart, Top, IInv, TypeInv
        <3>2. Head(stack).cmd \in Command
            BY <3>1, FrameFields
        <3>3. running[Head(stack).cmd]
            BY <2>4, <3>2 DEF CompleteInStart, IInv, TokenInv, Top
        <3>4. QED
            BY <2>4, <3>2, <3>3, EmitRefines
               DEF CompleteInStart, self, Runner!Next
    <2>5. CASE Launch \/ ClientHandlers \/ BecomeIdle \/ EndEmission
               \/ ReleaseNext \/ Announce
        <3>1. UNCHANGED <<queue, running, done>>
            BY <2>5 DEF Launch, ClientHandlers, BecomeIdle, EndEmission,
               ReleaseNext, Announce, self, cmds, hist
        <3>2. QED
            BY <3>1 DEF Current
    <2>6. CASE UNCHANGED vars
        BY <2>6 DEF vars, self, cmds, hist, Current
    <2>7. QED
        BY <2>1, <2>2, <2>3, <2>4, <2>5, <2>6 DEF Next, Return
<1>3. QED
    BY Invariant, <1>1, <1>2, PTL DEF Spec, Runner!Spec, SerialExecution

-----------------------------------------------------------------------------
(* The references on the commands, and the life of the queue               *)

\* What a call in progress needs, with h references held by the queue and k
\* handlers connected.
FrameOK(f, h, k) ==
    /\ f.fn = "unref" => h[f.cmd] >= 1 /\ k[f.cmd] >= 1
    /\ f.fn = "emit" => k[f.cmd] >= 1 /\ f.stage \in {"clients", "queue"}

\* The calls of a stack; only the innermost can be an announcement, and each
\* call of on_command_finished drops a reference of its own.
HeldFor(s, h, k) ==
    /\ \A i \in 1 .. Len(s) : FrameOK(s[i], h, k)
    /\ \A i, j \in 1 .. Len(s) :
           s[i].fn = "unref" /\ s[j].fn = "unref" /\ s[i].cmd = s[j].cmd => i = j
    /\ \A i \in 2 .. Len(s) : s[i].fn # "finished"

\* A client drops its reference when its command has run; until then the queue
\* holds one for each place where it has the command.
RefInv ==
    /\ HeldFor(stack, held, connected)
    /\ \A c \in Command : held[c] >= 0
    /\ \A i \in 1 .. Len(queue) : held[queue[i]] >= 1
    /\ \A c \in Command : c \notin owned => ~running[c] /\ connected[c] >= 1

\* The queue is dropped where nothing is left to do.
AliveInv ==
    /\ ~alive => ~busy /\ queue = <<>>
    /\ Top("finished") => alive /\ ~busy /\ queue = <<>>
    /\ announced = IF alive THEN 0 ELSE 1

\* Every command pushed is waiting, at work or done.
CountInv ==
    Len(pushed) = Len(done) + Len(queue)
                      + (IF active # {} \/ Top("start") THEN 1 ELSE 0)

LifeInv == RefInv /\ AliveInv /\ CountInv

\* No announcement is in progress.
Calm(s) == \A i \in 1 .. Len(s) : s[i].fn # "finished"

\* Returning from the innermost call.
LEMMA HeldTail ==
    ASSUME NEW s \in Seq(Frame), s # <<>>, NEW h, NEW k, HeldFor(s, h, k)
    PROVE  /\ Tail(s) \in Seq(Frame) /\ Head(s) \in Frame
           /\ HeldFor(Tail(s), h, k) /\ Calm(Tail(s))
           /\ FrameOK(Head(s), h, k)
           /\ Head(s).fn = "unref" =>
                  \A i \in 1 .. Len(Tail(s)) :
                      ~(Tail(s)[i].fn = "unref" /\ Tail(s)[i].cmd = Head(s).cmd)
<1>1. Head(s) = s[1] /\ 1 \in 1 .. Len(s) /\ Tail(s) \in Seq(Frame) /\ Head(s) \in Frame
    OBVIOUS
<1>2. Len(Tail(s)) = Len(s) - 1 /\ Len(s) \in Nat
    OBVIOUS
<1>3. \A i \in 1 .. Len(s) - 1 :
          Tail(s)[i] = s[i + 1] /\ i + 1 \in 1 .. Len(s) /\ i + 1 \in 2 .. Len(s)
    OBVIOUS
<1>4. HeldFor(Tail(s), h, k)
    <2>1. \A i \in 1 .. Len(Tail(s)) : FrameOK(Tail(s)[i], h, k)
        BY <1>2, <1>3 DEF HeldFor
    <2>2. ASSUME NEW i \in 1 .. Len(Tail(s)), NEW j \in 1 .. Len(Tail(s)),
                 Tail(s)[i].fn = "unref", Tail(s)[j].fn = "unref",
                 Tail(s)[i].cmd = Tail(s)[j].cmd
          PROVE  i = j
        <3>1. i + 1 = j + 1
            BY <1>2, <1>3, <2>2 DEF HeldFor
        <3>2. QED
            BY <1>2, <3>1
    <2>3. \A i \in 2 .. Len(Tail(s)) : Tail(s)[i].fn # "finished"
        BY <1>2, <1>3 DEF HeldFor
    <2>4. QED
        BY <2>1, <2>2, <2>3 DEF HeldFor
<1>5. Calm(Tail(s))
    BY <1>2, <1>3 DEF HeldFor, Calm
<1>6. FrameOK(Head(s), h, k)
    BY <1>1 DEF HeldFor
<1>7. ASSUME Head(s).fn = "unref", NEW i \in 1 .. Len(Tail(s)),
             Tail(s)[i].fn = "unref", Tail(s)[i].cmd = Head(s).cmd
      PROVE  FALSE
    <2>1. i + 1 = 1
        BY <1>1, <1>2, <1>3, <1>7 DEF HeldFor
    <2>2. QED
        BY <1>2, <2>1
<1>8. QED
    BY <1>1, <1>4, <1>5, <1>6, <1>7

\* Calling f from calm calls.
LEMMA HeldCall ==
    ASSUME NEW s \in Seq(Frame), NEW f \in Frame, NEW h, NEW k, HeldFor(s, h, k),
           FrameOK(f, h, k), Calm(s),
           f.fn = "unref" =>
               \A i \in 1 .. Len(s) : ~(s[i].fn = "unref" /\ s[i].cmd = f.cmd)
    PROVE  /\ HeldFor(<<f>> \o s, h, k)
           /\ f.fn # "finished" => Calm(<<f>> \o s)
<1> DEFINE t == <<f>> \o s
<1>1. Len(t) = Len(s) + 1 /\ t[1] = f /\ Len(s) \in Nat
    OBVIOUS
<1>2. ASSUME NEW i \in 2 .. Len(s) + 1
      PROVE  t[i] = s[i - 1]
    OBVIOUS
<1> HIDE DEF t
<1>3. \A i \in 1 .. Len(t) : i = 1 \/ (i \in 2 .. Len(s) + 1 /\ i - 1 \in 1 .. Len(s))
    BY <1>1
<1>4. ASSUME NEW i \in 1 .. Len(t) PROVE FrameOK(t[i], h, k)
    BY <1>1, <1>2, <1>3, <1>4 DEF HeldFor
<1>5. ASSUME NEW i \in 1 .. Len(t), NEW j \in 1 .. Len(t),
             t[i].fn = "unref", t[j].fn = "unref", t[i].cmd = t[j].cmd
      PROVE  i = j
    <2>1. CASE i = 1 /\ j = 1
        BY <2>1
    <2>2. CASE i = 1 /\ j # 1
        BY <1>1, <1>2, <1>3, <1>5, <2>2
    <2>3. CASE i # 1 /\ j = 1
        BY <1>1, <1>2, <1>3, <1>5, <2>3
    <2>4. CASE i # 1 /\ j # 1
        <3>1. i - 1 = j - 1
            BY <1>2, <1>3, <1>5, <2>4 DEF HeldFor
        <3>2. QED
            BY <1>1, <3>1
    <2>5. QED
        BY <2>1, <2>2, <2>3, <2>4
<1>6. \A i \in 2 .. Len(t) : t[i].fn # "finished"
    BY <1>1, <1>2, <1>3 DEF Calm
<1>7. f.fn # "finished" => Calm(t)
    BY <1>1, <1>2, <1>3 DEF Calm
<1>8. QED
    BY <1>4, <1>5, <1>6, <1>7 DEF HeldFor, t

\* More handlers, and as many references where they are needed.
LEMMA HeldMore ==
    ASSUME NEW s \in Seq(Frame), NEW h \in [Command -> Int], NEW k \in [Command -> Nat],
           NEW h2 \in [Command -> Int], NEW k2 \in [Command -> Nat],
           HeldFor(s, h, k),
           \A c \in Command : k2[c] >= k[c],
           \A i \in 1 .. Len(s) : s[i].fn = "unref" => h2[s[i].cmd] >= h[s[i].cmd]
    PROVE  HeldFor(s, h2, k2)
<1>1. ASSUME NEW i \in 1 .. Len(s) PROVE FrameOK(s[i], h2, k2)
    <2>1. s[i] \in Frame /\ FrameOK(s[i], h, k)
        BY DEF HeldFor
    <2>2. CASE s[i].fn \in {"unref", "emit"}
        <3>1. s[i].cmd \in Command
            BY <2>1, <2>2, FrameFields
        <3>2. k2[s[i].cmd] >= k[s[i].cmd] /\ k2[s[i].cmd] \in Nat /\ k[s[i].cmd] \in Nat
              /\ h2[s[i].cmd] \in Int /\ h[s[i].cmd] \in Int
            BY <3>1
        <3>3. s[i].fn = "unref" => h2[s[i].cmd] >= h[s[i].cmd]
            OBVIOUS
        <3>4. QED
            BY <2>1, <3>2, <3>3 DEF FrameOK
    <2>3. CASE s[i].fn \notin {"unref", "emit"}
        BY <2>3 DEF FrameOK
    <2>4. QED
        BY <2>2, <2>3
<1>2. QED
    BY <1>1 DEF HeldFor

\* What is on top of calm calls is no announcement.
LEMMA CalmTop ==
    ASSUME NEW s \in Seq(Frame), Calm(s), s # <<>>
    PROVE  Head(s).fn # "finished"
<1>1. Head(s) = s[1] /\ 1 \in 1 .. Len(s)
    OBVIOUS
<1>2. QED
    BY <1>1 DEF Calm

\* The calls below an announcement, and any innermost call that is none, are
\* calm.
LEMMA HeldCalm ==
    ASSUME NEW s \in Seq(Frame), s # <<>>, NEW h, NEW k, HeldFor(s, h, k),
           Head(s).fn # "finished"
    PROVE  Calm(s)
<1>1. Head(s) = s[1] /\ \A i \in 1 .. Len(s) : i = 1 \/ i \in 2 .. Len(s)
    OBVIOUS
<1>2. QED
    BY <1>1 DEF HeldFor, Calm

\* A new queue has used nothing.
LEMMA InitLife == Init => LifeInv
<1> SUFFICES ASSUME Init
             PROVE  LifeInv
    OBVIOUS
<1>1. HeldFor(stack, held, connected)
    BY DEF Init, HeldFor
<1>2. RefInv
    BY <1>1 DEF Init, RefInv
<1>3. AliveInv /\ CountInv
    BY DEF Init, AliveInv, CountInv, Top
<1>4. QED
    BY <1>2, <1>3 DEF LifeInv

\* The command at work is the one the innermost call started.
LEMMA LaunchLife == ASSUME IInv, LifeInv, Launch PROVE LifeInv'
<1>1. TypeInv /\ StackInv /\ TokenInv /\ RefInv /\ AliveInv /\ CountInv
    BY DEF IInv, LifeInv
<1>2. stack \in Seq(Frame) /\ stack # <<>> /\ stack' = Tail(stack) /\ Top("start")
    BY <1>1 DEF Launch, Top, TypeInv
<1>3. HeldFor(stack, held, connected)
    BY <1>1 DEF RefInv
<1>4. stack' \in Seq(Frame) /\ HeldFor(stack', held, connected) /\ Calm(stack')
    BY <1>2, <1>3, HeldTail
<1>5. UNCHANGED <<mode, queue, busy, alive, running, connected, owned, held,
                  pushed, done, announced>>
    BY DEF Launch, self, hist
<1>6. RefInv'
    BY <1>1, <1>4, <1>5 DEF RefInv
<1>7. AliveInv'
    BY <1>1, <1>4, <1>5, CalmTop DEF AliveInv, Top
<1>8. CountInv'
    <2>1. active' # {}
        BY DEF Launch
    <2>2. QED
        BY <1>1, <1>2, <1>5, <2>1 DEF CountInv
<1>9. QED
    BY <1>6, <1>7, <1>8 DEF LifeInv

\* A call that returns moves no command.
LEMMA ReturnCount ==
    ASSUME IInv, LifeInv, EndEmission \/ ReleaseNext \/ Announce
    PROVE  CountInv'
<1>1. TypeInv /\ StackInv /\ CountInv
    BY DEF IInv, LifeInv
<1>2. stack # <<>> /\ stack' = Tail(stack) /\ ~Top("start")
    BY DEF EndEmission, ReleaseNext, Announce, Top
<1>3. ~Top("start")'
    BY <1>1, <1>2, ReturnStack
<1>4. UNCHANGED <<queue, active, pushed, done>>
    BY DEF EndEmission, ReleaseNext, Announce, self, cmds, hist
<1>5. QED
    BY <1>1, <1>2, <1>3, <1>4 DEF CountInv

\* An emission that has called all its handlers.
LEMMA EndEmissionLife == ASSUME IInv, LifeInv, EndEmission PROVE LifeInv'
<1>1. TypeInv /\ RefInv /\ AliveInv
    BY DEF IInv, LifeInv
<1>2. stack \in Seq(Frame) /\ stack # <<>> /\ stack' = Tail(stack)
    BY <1>1 DEF EndEmission, Top, TypeInv
<1>3. HeldFor(stack, held, connected)
    BY <1>1 DEF RefInv
<1>4. stack' \in Seq(Frame) /\ HeldFor(stack', held, connected) /\ Calm(stack')
    BY <1>2, <1>3, HeldTail
<1>5. UNCHANGED <<mode, queue, busy, alive, running, connected, owned, held,
                  active, pushed, done, announced>>
    BY DEF EndEmission, self, cmds, hist
<1>6. RefInv'
    BY <1>1, <1>4, <1>5 DEF RefInv
<1>7. AliveInv'
    BY <1>1, <1>4, <1>5, CalmTop DEF AliveInv, Top
<1>8. QED
    BY <1>6, <1>7, ReturnCount DEF LifeInv

\* The reference of a queued command is not the one that is dropped: a queued
\* command has no handler connected.
LEMMA ReleaseNextLife == ASSUME IInv, LifeInv, ReleaseNext PROVE LifeInv'
<1> DEFINE c == Head(stack).cmd
<1>1. TypeInv /\ QueueInv /\ RefInv /\ AliveInv
    BY DEF IInv, LifeInv
<1>2. /\ stack \in Seq(Frame) /\ stack # <<>> /\ stack' = Tail(stack)
      /\ Head(stack).fn = "unref" /\ held' = [held EXCEPT ![c] = @ - 1]
    BY <1>1 DEF ReleaseNext, Top, TypeInv
<1>3. HeldFor(stack, held, connected)
    BY <1>1 DEF RefInv
<1>4. /\ stack' \in Seq(Frame) /\ Head(stack) \in Frame
      /\ HeldFor(stack', held, connected) /\ Calm(stack')
      /\ FrameOK(Head(stack), held, connected)
      /\ \A i \in 1 .. Len(stack') :
             ~(stack'[i].fn = "unref" /\ stack'[i].cmd = c)
    BY <1>2, <1>3, HeldTail
<1>5. c \in Command /\ held[c] >= 1 /\ connected[c] >= 1
    BY <1>2, <1>4, FrameFields DEF FrameOK
<1>6. UNCHANGED <<mode, queue, busy, alive, running, connected, owned,
                  active, pushed, done, announced>>
    BY DEF ReleaseNext, self, hist
<1>7. held \in [Command -> Int] /\ connected \in [Command -> Nat]
      /\ held' \in [Command -> Int]
      /\ \A d \in Command : held'[d] = IF d = c THEN held[d] - 1 ELSE held[d]
    <2>1. held \in [Command -> Int] /\ connected \in [Command -> Nat]
        BY <1>1 DEF TypeInv
    <2>2. held' = [held EXCEPT ![c] = @ - 1]
        BY <1>2
    <2> HIDE DEF c
    <2>3. QED
        BY <1>5, <2>1, <2>2
<1>8. HeldFor(stack', held', connected)
    <2>1. ASSUME NEW i \in 1 .. Len(stack'), stack'[i].fn = "unref"
          PROVE  held'[stack'[i].cmd] >= held[stack'[i].cmd]
        <3>1. stack'[i].cmd \in Command
            <4>1. stack'[i] \in Frame
                BY <1>4
            <4>2. QED
                BY <2>1, <4>1, FrameFields
        <3>2. held'[stack'[i].cmd] = held[stack'[i].cmd]
            BY <1>4, <1>7, <2>1, <3>1
        <3>3. QED
            BY <1>7, <3>1, <3>2
    <2>2. \A d \in Command : connected[d] >= connected[d]
        BY <1>7
    <2>3. QED
        BY <1>4, <1>7, <2>1, <2>2, HeldMore
<1>9. \A d \in Command : held'[d] >= 0
    BY <1>1, <1>5, <1>7 DEF RefInv
<1>10. ASSUME NEW i \in 1 .. Len(queue) PROVE held'[queue[i]] >= 1
    <2>1. queue[i] \in Command /\ connected[queue[i]] = 0
        BY <1>1 DEF TypeInv, QueueInv
    <2>2. queue[i] # c
        BY <1>5, <2>1
    <2>3. QED
        BY <1>1, <1>7, <2>1, <2>2 DEF RefInv
<1>11. RefInv'
    BY <1>1, <1>6, <1>8, <1>9, <1>10 DEF RefInv
<1>12. AliveInv'
    BY <1>1, <1>4, <1>6, CalmTop DEF AliveInv, Top
<1>13. QED
    BY <1>11, <1>12, ReturnCount DEF LifeInv

\* The client drops the queue when nothing is queued: finalize drops no
\* reference.
LEMMA AnnounceLife == ASSUME IInv, LifeInv, Announce PROVE LifeInv'
<1>1. TypeInv /\ RefInv /\ AliveInv
    BY DEF IInv, LifeInv
<1>2. /\ stack \in Seq(Frame) /\ stack # <<>> /\ stack' = Tail(stack)
      /\ Top("finished") /\ announced' = announced + 1 /\ alive' = FALSE
    BY <1>1 DEF Announce, Top, TypeInv
<1>3. alive /\ ~busy /\ queue = <<>> /\ announced = 0
    BY <1>1, <1>2 DEF AliveInv
<1>4. HeldFor(stack, held, connected)
    BY <1>1 DEF RefInv
<1>5. stack' \in Seq(Frame) /\ HeldFor(stack', held, connected) /\ Calm(stack')
    BY <1>2, <1>4, HeldTail
<1>6. held' = held
    <2>1. \A c \in Command : ~In(c, queue)
        BY <1>3 DEF In
    <2>2. held' = [c \in Command |-> held[c]]
        BY <2>1 DEF Announce
    <2>3. QED
        BY <1>1, <2>2 DEF TypeInv
<1>7. UNCHANGED <<mode, queue, busy, running, connected, owned, active,
                  pushed, done>>
    BY DEF Announce
<1>8. RefInv'
    BY <1>1, <1>5, <1>6, <1>7 DEF RefInv
<1>9. AliveInv'
    <2>1. ~Top("finished")'
        BY <1>5, CalmTop DEF Top
    <2>2. announced' = 1
        BY <1>2, <1>3
    <2>3. QED
        BY <1>2, <1>3, <1>7, <2>1, <2>2 DEF AliveInv
<1>10. QED
    BY <1>8, <1>9, ReturnCount DEF LifeInv

\* No command runs while its client's handlers do.
LEMMA ClientHandlersLife == ASSUME IInv, LifeInv, ClientHandlers PROVE LifeInv'
<1> DEFINE f == Head(stack)
           g == [f EXCEPT !.stage = "queue"]
           c == f.cmd
<1>1. TypeInv /\ StackInv /\ TokenInv /\ RefInv /\ AliveInv /\ CountInv
    BY DEF IInv, LifeInv
<1>2. /\ stack \in Seq(Frame) /\ stack # <<>> /\ f.fn = "emit"
      /\ f.stage = "clients" /\ stack' = <<g>> \o Tail(stack)
    BY <1>1 DEF ClientHandlers, Top, TypeInv
<1>3. HeldFor(stack, held, connected)
    BY <1>1 DEF RefInv
<1>4. /\ Tail(stack) \in Seq(Frame) /\ f \in Frame
      /\ HeldFor(Tail(stack), held, connected) /\ Calm(Tail(stack))
      /\ FrameOK(f, held, connected)
    BY <1>2, <1>3, HeldTail
<1>5. g \in Frame /\ g.fn = "emit" /\ g.stage = "queue" /\ g.cmd = c
    BY <1>2, <1>4 DEF Frame, Announcing
<1>6. c \in Command /\ connected[c] >= 1
    BY <1>2, <1>4, FrameFields DEF FrameOK
<1>7. FrameOK(g, held, connected)
    BY <1>5, <1>6 DEF FrameOK
<1> HIDE DEF g, c
<1>8. HeldFor(stack', held, connected) /\ Head(stack') = g
    BY <1>2, <1>4, <1>5, <1>7, HeldCall, Call
<1>9. UNCHANGED <<mode, queue, busy, alive, running, connected, held, active,
                  pushed, done, announced>>
    BY DEF ClientHandlers, self, hist
<1>10. ~Top("start") /\ ~Top("start")' /\ ~Top("finished")'
    BY <1>2, <1>5, <1>8 DEF Top
<1>11. ~running[c]
    <2>1. LiveTop
        BY <1>2 DEF LiveTop, Live
    <2>2. QED
        BY <1>1, <1>6, <1>10, <2>1 DEF TokenInv
<1>12. owned' = owned \ {c}
    BY DEF ClientHandlers, c
<1>13. RefInv'
    BY <1>1, <1>6, <1>8, <1>9, <1>11, <1>12 DEF RefInv
<1>14. AliveInv'
    BY <1>1, <1>9, <1>10 DEF AliveInv
<1>15. CountInv'
    BY <1>1, <1>9, <1>10 DEF CountInv
<1>16. QED
    BY <1>13, <1>14, <1>15 DEF LifeInv

\* A completion: the command that was at work is done.
LEMMA EmitLife ==
    ASSUME IInv, LifeInv, IInv', NEW c \in Command, NEW r \in Seq(Frame),
           Emit(c, r), HeldFor(r, held, connected), Calm(r), running[c],
           UNCHANGED <<self, connected, owned, held, pushed, announced>>
    PROVE  LifeInv'
<1>1. TypeInv /\ TokenInv /\ QueueInv /\ RefInv /\ AliveInv /\ CountInv /\ TokenInv'
    BY DEF IInv, LifeInv
<1>2. /\ stack' # <<>> /\ Head(stack') = Emitting(c) /\ Tail(stack') = r
      /\ running' = [running EXCEPT ![c] = FALSE]
      /\ done' = Append(done, c)
    BY <1>1, Emitted
<1>3. Emitting(c) \in Frame /\ connected[c] = 1
    BY <1>1, FrameTypes DEF TypeInv, QueueInv
<1>4. /\ Emitting(c).fn = "emit" /\ Emitting(c).cmd = c
      /\ Emitting(c).stage = "clients"
    BY DEF Emitting
<1>5. FrameOK(Emitting(c), held, connected)
    BY <1>3, <1>4 DEF FrameOK
<1>6. HeldFor(stack', held, connected)
    <2>1. stack' = <<Emitting(c)>> \o r
        BY DEF Emit
    <2>2. QED
        BY <1>3, <1>4, <1>5, <2>1, HeldCall
<1>7. ~Top("start")' /\ ~Top("finished")' /\ LiveTop'
    BY <1>2, <1>4 DEF Top, LiveTop, Live
<1>8. active' = {}
    BY <1>1, <1>7 DEF TokenInv
<1>9. active # {} \/ Top("start")
    BY <1>1 DEF TokenInv
<1>10. UNCHANGED <<mode, queue, busy, alive, connected, owned, held, pushed,
                   announced>>
    BY DEF self
<1>11. RefInv'
    <2>1. \A d \in Command : running'[d] => running[d]
        BY <1>1, <1>2 DEF TypeInv
    <2>2. QED
        BY <1>1, <1>6, <1>10, <2>1 DEF RefInv
<1>12. AliveInv'
    BY <1>1, <1>7, <1>10 DEF AliveInv
<1>13. CountInv'
    <2>1. Len(done') = Len(done) + 1 /\ Len(done) \in Nat /\ Len(queue) \in Nat
          /\ Len(pushed) \in Nat
        BY <1>1, <1>2, AppendIn DEF TypeInv
    <2>2. Len(pushed) = Len(done) + Len(queue) + 1
        BY <1>1, <1>9 DEF CountInv
    <2>3. Len(pushed') = Len(done') + Len(queue') + 0
        BY <1>10, <2>1, <2>2
    <2>4. QED
        BY <1>7, <1>8, <2>3 DEF CountInv
<1>14. QED
    BY <1>11, <1>12, <1>13 DEF LifeInv

\* The two ways a command completes.
LEMMA CompleteInStartLife ==
    ASSUME IInv, LifeInv, CompleteInStart PROVE LifeInv'
<1>1. TypeInv /\ TokenInv /\ RefInv
    BY DEF IInv, LifeInv
<1>2. stack \in Seq(Frame) /\ stack # <<>> /\ Head(stack).fn = "start"
    BY <1>1 DEF CompleteInStart, Top, TypeInv
<1>3. HeldFor(stack, held, connected)
    BY <1>1 DEF RefInv
<1>4. /\ Tail(stack) \in Seq(Frame) /\ Head(stack) \in Frame
      /\ HeldFor(Tail(stack), held, connected) /\ Calm(Tail(stack))
    BY <1>2, <1>3, HeldTail
<1>5. Head(stack).cmd \in Command
    BY <1>2, <1>4, FrameFields
<1>6. running[Head(stack).cmd]
    BY <1>1, <1>2, <1>5 DEF TokenInv, Top
<1>7. IInv'
    BY CompleteInStartStep
<1>8. QED
    BY <1>4, <1>5, <1>6, <1>7, EmitLife DEF CompleteInStart

LEMMA CompleteLife ==
    ASSUME IInv, LifeInv, NEW c \in Command, Complete(c) PROVE LifeInv'
<1>1. TypeInv /\ TokenInv /\ RefInv
    BY DEF IInv, LifeInv
<1>2. stack = <<>> /\ stack \in Seq(Frame) /\ running[c]
    BY <1>1 DEF Complete, TypeInv, TokenInv
<1>3. HeldFor(stack, held, connected) /\ Calm(stack)
    BY <1>1, <1>2 DEF RefInv, Calm
<1>4. IInv'
    BY CompleteStep
<1>5. QED
    BY <1>2, <1>3, <1>4, EmitLife DEF Complete

\* The emission that calls on_command_finished needs what it needed before.
LEMMA CalledHeld ==
    ASSUME IInv, LifeInv, Top("emit"), Head(stack).stage = "queue",
           Head(stack).left > 0
    PROVE  /\ Called \in Seq(Frame)
           /\ HeldFor(Called, held, connected) /\ Calm(Called)
<1> DEFINE f == Head(stack)
           g == [f EXCEPT !.left = @ - 1]
<1>1. TypeInv /\ StackInv /\ RefInv
    BY DEF IInv, LifeInv
<1>2. stack \in Seq(Frame) /\ stack # <<>> /\ f.fn = "emit"
    BY <1>1 DEF Top, TypeInv
<1>3. HeldFor(stack, held, connected)
    BY <1>1 DEF RefInv
<1>4. /\ Tail(stack) \in Seq(Frame) /\ f \in Frame
      /\ HeldFor(Tail(stack), held, connected) /\ Calm(Tail(stack))
      /\ FrameOK(f, held, connected)
    BY <1>2, <1>3, HeldTail
<1>5. g \in Frame
    BY <1>2, <1>4, FrameFields
<1>6. g.fn = "emit" /\ g.stage = "queue" /\ g.cmd = f.cmd
    BY <1>2, <1>4 DEF Frame, Announcing
<1>7. FrameOK(g, held, connected)
    BY <1>2, <1>4, <1>6 DEF FrameOK
<1>8. Called = <<g>> \o Tail(stack)
    BY DEF Called
<1> HIDE DEF g
<1>9. Called \in Seq(Frame)
    BY <1>4, <1>5, <1>8, Call
<1>10. QED
    BY <1>4, <1>5, <1>6, <1>7, <1>8, <1>9, HeldCall

\* A manual queue announces that it is idle before its client may drop it.
LEMMA BecomeIdleLife == ASSUME IInv, LifeInv, BecomeIdle PROVE LifeInv'
<1>1. TypeInv /\ StackInv /\ TokenInv /\ RefInv /\ AliveInv /\ CountInv
    BY DEF IInv, LifeInv
<1>2. /\ Top("emit") /\ Head(stack).stage = "queue" /\ Head(stack).left > 0
      /\ queue = <<>> /\ busy' = FALSE
      /\ stack' = IF mode = "MANUAL" THEN <<Announcing>> \o Called ELSE Called
      /\ UNCHANGED <<mode, queue, alive, running, connected, owned, held,
                     active, pushed, done, announced>>
    BY DEF BecomeIdle, cmds, hist
<1>3. Called \in Seq(Frame) /\ HeldFor(Called, held, connected) /\ Calm(Called)
    BY <1>2, CalledHeld
<1>4. busy /\ alive /\ active = {} /\ ~Top("start")
    BY <1>1, <1>2 DEF TokenInv, LiveTop, Live, Top, AliveInv
<1>5. HeldFor(stack', held, connected)
    <2>1. Announcing \in Frame /\ Announcing.fn = "finished"
        BY DEF Frame, Announcing
    <2>2. FrameOK(Announcing, held, connected)
        BY <2>1 DEF FrameOK
    <2>3. HeldFor(<<Announcing>> \o Called, held, connected)
        BY <1>3, <2>1, <2>2, HeldCall
    <2>4. QED
        BY <1>2, <1>3, <2>3
<1>6. RefInv'
    BY <1>1, <1>2, <1>5 DEF RefInv
<1>7. AliveInv'
    BY <1>1, <1>2, <1>4 DEF AliveInv
<1>8. ~Top("start")'
    <2>1. IInv'
        BY BecomeIdleStep
    <2>2. QED
        BY <1>2, <2>1 DEF IInv, TokenInv, LiveTop, Live, Top
<1>9. CountInv'
    BY <1>1, <1>2, <1>4, <1>8 DEF CountInv
<1>10. QED
    BY <1>6, <1>7, <1>9 DEF LifeInv

\* A command that has not run is alive, and its client's handlers have not yet
\* dropped it.
LEMMA TakeLife ==
    ASSUME IInv, LifeInv, NEW c \in Command, NEW r \in Seq(Frame),
           ConnectAndStart(c, r), connected[c] = 0, active = {}, ~Top("start"),
           HeldFor(r, held, connected'), Calm(r),
           alive, busy' = TRUE, UNCHANGED <<alive, owned, held, announced>>
    PROVE  /\ HeldFor(stack', held', connected')
           /\ \A d \in Command : d \notin owned' => ~running'[d] /\ connected'[d] >= 1
           /\ AliveInv' /\ Top("start")'
<1>1. TypeInv /\ TokenInv /\ RefInv /\ AliveInv
    BY DEF IInv, LifeInv
<1>2. \A d \in Command : ~running[d]
    BY <1>1 DEF TokenInv
<1>3. /\ stack' # <<>> /\ Head(stack') = Starting(c)
      /\ running' = [running EXCEPT ![c] = TRUE]
      /\ connected' = [connected EXCEPT ![c] = @ + 1]
      /\ stack' = <<Starting(c)>> \o r
    <2>1. stack' = <<Starting(c)>> \o r
        BY <1>2 DEF ConnectAndStart
    <2>2. QED
        BY <1>1, <1>2, <2>1, Started
<1>4. Starting(c) \in Frame /\ Starting(c).fn = "start"
    BY <1>1, FrameTypes DEF TypeInv, Starting
<1>5. FrameOK(Starting(c), held, connected')
    BY <1>4 DEF FrameOK
<1>6. HeldFor(stack', held, connected')
    BY <1>3, <1>4, <1>5, HeldCall
<1>7. Top("start")' /\ ~Top("finished")'
    BY <1>3, <1>4 DEF Top
<1>8. AliveInv'
    BY <1>1, <1>7 DEF AliveInv
<1>9. ASSUME NEW d \in Command, d \notin owned'
      PROVE  ~running'[d] /\ connected'[d] >= 1
    <2>1. ~running[d] /\ connected[d] >= 1 /\ d # c
        BY <1>1, <1>9 DEF RefInv
    <2>2. running'[d] = running[d] /\ connected'[d] = connected[d]
        BY <1>1, <1>3, <2>1 DEF TypeInv
    <2>3. QED
        BY <2>1, <2>2
<1>10. held' = held
    OBVIOUS
<1>11. QED
    BY <1>6, <1>7, <1>8, <1>9, <1>10

\* The command on_command_finished starts still has the reference it took when
\* it was pushed, and only this call is to drop it.
LEMMA StartNextHeld ==
    ASSUME IInv, LifeInv, StartNext
    PROVE  LET r == <<Releasing(Head(queue))>> \o Called
           IN  /\ r \in Seq(Frame) /\ Calm(r)
               /\ HeldFor(r, held, connected')
<1> DEFINE c == Head(queue)
           r == <<Releasing(c)>> \o Called
<1>1. TypeInv /\ QueueInv /\ RefInv
    BY DEF IInv, LifeInv
<1>2. /\ Top("emit") /\ Head(stack).stage = "queue" /\ Head(stack).left > 0
      /\ queue # <<>> /\ connected' = [connected EXCEPT ![c] = @ + 1]
    BY DEF StartNext, ConnectAndStart
<1>3. Called \in Seq(Frame) /\ HeldFor(Called, held, connected) /\ Calm(Called)
    BY <1>2, CalledHeld
<1>4. c \in Command /\ c = queue[1] /\ 1 \in 1 .. Len(queue)
    BY <1>1, <1>2, TailAt DEF TypeInv
<1>5. connected[c] = 0 /\ held[c] >= 1
    BY <1>1, <1>4 DEF QueueInv, RefInv
<1> HIDE DEF c
<1>6. /\ held \in [Command -> Int] /\ connected \in [Command -> Nat]
      /\ connected' \in [Command -> Nat] /\ connected'[c] = 1
      /\ \A d \in Command : connected'[d] >= connected[d]
    BY <1>1, <1>2, <1>4, <1>5 DEF TypeInv
<1>7. HeldFor(Called, held, connected')
    <2>1. ASSUME NEW i \in 1 .. Len(Called), Called[i].fn = "unref"
          PROVE  held[Called[i].cmd] >= held[Called[i].cmd]
        <3>1. Called[i] \in Frame
            BY <1>3
        <3>2. Called[i].cmd \in Command
            BY <2>1, <3>1, FrameFields
        <3>3. QED
            BY <1>6, <3>2
    <2>2. QED
        BY <1>3, <1>6, <2>1, HeldMore
<1>8. ASSUME NEW i \in 1 .. Len(Called), Called[i].fn = "unref"
      PROVE  Called[i].cmd # c
    <2>1. FrameOK(Called[i], held, connected)
        BY <1>3 DEF HeldFor
    <2>2. connected[Called[i].cmd] >= 1
        BY <1>8, <2>1 DEF FrameOK
    <2>3. QED
        BY <1>5, <2>2
<1>9. Releasing(c) \in Frame /\ Releasing(c).fn = "unref" /\ Releasing(c).cmd = c
    BY <1>4, <1>6, FrameTypes DEF Releasing
<1>10. FrameOK(Releasing(c), held, connected')
    BY <1>5, <1>6, <1>9 DEF FrameOK
<1>11. r \in Seq(Frame)
    BY <1>3, <1>9, Call
<1>12. HeldFor(r, held, connected') /\ Calm(r)
    BY <1>3, <1>7, <1>8, <1>9, <1>10, HeldCall
<1>13. QED
    BY <1>11, <1>12 DEF c

\* Taking the head leaves the others with their references.
LEMMA PopLife ==
    ASSUME IInv, LifeInv, queue # <<>>, queue' = Tail(queue),
           UNCHANGED <<held, pushed, done>>, active = {}, ~Top("start"),
           Top("start")'
    PROVE  /\ \A i \in 1 .. Len(queue') : held'[queue'[i]] >= 1
           /\ CountInv'
<1>1. TypeInv /\ RefInv /\ CountInv
    BY DEF IInv, LifeInv
<1>2. /\ Len(Tail(queue)) = Len(queue) - 1 /\ Len(queue) \in Nat
      /\ \A i \in 1 .. Len(queue) - 1 :
             Tail(queue)[i] = queue[i + 1] /\ i + 1 \in 1 .. Len(queue)
    BY <1>1, TailAt DEF TypeInv
<1>3. \A i \in 1 .. Len(queue') : held'[queue'[i]] >= 1
    BY <1>1, <1>2 DEF RefInv
<1>4. Len(pushed) \in Nat /\ Len(done) \in Nat
    BY <1>1 DEF TypeInv
<1>5. Len(pushed) = Len(done) + Len(queue)
    BY <1>1, <1>4, <1>2 DEF CountInv
<1>6. Len(pushed') = Len(done') + Len(queue') + 1
    BY <1>2, <1>4, <1>5
<1>7. QED
    BY <1>3, <1>6 DEF CountInv

\* on_command_finished and anjuta_command_queue_start take the head of the
\* queue.
LEMMA StartNextLife == ASSUME IInv, LifeInv, StartNext PROVE LifeInv'
<1> DEFINE c == Head(queue)
           r == <<Releasing(c)>> \o Called
<1>1. TypeInv /\ TokenInv /\ QueueInv /\ RefInv /\ AliveInv
    BY DEF IInv, LifeInv
<1>2. /\ Top("emit") /\ Head(stack).stage = "queue" /\ Head(stack).left > 0
      /\ queue # <<>> /\ queue' = Tail(queue) /\ ConnectAndStart(c, r)
      /\ UNCHANGED <<mode, busy, alive, owned, held, active, pushed, done,
                     announced>>
    BY DEF StartNext, hist
<1>3. r \in Seq(Frame) /\ Calm(r) /\ HeldFor(r, held, connected')
    BY StartNextHeld
<1>4. c \in Command /\ connected[c] = 0
    <2>1. c \in Command /\ c = queue[1] /\ 1 \in 1 .. Len(queue)
        BY <1>1, <1>2, TailAt DEF TypeInv
    <2>2. QED
        BY <1>1, <2>1 DEF QueueInv
<1>5. busy /\ alive /\ active = {} /\ ~Top("start")
    BY <1>1, <1>2 DEF TokenInv, LiveTop, Live, Top, AliveInv
<1> HIDE DEF r, c
<1>6. /\ HeldFor(stack', held', connected')
      /\ \A d \in Command : d \notin owned' => ~running'[d] /\ connected'[d] >= 1
      /\ AliveInv' /\ Top("start")'
    BY <1>2, <1>3, <1>4, <1>5, TakeLife
<1>7. (\A i \in 1 .. Len(queue') : held'[queue'[i]] >= 1) /\ CountInv'
    BY <1>2, <1>5, <1>6, PopLife
<1>8. RefInv'
    BY <1>1, <1>2, <1>6, <1>7 DEF RefInv
<1>9. QED
    BY <1>6, <1>7, <1>8 DEF LifeInv

LEMMA StartLife == ASSUME IInv, LifeInv, Start PROVE LifeInv'
<1> DEFINE c == Head(queue)
<1>1. TypeInv /\ TokenInv /\ QueueInv /\ RefInv
    BY DEF IInv, LifeInv
<1>2. /\ stack = <<>> /\ ~busy /\ queue # <<>> /\ queue' = Tail(queue)
      /\ busy' = TRUE /\ ConnectAndStart(c, stack) /\ alive
      /\ UNCHANGED <<mode, alive, owned, held, active, pushed, done, announced>>
    BY DEF Start, hist
<1>3. c \in Command /\ connected[c] = 0
    <2>1. c \in Command /\ c = queue[1] /\ 1 \in 1 .. Len(queue)
        BY <1>1, <1>2, TailAt DEF TypeInv
    <2>2. QED
        BY <1>1, <2>1 DEF QueueInv
<1>4. stack \in Seq(Frame) /\ active = {} /\ ~Top("start")
    BY <1>1, <1>2 DEF TypeInv, TokenInv, Top
<1>5. HeldFor(stack, held, connected') /\ Calm(stack)
    BY <1>2 DEF HeldFor, Calm
<1> HIDE DEF c
<1>6. /\ HeldFor(stack', held', connected')
      /\ \A d \in Command : d \notin owned' => ~running'[d] /\ connected'[d] >= 1
      /\ AliveInv' /\ Top("start")'
    BY <1>2, <1>3, <1>4, <1>5, TakeLife
<1>7. (\A i \in 1 .. Len(queue') : held'[queue'[i]] >= 1) /\ CountInv'
    BY <1>2, <1>4, <1>6, PopLife
<1>8. RefInv'
    BY <1>1, <1>2, <1>6, <1>7 DEF RefInv
<1>9. QED
    BY <1>6, <1>7, <1>8 DEF LifeInv

\* A push that finds an idle automatic queue.
LEMMA PushIdleLife ==
    ASSUME IInv, LifeInv, NEW c \in Command, Push(c), mode = "AUTOMATIC", ~busy
    PROVE  LifeInv'
<1>1. TypeInv /\ TokenInv /\ QueueInv /\ RefInv /\ CountInv
    BY DEF IInv, LifeInv
<1>2. /\ ~In(c, pushed) /\ pushed' = Append(pushed, c) /\ alive
      /\ busy' = TRUE /\ ConnectAndStart(c, stack)
      /\ UNCHANGED <<queue, held, mode, alive, owned, active, done, announced>>
    BY DEF Push
<1>3. active = {} /\ ~LiveTop
    BY <1>1 DEF TokenInv
<1>4. stack = <<>>
    BY <1>3 DEF Push, Top, LiveTop, Live
<1>5. stack \in Seq(Frame) /\ ~Top("start") /\ connected[c] = 0
    BY <1>1, <1>2, <1>4 DEF TypeInv, Top, QueueInv
<1>6. HeldFor(stack, held, connected') /\ Calm(stack)
    BY <1>4 DEF HeldFor, Calm
<1>7. /\ HeldFor(stack', held', connected')
      /\ \A d \in Command : d \notin owned' => ~running'[d] /\ connected'[d] >= 1
      /\ AliveInv' /\ Top("start")'
    BY <1>2, <1>3, <1>5, <1>6, TakeLife
<1>8. RefInv'
    BY <1>1, <1>2, <1>7 DEF RefInv
<1>9. CountInv'
    <2>1. Len(pushed') = Len(pushed) + 1 /\ Len(pushed) \in Nat
          /\ Len(done) \in Nat /\ Len(queue) \in Nat
        BY <1>1, <1>2, AppendIn DEF TypeInv
    <2>2. Len(pushed) = Len(done) + Len(queue)
        BY <1>1, <1>3, <1>5, <2>1 DEF CountInv
    <2>3. Len(pushed') = Len(done') + Len(queue') + 1
        BY <1>2, <2>1, <2>2
    <2>4. QED
        BY <1>7, <2>3 DEF CountInv
<1>10. QED
    BY <1>7, <1>8, <1>9 DEF LifeInv

\* Any other push takes a reference for the queue.
LEMMA PushQueueLife ==
    ASSUME IInv, LifeInv, NEW c \in Command, Push(c), mode = "MANUAL" \/ busy
    PROVE  LifeInv'
<1>1. TypeInv /\ QueueInv /\ RefInv /\ AliveInv /\ CountInv
    BY DEF IInv, LifeInv
<1>2. /\ pushed' = Append(pushed, c) /\ alive
      /\ queue' = Append(queue, c) /\ held' = [held EXCEPT ![c] = @ + 1]
      /\ UNCHANGED <<busy, running, connected, stack, mode, alive, owned,
                     active, done, announced>>
    BY <1>1, ConstantsAssumption DEF Push, TypeInv
<1>3. /\ Len(pushed') = Len(pushed) + 1
      /\ Len(queue') = Len(queue) + 1
      /\ \A i \in 1 .. Len(queue) : queue'[i] = queue[i]
      /\ queue'[Len(queue) + 1] = c
      /\ Len(pushed) \in Nat /\ Len(done) \in Nat /\ Len(queue) \in Nat
    BY <1>1, <1>2, AppendIn DEF TypeInv
<1>4. /\ stack \in Seq(Frame)
      /\ held \in [Command -> Int] /\ held' \in [Command -> Int]
      /\ connected \in [Command -> Nat]
      /\ \A d \in Command : held'[d] >= held[d] /\ connected[d] >= connected[d]
      /\ \A d \in Command : held'[d] = IF d = c THEN held[d] + 1 ELSE held[d]
    BY <1>1, <1>2 DEF TypeInv
<1>5. HeldFor(stack', held', connected')
    <2>1. ASSUME NEW i \in 1 .. Len(stack), stack[i].fn = "unref"
          PROVE  held'[stack[i].cmd] >= held[stack[i].cmd]
        <3>1. stack[i] \in Frame
            BY <1>4
        <3>2. stack[i].cmd \in Command
            BY <2>1, <3>1, FrameFields
        <3>3. QED
            BY <1>4, <3>2
    <2>2. HeldFor(stack, held, connected)
        BY <1>1 DEF RefInv
    <2>3. HeldFor(stack, held', connected)
        BY <1>4, <2>1, <2>2, HeldMore
    <2>4. stack' = stack /\ connected' = connected
        BY <1>2
    <2>5. QED
        BY <2>3, <2>4
<1>6. \A d \in Command : held'[d] >= 0
    BY <1>1, <1>4 DEF RefInv
<1>7. ASSUME NEW i \in 1 .. Len(queue') PROVE held'[queue'[i]] >= 1
    <2>1. CASE i \in 1 .. Len(queue)
        <3>1. queue[i] \in Command /\ held[queue[i]] >= 1
            BY <1>1, <2>1 DEF TypeInv, RefInv
        <3>2. QED
            BY <1>3, <1>4, <2>1, <3>1
    <2>2. CASE i = Len(queue) + 1
        <3>1. queue'[i] = c /\ held[c] >= 0 /\ held'[c] = held[c] + 1
            BY <1>1, <1>3, <1>4, <2>2 DEF RefInv
        <3>2. QED
            BY <1>4, <3>1
    <2>3. QED
        BY <1>3, <1>7, <2>1, <2>2
<1>8. RefInv'
    BY <1>1, <1>2, <1>5, <1>6, <1>7 DEF RefInv
<1>9. AliveInv'
    <2>1. ~Top("finished") /\ ~Top("finished")'
        BY <1>2 DEF Push, Top
    <2>2. QED
        BY <1>1, <1>2, <2>1 DEF AliveInv
<1>10. CountInv'
    <2>1. UNCHANGED <<active, stack, done>>
        BY <1>2
    <2>2. Top("start")' <=> Top("start")
        BY <2>1 DEF Top
    <2> DEFINE n == IF active # {} \/ Top("start") THEN 1 ELSE 0
               m == IF active' # {} \/ Top("start")' THEN 1 ELSE 0
    <2>3. m = n /\ n \in Nat
        BY <2>1, <2>2
    <2>4. Len(pushed) = Len(done) + Len(queue) + n
        BY <1>1 DEF CountInv
    <2> HIDE DEF n, m
    <2>5. Len(pushed') = Len(done') + Len(queue') + m
        BY <1>3, <2>1, <2>3, <2>4
    <2>6. QED
        BY <2>5 DEF CountInv, m
<1>11. QED
    BY <1>8, <1>9, <1>10 DEF LifeInv

\* The references and the life of the queue, in every state.
THEOREM Lives == Spec => [](IInv /\ LifeInv)
<1>1. IInv /\ LifeInv /\ [Next]_vars => LifeInv'
    <2> SUFFICES ASSUME IInv, LifeInv, [Next]_vars
                 PROVE  LifeInv'
        OBVIOUS
    <2>1. ASSUME NEW c \in Command, Push(c) PROVE LifeInv'
        <3>1. (mode = "AUTOMATIC" /\ ~busy) \/ mode = "MANUAL" \/ busy
            BY <2>1 DEF Push
        <3>2. QED
            BY <2>1, <3>1, PushIdleLife, PushQueueLife
    <2>2. ASSUME NEW c \in Command, Complete(c) PROVE LifeInv'
        BY <2>2, CompleteLife
    <2>3. CASE Start
        BY <2>3, StartLife
    <2>4. CASE Return
        BY <2>4, LaunchLife, CompleteInStartLife, ClientHandlersLife,
           StartNextLife, BecomeIdleLife, EndEmissionLife, ReleaseNextLife,
           AnnounceLife DEF Return
    <2>5. CASE UNCHANGED vars
        <3>1. UNCHANGED <<mode, queue, busy, alive, running, connected, owned,
                          held, active, stack, pushed, done, announced>>
            BY <2>5 DEF vars, self, cmds, hist
        <3>2. QED
            BY <3>1 DEF LifeInv, RefInv, HeldFor, FrameOK, AliveInv, CountInv, Top
    <2>6. QED
        BY <2>1, <2>2, <2>3, <2>4, <2>5 DEF Next
<1>2. QED
    BY Invariant, InitLife, <1>1, PTL DEF Spec

\* The variables keep their types: in particular the queue drops no reference
\* it does not hold, because a command is unreferenced once for each time it
\* was taken from the queue, where it had been referenced.
THEOREM TypeCorrect == Spec => []TypeOK
<1>1. ASSUME IInv, LifeInv PROVE TypeOK
    <2>1. held \in [Command -> Int] /\ \A c \in Command : held[c] >= 0
        BY <1>1 DEF IInv, TypeInv, LifeInv, RefInv
    <2>2. held \in [Command -> Nat]
        BY <2>1
    <2>3. QED
        BY <1>1, <2>2 DEF IInv, TypeInv, TypeOK
<1>2. QED
    BY Lives, <1>1, PTL

\* A call below the innermost is not live.
LEMMA BelowTop ==
    ASSUME IInv, NEW i \in 1 .. Len(stack)
    PROVE  /\ stack[i] \in Frame
           /\ i = 1 => stack # <<>> /\ stack[i] = Head(stack)
           /\ i # 1 => ~Live(stack[i])
<1>1. stack \in Seq(Frame) /\ Len(stack) \in Nat
    BY DEF IInv, TypeInv
<1>2. stack[i] \in Frame /\ stack # <<>> /\ Head(stack) = stack[1]
    BY <1>1
<1>3. ASSUME i # 1 PROVE ~Live(stack[i])
    <2>1. i - 1 \in 1 .. Len(Tail(stack)) /\ Tail(stack)[i - 1] = stack[i]
        BY <1>1, <1>2, <1>3
    <2>2. Quiet(Tail(stack))
        BY <1>2 DEF IInv, StackInv
    <2>3. QED
        BY <2>1, <2>2 DEF Quiet
<1>4. QED
    BY <1>2, <1>3

\* No command and no queue is used after it has been finalized, however many
\* commands there are and however deep the calls nest.
THEOREM Alive == Spec => []NoUseAfterFree
<1>1. ASSUME IInv, LifeInv PROVE CommandsAlive
    <2>1. TypeInv /\ TokenInv /\ RefInv
        BY <1>1 DEF IInv, LifeInv
    <2> SUFFICES ASSUME NEW c \in Command, Freed(c),
                        \/ In(c, queue) /\ alive
                        \/ c \in active
                        \/ \E i \in DOMAIN stack : stack[i].cmd = c
                 PROVE  FALSE
        BY DEF CommandsAlive
    <2>2. DOMAIN stack = 1 .. Len(stack) /\ DOMAIN queue = 1 .. Len(queue)
        BY <2>1 DEF TypeInv
    <2>3. c \notin owned /\ held[c] = 0 /\ ~running[c]
        BY <2>1 DEF Freed, RefInv
    <2>4. CASE In(c, queue)
        <3>1. PICK i \in 1 .. Len(queue) : queue[i] = c
            BY <2>2, <2>4 DEF In
        <3>2. held[c] >= 1
            BY <2>1, <3>1 DEF RefInv
        <3>3. QED
            BY <2>3, <3>2
    <2>5. CASE c \in active
        BY <2>1, <2>3, <2>5 DEF TokenInv
    <2>6. ASSUME NEW i \in 1 .. Len(stack), stack[i].cmd = c PROVE FALSE
        <3>1. /\ stack[i] \in Frame
              /\ i = 1 => stack # <<>> /\ stack[i] = Head(stack)
              /\ i # 1 => ~Live(stack[i])
            BY <1>1, BelowTop
        <3>2. stack[i].fn \in {"start", "emit", "unref", "finished"}
            BY <3>1 DEF Frame, Announcing
        <3>3. CASE stack[i].fn = "start"
            <4>1. Top("start") /\ Head(stack).cmd = c
                BY <2>6, <3>1, <3>3 DEF Live, Top
            <4>2. QED
                BY <2>1, <2>3, <4>1 DEF TokenInv
        <3>4. CASE stack[i].fn = "emit"
            BY <2>2, <2>6, <3>4 DEF Freed
        <3>5. CASE stack[i].fn = "unref"
            <4>1. FrameOK(stack[i], held, connected)
                BY <2>1 DEF RefInv, HeldFor
            <4>2. held[c] >= 1
                BY <2>6, <3>5, <4>1 DEF FrameOK
            <4>3. QED
                BY <2>3, <4>2
        <3>6. CASE stack[i].fn = "finished"
            <4>1. stack[i].cmd = none
                BY <3>1, <3>6 DEF Frame, Announcing
            <4>2. QED
                BY <2>6, <4>1, ConstantsAssumption
        <3>7. QED
            BY <3>2, <3>3, <3>4, <3>5, <3>6
    <2>7. QED
        BY <2>2, <2>4, <2>5, <2>6
<1>2. ASSUME IInv, LifeInv PROVE QueueAlive
    <2>1. TypeInv /\ TokenInv /\ RefInv /\ AliveInv
        BY <1>2 DEF IInv, LifeInv
    <2> SUFFICES ASSUME ~alive
                 PROVE  /\ active = {}
                        /\ \A i \in DOMAIN stack :
                               /\ stack[i].fn \in {"emit", "unref"}
                               /\ stack[i].fn = "emit" =>
                                      stack[i].stage = "queue" /\ stack[i].left = 0
        BY DEF QueueAlive
    <2>2. ~busy /\ ~Top("finished")
        BY <2>1 DEF AliveInv
    <2>3. active = {} /\ ~LiveTop
        BY <2>1, <2>2 DEF TokenInv
    <2>4. ASSUME NEW i \in 1 .. Len(stack)
          PROVE  /\ stack[i].fn \in {"emit", "unref"}
                 /\ stack[i].fn = "emit" =>
                        stack[i].stage = "queue" /\ stack[i].left = 0
        <3>1. /\ stack[i] \in Frame
              /\ i = 1 => stack # <<>> /\ stack[i] = Head(stack)
              /\ i # 1 => ~Live(stack[i])
            BY <1>2, BelowTop
        <3>2. ~Live(stack[i])
            BY <2>3, <3>1 DEF LiveTop
        <3>3. stack[i].fn # "finished"
            <4>1. CASE i = 1
                BY <2>2, <3>1, <4>1 DEF Top
            <4>2. CASE i # 1
                <5>1. Len(stack) \in Nat
                    BY <2>1 DEF TypeInv
                <5>2. i \in 2 .. Len(stack)
                    BY <4>2, <5>1
                <5>3. QED
                    BY <2>1, <5>2 DEF RefInv, HeldFor
            <4>3. QED
                BY <4>1, <4>2
        <3>4. stack[i].fn \in {"start", "emit", "unref", "finished"}
            BY <3>1 DEF Frame, Announcing
        <3>5. stack[i].fn # "start"
            BY <3>2 DEF Live
        <3>6. ASSUME stack[i].fn = "emit"
              PROVE  stack[i].stage = "queue" /\ stack[i].left = 0
            <4>1. FrameOK(stack[i], held, connected)
                BY <2>1 DEF RefInv, HeldFor
            <4>2. stack[i].stage \in {"clients", "queue"}
                BY <3>6, <4>1 DEF FrameOK
            <4>3. stack[i].left \in Nat
                BY <3>1, <3>6, FrameFields
            <4>4. stack[i].stage # "clients" /\ ~(stack[i].left > 0)
                BY <3>2, <3>6 DEF Live
            <4>5. QED
                BY <4>2, <4>3, <4>4
        <3>7. QED
            BY <3>3, <3>4, <3>5, <3>6
    <2>5. DOMAIN stack = 1 .. Len(stack)
        BY <2>1 DEF TypeInv
    <2>6. QED
        BY <2>3, <2>4, <2>5
<1>3. IInv /\ LifeInv => NoUseAfterFree
    BY <1>1, <1>2 DEF NoUseAfterFree
<1>4. QED
    BY Lives, <1>3, PTL

\* A manual queue announces once, when every command it was given has finished.
THEOREM AllDone == Spec => []FinishedMeansAllDone
<1>1. ASSUME IInv, LifeInv PROVE FinishedMeansAllDone
    <2>1. TypeInv /\ TokenInv /\ AliveInv /\ CountInv
        BY <1>1 DEF IInv, LifeInv
    <2>2. announced <= 1
        BY <2>1 DEF AliveInv
    <2>3. ASSUME announced = 1 PROVE Len(done) = Len(pushed)
        <3>1. ~alive /\ ~busy /\ queue = <<>>
            BY <2>1, <2>3 DEF AliveInv
        <3>2. active = {} /\ ~Top("start")
            BY <2>1, <3>1 DEF TokenInv, LiveTop, Live, Top
        <3>3. Len(queue) = 0 /\ Len(done) \in Nat
            BY <2>1, <3>1 DEF TypeInv
        <3>4. QED
            BY <2>1, <3>2, <3>3 DEF CountInv
    <2>4. QED
        BY <2>2, <2>3 DEF FinishedMeansAllDone
<1>2. QED
    BY Lives, <1>1, PTL
=============================================================================
