---------------------------- MODULE SerialRunner ----------------------------
(* What a command queue promises: the commands submitted to it run one at a *)
(* time, in the order they were submitted, each exactly once.               *)
EXTENDS Naturals, Sequences

CONSTANTS
    Command,  \* the commands that may be submitted
    none      \* no command

VARIABLES
    waiting,  \* submitted, not yet begun, oldest first
    current,  \* the command that runs, or none
    done      \* the commands that have run, oldest first

vars == <<waiting, current, done>>

Init ==
    /\ waiting = <<>>
    /\ current = none
    /\ done = <<>>

Known(c) ==
    \/ c = current
    \/ \E i \in DOMAIN waiting : waiting[i] = c
    \/ \E i \in DOMAIN done : done[i] = c

Submit(c) ==
    /\ ~Known(c)
    /\ waiting' = Append(waiting, c)
    /\ UNCHANGED <<current, done>>

\* An idle runner may begin a command as it is submitted.
SubmitAndBegin(c) ==
    /\ ~Known(c)
    /\ current = none
    /\ waiting = <<>>
    /\ current' = c
    /\ UNCHANGED <<waiting, done>>

Begin ==
    /\ current = none
    /\ waiting # <<>>
    /\ current' = Head(waiting)
    /\ waiting' = Tail(waiting)
    /\ UNCHANGED done

End ==
    /\ current # none
    /\ done' = Append(done, current)
    /\ current' = none
    /\ UNCHANGED waiting

Next ==
    \/ \E c \in Command : Submit(c) \/ SubmitAndBegin(c)
    \/ Begin
    \/ End

Spec == Init /\ [][Next]_vars

\* Nothing submitted waits for ever, and what begins ends.
Fairness == WF_vars(Begin) /\ WF_vars(End)
=============================================================================
