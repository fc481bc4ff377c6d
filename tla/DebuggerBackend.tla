-------------------------- MODULE DebuggerBackend --------------------------
(***************************************************************************)
(* What a debugger backend promises to the queue of the debug manager: it   *)
(* is given one command at a time, in a state the command needs; it calls   *)
(* the callback of the command, if it has one, once and before it reports   *)
(* that it is ready; it is then in a state the command may end in; and it   *)
(* does report, unless it ends first, as it may at any time.                *)
(***************************************************************************)
EXTENDS DebuggerCommands

CONSTANT Used  \* the kinds of commands the clients use

VARIABLES
    at,     \* the state it reported last
    asked,  \* the command it works on, or "none"
    reply   \* how often it still has to call the callback of that command

vars == <<at, asked, reply>>

TypeOK ==
    /\ at \in State
    /\ asked \in Used \cup {"none"}
    /\ reply \in 0 .. 1

Init == at = Stopped /\ asked = "none" /\ reply = 0

Request(k) ==
    /\ asked = "none"
    /\ at \in Need(k)
    /\ asked' = k
    /\ reply' = IF k \in Asks THEN 1 ELSE 0
    /\ UNCHANGED at

Callback ==
    /\ reply = 1
    /\ reply' = 0
    /\ UNCHANGED <<at, asked>>

Report(s) ==
    /\ asked # "none"
    /\ reply # 1
    /\ s \in EndsOf(asked, at)
    /\ at' = s
    /\ asked' = "none"
    /\ UNCHANGED reply

Ends == at' = Stopped /\ asked' = "none" /\ reply' = 0

Next ==
    \/ \E k \in Used : Request(k)
    \/ Callback
    \/ \E s \in State : Report(s)
    \/ Ends

Answers == asked # "none" ~> asked = "none"

Spec == Init /\ [][Next]_vars /\ Answers
=============================================================================
