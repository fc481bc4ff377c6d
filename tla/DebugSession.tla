---------------------------- MODULE DebugSession ----------------------------
(***************************************************************************)
(* What the debug manager promises to the parts that listen to it          *)
(* (IAnjutaDebugManager, libanjuta/interfaces/libanjuta.idl): the signals   *)
(* follow the life of a debugging session, a program is loaded before it   *)
(* is started and exits before it is unloaded, and the debugger stops with *)
(* nothing loaded.  phase is where a listener that hears the signals thinks *)
(* the session is.                                                         *)
(***************************************************************************)
VARIABLE phase

Phase == {"stopped", "started", "loaded", "program"}

\* The life cycle, one signal for each pair.
LifeCycle ==
    { <<"stopped", "started">>,   \* debugger-started
      <<"started", "loaded">>,    \* program-loaded
      <<"loaded", "program">>,    \* program-started
      <<"program", "loaded">>,    \* program-exited
      <<"loaded", "started">>,    \* program-unloaded
      <<"started", "stopped">> }  \* debugger-stopped

Init == phase = "stopped"

Next == phase' \in Phase /\ <<phase, phase'>> \in LifeCycle

Spec == Init /\ [][Next]_phase
=============================================================================
