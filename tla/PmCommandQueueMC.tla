-------------------------- MODULE PmCommandQueueMC --------------------------
(* Three jobs, one of which holds a reference on the project.               *)
EXTENDS PmCommandQueue

CONSTANTS j1, j2, j3

MCJob == {j1, j2, j3}
MCPinning == {j1}
=============================================================================
