------------------------ MODULE AnjutaCommandQueueMC ------------------------
(* A queue of either mode and four commands.                                *)
EXTENDS AnjutaCommandQueue

MCMode == {"AUTOMATIC", "MANUAL"}
=============================================================================
