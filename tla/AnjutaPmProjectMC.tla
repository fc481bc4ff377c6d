------------------------- MODULE AnjutaPmProjectMC -------------------------
(* A small instance of AnjutaPmProject.                                    *)
EXTENDS AnjutaPmProject

CONSTANTS A, B, p1, p2
=============================================================================
