-------------------------- MODULE AnjutaLauncherMC --------------------------
(* Three runs, with a few pieces of output each, that succeed or fail.   *)
EXTENDS AnjutaLauncher

MCCodes == {0, 1}
=============================================================================
