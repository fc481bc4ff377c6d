------------------------ MODULE AnjutaAsyncCommandMC ------------------------
(* One command whose run pushes up to two items, reports up to two         *)
(* progress values and succeeds or fails.                                  *)
EXTENDS AnjutaAsyncCommand

MCCodes == {0, 1}
=============================================================================
