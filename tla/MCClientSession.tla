--------------------------- MODULE MCClientSession ---------------------------
(* ClientSession on a small instance.                                      *)
EXTENDS ClientSession

CONSTANTS x1, x2
=============================================================================
