--------------------------- MODULE MCMbusWebsocket ---------------------------
(***************************************************************************)
(* MbusWebsocket for model checking.                                       *)
(***************************************************************************)
EXTENDS MbusWebsocket
==============================================================================
