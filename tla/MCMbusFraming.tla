---------------------------- MODULE MCMbusFraming ----------------------------
(***************************************************************************)
(* MbusFraming for model checking: which sockets, per run.                  *)
(***************************************************************************)
EXTENDS MbusFraming

AnySocket == {"tcp", "tcps", "uds", "udss"}
==============================================================================
