----------------------------- MODULE MCMbusWakeup -----------------------------
(***************************************************************************)
(* MbusWakeup for model checking.                                          *)
(***************************************************************************)
EXTENDS MbusWakeup
===============================================================================
