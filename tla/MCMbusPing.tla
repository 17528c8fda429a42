------------------------------ MODULE MCMbusPing ------------------------------
(***************************************************************************)
(* MbusPing for model checking.                                            *)
(***************************************************************************)
EXTENDS MbusPing
===============================================================================
