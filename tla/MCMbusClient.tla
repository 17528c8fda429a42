---------------------------- MODULE MCMbusClient ----------------------------
(***************************************************************************)
(* MbusClient for model checking: what the application asks for and what   *)
(* the broker may refuse, per run.                                         *)
(***************************************************************************)
EXTENDS MbusClient

AllRefused == Asked \cup {"create"}
SomeOfEach == {"event", "command", "register", "unregister"}
OthersOfEach == {"publish", "command", "subscribe", "unsubscribe"}
==============================================================================
