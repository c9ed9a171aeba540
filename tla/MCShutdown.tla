------------------------------ MODULE MCShutdown ------------------------------
(* Shutdown with one connection and one or two signals. *)
EXTENDS Shutdown
===============================================================================
