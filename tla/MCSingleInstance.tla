--------------------------- MODULE MCSingleInstance ---------------------------
(* SingleInstance on a small set of processes. *)
EXTENDS SingleInstance
===============================================================================
