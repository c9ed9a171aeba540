----------------------------- MODULE MCStandalone -----------------------------
(* Standalone with two audio_client processes. *)
EXTENDS Standalone
===============================================================================
