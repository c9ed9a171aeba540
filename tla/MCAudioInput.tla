----------------------------- MODULE MCAudioInput -----------------------------
(* AudioInput on small sets of connections. *)
EXTENDS AudioInput, TLC

\* Connections are interchangeable.
ClientSymmetry == Permutations(Clients)
===============================================================================
