---------------------------- MODULE MCAudioOutput ----------------------------
(* AudioOutput on small sets of connections. *)
EXTENDS AudioOutput, TLC

ClientSymmetry == Permutations(Clients)
===============================================================================
