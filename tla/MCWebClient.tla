------------------------------ MODULE MCWebClient ------------------------------
(* WebClient with two browsers, two requests and one other client. *)
EXTENDS WebClient
===============================================================================
