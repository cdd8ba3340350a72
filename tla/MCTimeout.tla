------------------------------ MODULE MCTimeout ------------------------------
(* Two signals from outside and one stop of the command, under every option. *)
EXTENDS Timeout
=============================================================================
