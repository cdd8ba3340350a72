-------------------------------- MODULE MCEd --------------------------------
(* Two lines in the file, one mark, room for two lines before the arrays grow. *)
EXTENDS Ed
=============================================================================
