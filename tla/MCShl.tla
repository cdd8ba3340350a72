-------------------------------- MODULE MCShl --------------------------------
(* Three layers, one of which has output and one that may leave its terminal. *)
EXTENDS Shl
=============================================================================
