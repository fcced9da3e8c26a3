------------------------------ MODULE MCMusic --------------------------------
(* Music, with the relay it uses, on small instances.                      *)
EXTENDS Music
=============================================================================
