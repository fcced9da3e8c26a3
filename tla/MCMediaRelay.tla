---------------------------- MODULE MCMediaRelay -----------------------------
(* The scripts and their relay without the bridge, on small instances.     *)
EXTENDS MediaRelay
=============================================================================
