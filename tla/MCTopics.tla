------------------------------ MODULE MCTopics -------------------------------
(* Topics on small instances.                                              *)
EXTENDS Topics
=============================================================================
