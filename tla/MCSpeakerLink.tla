--------------------------- MODULE MCSpeakerLink ----------------------------
(* SpeakerLink on small instances.                                         *)
EXTENDS SpeakerLink
=============================================================================
