--------------------------- MODULE MCSpeakerGate ---------------------------
(* SpeakerGate on a small instance, with its most general client.          *)
EXTENDS SpeakerGate
=============================================================================
