------------------------------ MODULE MCRequests ------------------------------
(* Instance of Requests for TLC. *)
EXTENDS Requests

AllKinds == {"rotator", "focuser", "wheel", "dome", "cover", "board", "station", "camera", "driver"}

\* Origins and sizes around the edge of a sensor of two pixels.
MCOrigins == -1..1
MCSizes == 0..2
MCDurations == 0..3
=============================================================================
