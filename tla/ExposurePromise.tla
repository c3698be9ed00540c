--------------------------- MODULE ExposurePromise ---------------------------
(***************************************************************************)
(* What an imaging client relies on: an exposure that is started ends as   *)
(* an image, when its time is up or it is stopped, or as nothing, when it  *)
(* is aborted; an image stays until the next exposure; and the rectangle   *)
(* is the one that was exposed, whatever is set meanwhile.  A client is    *)
(* handed an image that is ready, of that rectangle, or none.              *)
(***************************************************************************)
CONSTANT Frames

VARIABLES
  phase,
  frame,  \* of the exposure
  handed  \* of the image handed out last

vars == <<phase, frame, handed>>

Init == phase = "none" /\ frame \in Frames /\ handed \in Frames

Start == phase' = "exposing" /\ frame' \in Frames /\ UNCHANGED handed

\* Readout, early or in time.
Finish == phase = "exposing" /\ phase' = "image" /\ UNCHANGED <<frame, handed>>

Hand == phase = "image" /\ handed' = frame /\ UNCHANGED <<phase, frame>>

Abort == phase = "exposing" /\ phase' = "none" /\ UNCHANGED <<frame, handed>>

Next == Start \/ Finish \/ Hand \/ Abort

Spec == Init /\ [][Next]_vars
=============================================================================
