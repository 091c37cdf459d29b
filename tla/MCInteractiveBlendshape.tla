---------------------- MODULE MCInteractiveBlendshape ----------------------
(* One frame is enough for a stale replay. *)
EXTENDS InteractiveBlendshape, TLC
=============================================================================
