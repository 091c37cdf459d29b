-------------------------- MODULE MCServerRequests --------------------------
(* One request with the options of the prepared model and a deadline, and   *)
(* one with options of its own.                                             *)
EXTENDS ServerRequests, TLC

CONSTANTS r1, r2, Custom

MCFramesOf == (r1 :> 1) @@ (r2 :> 0)
MCKeyOf == (r1 :> DefaultKey) @@ (r2 :> Custom)
=============================================================================
