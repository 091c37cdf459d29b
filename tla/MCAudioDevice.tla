---------------------------- MODULE MCAudioDevice ----------------------------
(* The audio device under a bounded number of commands. *)
EXTENDS AudioDevice, TLC
=============================================================================
