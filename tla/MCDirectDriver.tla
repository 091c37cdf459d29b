--------------------------- MODULE MCDirectDriver ---------------------------
(* Two requests that contend for one execution. *)
EXTENDS DirectDriver, TLC

\* Requests are interchangeable; not used where liveness is checked.
Interchangeable == Permutations(Requests)
=============================================================================
