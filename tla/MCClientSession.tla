-------------------------- MODULE MCClientSession --------------------------
(***************************************************************************)
(* Instances of ClientSession for TLC.                                     *)
(***************************************************************************)
EXTENDS ClientSession, TLC

Interchangeable == Permutations(Requests)

\* A client that is not shut down and whose requests have no deadline.
NextStreaming ==
  \E r \in Requests : Start(r) \/ Continuation(r) \/ User(r) \/ Backend(r)

SpecStreaming == Init /\ [][NextStreaming]_vars
=============================================================================
