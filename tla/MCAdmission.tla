---------------------------- MODULE MCAdmission ----------------------------
(***************************************************************************)
(* Instances of Admission for TLC.                                         *)
(***************************************************************************)
EXTENDS Admission, TLC

\* Without deadlines the waiters are interchangeable.
Interchangeable == Permutations(Waiters)
=============================================================================
