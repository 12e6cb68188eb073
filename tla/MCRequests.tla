----------------------------- MODULE MCRequests -----------------------------
(***************************************************************************)
(* Instances of module Requests for TLC.                                   *)
(***************************************************************************)
EXTENDS Requests, TLC

\* One address that is allowed and one that is not.
TwoAddrs == {1, 2}
FirstAddr == {1}

\* The requests are interchangeable.
RequestSymmetry == Permutations(Requests)
=============================================================================
