------------------------------- MODULE MCTui -------------------------------
(***************************************************************************)
(* Instances of module Tui for TLC.                                        *)
(***************************************************************************)
EXTENDS Tui

\* Two and three services.
TwoPorts == {1, 2}
ThreePorts == {1, 2, 3}

\* The result of Wait that a share may end with at any time.
OneReason == {"lost"}
=============================================================================
