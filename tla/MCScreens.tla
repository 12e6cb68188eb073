----------------------------- MODULE MCScreens ------------------------------
(***************************************************************************)
(* An instance of module Screens for TLC.                                  *)
(***************************************************************************)
EXTENDS Screens

\* Client addresses.
MCAddrs == {1, 2, 3}

\* Too small for an entry, room for one address, for two of them, and for two
\* services above the dialog.
MCHeights == {5, 9, 10, 15}
=============================================================================
