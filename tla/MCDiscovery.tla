---------------------------- MODULE MCDiscovery ----------------------------
(***************************************************************************)
(* Instances of module Discovery for TLC.                                  *)
(***************************************************************************)
EXTENDS Discovery

Listener(port, family, pid, owner) == [port |-> port, family |-> family, pid |-> pid, owner |-> owner]

\* Three sockets on one port: of t5s, and of two services, one of them on IPv6.
Crowded ==
    {Listener(5000, "v4", 1, "own"), Listener(5000, "v4", 3, "other"), Listener(5000, "v6", 4, "other")}

\* An ignored process and a service.
Pair == {Listener(5000, "v4", 2, "ignored"), Listener(5000, "v6", 3, "other")}
=============================================================================
