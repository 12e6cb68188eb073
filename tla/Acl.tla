--------------------------------- MODULE Acl ---------------------------------
(***************************************************************************)
(* The allowlist of a share (internal/acl/acl.go).  An address is a row of *)
(* bits, of any two lengths for the two families; it is what net/netip     *)
(* knows of it that decides: an IPv6 address may stand for an IPv4 one, a  *)
(* range has a family of its own, and an address may name a zone.          *)
(***************************************************************************)
EXTENDS Naturals

CONSTANTS
    Bits4, Bits6,  \* the bits of an IPv4 and of an IPv6 address
    Mapped         \* the first bits of the IPv6 addresses that stand for IPv4 ones

MapLen == Bits6 - Bits4

ASSUME BitsAssumption ==
    /\ Bits4 \in Nat \ {0}
    /\ Bits6 \in Nat
    /\ Bits4 < Bits6
    /\ Mapped \in [1..MapLen -> {0, 1}]

Addr4 == [family : {4}, bits : [1..Bits4 -> {0, 1}], zone : {"none"}]

Addr6 == [family : {6}, bits : [1..Bits6 -> {0, 1}], zone : {"none", "some"}]

Addr == Addr4 \union Addr6

Is4In6(a) == a.family = 6 /\ \A i \in 1..MapLen : a.bits[i] = Mapped[i]

\* addr.Unmap().WithZone("")
Host(a) ==
    IF Is4In6(a)
    THEN [family |-> 4, bits |-> [i \in 1..Bits4 |-> a.bits[MapLen + i]], zone |-> "none"]
    ELSE [a EXCEPT !.zone = "none"]

BitLen(family) == IF family = 4 THEN Bits4 ELSE Bits6

\* netip.Prefix.Contains: families do not mix, and zones are in no range.
Contains(prefix, a) ==
    /\ a.zone = "none"
    /\ a.family = prefix.addr.family
    /\ \A i \in 1..prefix.len : a.bits[i] = prefix.addr.bits[i]

\* netip.Prefix.Masked
Masked(prefix) ==
    [prefix EXCEPT !.addr.bits =
        [i \in 1..BitLen(prefix.addr.family) |-> IF i <= prefix.len THEN prefix.addr.bits[i] ELSE 0]]

(***************************************************************************)
(* The entries of an allowlist: an address, a range, or a text that is     *)
(* neither.  Of a text that is neither, addr and len mean nothing.         *)
(***************************************************************************)
IsEntry(e) ==
    /\ e.kind \in {"addr", "range", "text"}
    /\ e.addr \in Addr
    /\ e.len \in 0..BitLen(e.addr.family)
    /\ e.kind = "range" => e.addr.zone = "none"

\* An address alone: netip.Addr.String
AddrEntry(a) == [kind |-> "addr", addr |-> a, len |-> 0]

\* parsePrefix returns an error.
Refused(e) == e.kind = "text" \/ (e.kind = "range" /\ e.len = 0)

\* Mutant of ParsePrefix: an address is kept in the form it is written in.
ParsePrefix_AsWritten(e) ==
    IF e.kind = "addr"
    THEN [addr |-> e.addr, len |-> BitLen(e.addr.family)]
    ELSE Masked([addr |-> e.addr, len |-> e.len])

\* parsePrefix
ParsePrefix(e) ==
    IF e.kind = "addr"
    THEN [addr |-> Host(e.addr), len |-> BitLen(Host(e.addr).family)]
    ELSE Masked([addr |-> e.addr, len |-> e.len])

\* Parse: an error, or the ranges of the list.
ParseFails(entries) == entries = {} \/ \E e \in entries : Refused(e)

Parse(entries) == {ParsePrefix(e) : e \in entries}

Allows(list, a) == \E prefix \in list : Contains(prefix, Host(a))

-----------------------------------------------------------------------------
(***************************************************************************)
(* The reference: the client addresses that an entry names.  An address    *)
(* names the host it belongs to, whatever form it is written in; a range   *)
(* names the hosts of the addresses that begin with its first bits.        *)
(***************************************************************************)
InRange(e, a) == a.family = e.addr.family /\ \A i \in 1..e.len : a.bits[i] = e.addr.bits[i]

Names(e, a) ==
    CASE e.kind = "addr"  -> Host(a) = Host(e.addr)
      [] e.kind = "range" -> \E b \in Addr : Host(b) = Host(a) /\ InRange(e, b)
      [] OTHER            -> FALSE

\* The families do not mix: a range of IPv6 addresses leaves out the IPv4 hosts
\* that some of them stand for.
SameFamily(e, a) == e.kind = "range" => e.addr.family = Host(a).family
=============================================================================
