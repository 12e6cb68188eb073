------------------------------ MODULE MCDialog ------------------------------
(***************************************************************************)
(* An instance of module Dialog for TLC: four IPv4 addresses, and IPv6     *)
(* addresses of four bits, of which those that begin with 01 stand for     *)
(* IPv4 ones.                                                              *)
(***************************************************************************)
EXTENDS Dialog

MappedPrefix == <<0, 1>>

V4(bits) == [family |-> 4, bits |-> bits, zone |-> "none"]

V6(bits, zone) == [family |-> 6, bits |-> bits, zone |-> zone]

Range(a, len) == [kind |-> "range", addr |-> a, len |-> len]

\* What can be typed: nothing; an IPv4 host as an IPv6 address, an IPv6
\* address with a zone, and a range of each family, the wider of which has IPv4
\* hosts in it; an address with a range that is refused; and a text that is
\* neither.
Typed ==
    { {},
      {AddrEntry(V6(<<0, 1, 1, 0>>, "none")), AddrEntry(V6(<<1, 1, 0, 0>>, "some")),
       Range(V4(<<0, 1>>), 1), Range(V6(<<0, 1, 0, 1>>, "none"), 1)},
      {AddrEntry(V4(<<0, 0>>)), Range(V4(<<1, 0>>), 0)},
      {[kind |-> "text", addr |-> V4(<<0, 0>>), len |-> 0]} }

AllEntries == UNION Typed

Ip(a) == [kind |-> "ip", addr |-> a]

Other(kind) == [kind |-> kind, addr |-> V4(<<0, 0>>)]

\* The address in the second line, a broken address before another one, and
\* no trace.
BothTraces ==
    LET four == Ip(V4(<<1, 0>>))
        six == Ip(V6(<<1, 0, 1, 0>>, "none"))
    IN  <<{<<Other("other"), four>>, <<Other("bad"), four>>}, {<<six>>, <<>>}>>
=============================================================================
