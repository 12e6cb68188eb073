---------------------------- MODULE DialogProofs ----------------------------
(***************************************************************************)
(* Proofs about modules Acl, Dialog and Notices, for addresses of any      *)
(* length, any entries and any number of notices: whom an allowlist lets   *)
(* in, that it has the own addresses in it, that no timer cuts a notice    *)
(* short, and that no copy is dropped.                                     *)
(***************************************************************************)
EXTENDS Dialog, TLAPS

-----------------------------------------------------------------------------
(***************************************************************************)
(* Addresses and entries.                                                  *)
(***************************************************************************)

\* An address without a zone that is not one of the other family is left as
\* it is.
LEMMA HostFixed ==
    ASSUME NEW a \in Addr, a.zone = "none", ~Is4In6(a)
    PROVE  Host(a) = a
  <1>1. CASE a \in Addr4
    BY <1>1 DEF Host, Addr4
  <1>2. CASE a \in Addr6
    BY <1>2 DEF Host, Addr6
  <1> QED
    BY <1>1, <1>2 DEF Addr

\* The form in which the allowlist sees an address: no zone, and no IPv6
\* address that stands for an IPv4 one.
LEMMA HostForm ==
    ASSUME NEW a \in Addr
    PROVE  /\ Host(a) \in Addr
           /\ Host(a).zone = "none"
           /\ ~Is4In6(Host(a))
           /\ Host(Host(a)) = Host(a)
           /\ a.family = 4 => Host(a) = a
  <1>1. Host(a) \in Addr /\ Host(a).zone = "none" /\ ~Is4In6(Host(a))
    <2>1. CASE Is4In6(a)
      <3>1. a \in Addr6
        BY <2>1 DEF Addr, Addr4, Addr6, Is4In6
      <3>2. \A i \in 1..Bits4 : MapLen + i \in 1..Bits6
        BY BitsAssumption DEF MapLen
      <3>3. Host(a) \in Addr4
        BY <2>1, <3>1, <3>2 DEF Host, Addr6, Addr4
      <3> QED
        BY <3>3 DEF Addr, Addr4, Is4In6
    <2>2. CASE ~Is4In6(a)
      <3>1. Host(a) = [a EXCEPT !.zone = "none"]
        BY <2>2 DEF Host
      <3>2. Host(a).family = a.family /\ Host(a).bits = a.bits
        BY <3>1 DEF Addr, Addr4, Addr6
      <3>3. Host(a) \in Addr /\ Host(a).zone = "none"
        BY <3>1 DEF Addr, Addr4, Addr6
      <3> QED
        BY <2>2, <3>2, <3>3 DEF Is4In6
    <2> QED
      BY <2>1, <2>2
  <1>2. a.family = 4 => a.zone = "none" /\ ~Is4In6(a)
    BY DEF Addr, Addr4, Addr6, Is4In6
  <1> QED
    BY <1>1, <1>2, HostFixed

\* The bits of an address.
LEMMA AddrBits ==
    ASSUME NEW a \in Addr
    PROVE  a.bits \in [1..BitLen(a.family) -> {0, 1}] /\ BitLen(a.family) \in Nat
  BY BitsAssumption DEF Addr, Addr4, Addr6, BitLen

\* Two addresses without zones that agree in family and bits are the same.
LEMMA SameBits ==
    ASSUME NEW a \in Addr, NEW b \in Addr, a.zone = b.zone, a.family = b.family,
           \A i \in 1..BitLen(a.family) : a.bits[i] = b.bits[i]
    PROVE  a = b
  <1>1. a.bits = b.bits
    BY AddrBits
  <1> QED
    BY <1>1 DEF Addr, Addr4, Addr6

\* What parsePrefix makes of an entry contains exactly the hosts it names, but
\* for those of the other family.
LEMMA PrefixExact ==
    ASSUME NEW e, IsEntry(e), e.kind # "text", NEW a \in Addr
    PROVE  Contains(ParsePrefix(e), Host(a)) <=> Names(e, a) /\ SameFamily(e, a)
  <1>1. CASE e.kind = "addr"
    <2>1. Host(e.addr) \in Addr /\ Host(a) \in Addr
      BY HostForm DEF IsEntry
    <2>2. Contains(ParsePrefix(e), Host(a)) => Host(a) = Host(e.addr)
      BY <1>1, <2>1, HostForm, SameBits DEF Contains, ParsePrefix, IsEntry
    <2>3. Host(a) = Host(e.addr) => Contains(ParsePrefix(e), Host(a))
      BY <1>1, HostForm DEF Contains, ParsePrefix, IsEntry
    <2> QED
      BY <1>1, <2>2, <2>3 DEF Names, SameFamily
  <1>2. CASE e.kind = "range"
    <2> DEFINE h == Host(a)
    <2>1. h \in Addr /\ h.zone = "none" /\ Host(h) = h
      BY HostForm
    <2>2. /\ ParsePrefix(e).len = e.len
          /\ ParsePrefix(e).addr.family = e.addr.family
          /\ \A i \in 1..e.len : ParsePrefix(e).addr.bits[i] = e.addr.bits[i]
      <3>1. e.addr \in Addr /\ e.len \in 0..BitLen(e.addr.family) /\ BitLen(e.addr.family) \in Nat
        BY <1>2, AddrBits DEF IsEntry
      <3>2. ParsePrefix(e) = Masked([addr |-> e.addr, len |-> e.len])
        BY <1>2 DEF ParsePrefix
      <3> QED
        BY <3>1, <3>2 DEF Masked, Addr, Addr4, Addr6
    <2>3. Contains(ParsePrefix(e), h) <=> InRange(e, h)
      BY <2>1, <2>2 DEF Contains, InRange
    <2>4. InRange(e, h) => Names(e, a) /\ SameFamily(e, a)
      BY <1>2, <2>1 DEF Names, SameFamily, InRange
    <2>5. ASSUME Names(e, a), SameFamily(e, a) PROVE InRange(e, h)
      <3>1. PICK b \in Addr : Host(b) = h /\ InRange(e, b)
        BY <1>2, <2>5 DEF Names
      <3>2. b.family = h.family
        BY <1>2, <2>5, <3>1 DEF SameFamily, InRange
      <3>3. ~Is4In6(b)
        BY <3>1, <3>2 DEF Host, Is4In6
      <3>4. h.bits = b.bits
        BY <3>1, <3>3 DEF Host, Addr, Addr4, Addr6
      <3> QED
        BY <3>1, <3>2, <3>4 DEF InRange
    <2> QED
      BY <2>3, <2>4, <2>5
  <1> QED
    BY <1>1, <1>2 DEF IsEntry

\* An allowlist lets in exactly the hosts that its entries name, but for IPv4
\* hosts in a range of IPv6 addresses (acl.go:35-62).
THEOREM AllowlistExact ==
    ASSUME NEW E, \A e \in E : IsEntry(e), ~ParseFails(E), NEW a \in Addr
    PROVE  Allows(Parse(E), a) <=> \E e \in E : Names(e, a) /\ SameFamily(e, a)
  <1>1. \A e \in E : e.kind # "text"
    BY DEF ParseFails, Refused
  <1>2. Allows(Parse(E), a) <=> \E e \in E : Contains(ParsePrefix(e), Host(a))
    BY DEF Allows, Parse
  <1> QED
    BY <1>1, <1>2, PrefixExact

-----------------------------------------------------------------------------
(***************************************************************************)
(* The notices and the clipboard.                                          *)
(***************************************************************************)
NoticesInv == NoticesTypeOK /\ FlashInv

LEMMA NotifyInv == NoticesInv /\ Notify => NoticesInv'
  BY DEF NoticesInv, NoticesTypeOK, FlashInv, Notify, WithFlash, NoFlash

LEMMA ExpiredInv ==
    ASSUME NoticesInv, NEW id \in timers, FlashExpired(id)
    PROVE  NoticesInv'
  BY DEF NoticesInv, NoticesTypeOK, FlashInv, FlashExpired, NoFlash

LEMMA CopyInv ==
    ASSUME NoticesInv, NEW u \in URLs, Copy(u) \/ CopyStep(u)
    PROVE  NoticesInv'
  <1> USE DEF NoticesInv, NoticesTypeOK, FlashInv, NoFlash, Copying
  <1>1. CASE Copy(u)
    BY <1>1 DEF Copy
  <1>2. CASE CopyReturns(u)
    BY <1>2 DEF CopyReturns
  <1>3. CASE Copied(u)
    BY <1>3 DEF Copied, WithFlash
  <1>4. CASE TerminalCopies(u)
    BY <1>4 DEF TerminalCopies
  <1> QED
    BY <1>1, <1>2, <1>3, <1>4 DEF CopyStep

-----------------------------------------------------------------------------
(***************************************************************************)
(* The invariant, one group of actions at a time.                          *)
(***************************************************************************)
USE DEF vars, lookupVars, dialogVars, rowVars

\* A trace tells addresses.
LEMMA TraceAddrs ==
    ASSUME NEW t \in Traces, NEW n \in {1, 2}
    PROVE  ParseTrace(t[n]) \subseteq Addr
  BY BodiesAssumption DEF Traces, ParseTrace, Line

LEMMA InitIInv == Init => IInv
  <1> SUFFICES ASSUME Init PROVE IInv
    OBVIOUS
  <1>1. TypeOK
    <2>1. NoticesTypeOK
      BY DEF Init, NoticesInit, NoticesTypeOK, NoFlash
    <2>2. dialog \in Dialogs \union {Closed} /\ request \in Requests \union {None}
      BY DEF Init
    <2>3. ownErr \in BOOLEAN /\ applied \in BOOLEAN
      BY DEF Init
    <2>4. asked \in 0..2 /\ found \subseteq Addr /\ own \subseteq Addr /\ lastAllow \in Texts
      BY TextsAssumption DEF Init
    <2> QED
      BY <2>1, <2>2, <2>3, <2>4 DEF Init, TypeOK
  <1>2. OwnInv
    BY DEF Init, OwnInv, Open, Closed, Told
  <1> QED
    BY <1>1, <1>2 DEF IInv, Init, RowInv, FlashInv, NoticesInit, NoFlash, ErrorIsCurrent, Open, Closed, None

LEMMA LookupIInv == IInv /\ Lookup => IInv'
  <1> SUFFICES ASSUME IInv, Lookup PROVE IInv'
    OBVIOUS
  <1>1. UNCHANGED <<noticeVars, rowVars, lastAllow, request, trace>>
    BY DEF Lookup, Fetch, ApplyOwnAddrs
  <1>2. RowInv' /\ FlashInv' /\ NoticesTypeOK'
    BY <1>1 DEF IInv, TypeOK, RowInv, FlashInv, NoticesTypeOK, noticeVars
  <1>3. CASE Fetch
    <2>1. asked \in {0, 1} /\ asked' = asked + 1 /\ asked + 1 \in {1, 2}
      BY <1>3 DEF Fetch, Fetched, IInv, TypeOK
    <2>2. found' = found \union ParseTrace(trace[asked + 1])
      BY <1>3 DEF Fetch, Fetched
    <2>3. TypeOK'
      BY <1>1, <1>2, <1>3, <2>1, <2>2, TraceAddrs DEF Fetch, IInv, TypeOK
    <2>4. found' = Told(asked)'
      BY <1>1, <2>1, <2>2 DEF IInv, OwnInv, Told
    <2> QED
      BY <1>2, <1>3, <2>1, <2>3, <2>4 DEF Fetch, IInv, OwnInv, ErrorIsCurrent, Open
  <1>4. CASE ApplyOwnAddrs
    <2>1. dialog \in Dialogs => dialog' = [dialog EXCEPT !.own = found]
      BY <1>4 DEF ApplyOwnAddrs, Open, Dialogs
    <2>2. dialog = Closed => dialog' = Closed
      BY <1>4 DEF ApplyOwnAddrs, Open, Closed
    <2>3. dialog' \in Dialogs \union {Closed}
      BY <2>1, <2>2 DEF IInv, TypeOK, Dialogs
    <2>4. TypeOK'
      BY <1>1, <1>2, <1>4, <2>3 DEF ApplyOwnAddrs, IInv, TypeOK
    <2>5. Open' => dialog'.own = found /\ dialog'.err = dialog.err /\ dialog'.typed = dialog.typed /\ Open
      BY <2>1, <2>2 DEF IInv, TypeOK, Open, Dialogs, Closed
    <2>6. ErrorIsCurrent'
      BY <2>5 DEF IInv, ErrorIsCurrent
    <2>7. OwnInv'
      BY <1>1, <1>4, <2>5 DEF ApplyOwnAddrs, IInv, OwnInv, Told
    <2> QED
      BY <1>2, <2>4, <2>6, <2>7 DEF IInv
  <1> QED
    BY <1>3, <1>4 DEF Lookup

DialogKey ==
    \/ OpenDialog
    \/ \E text \in Texts : Type(text)
    \/ SwitchField
    \/ ExpiryLeft
    \/ ExpiryRight
    \/ Cancel
    \/ SubmitFails

\* A key in the dialog touches nothing else.  An error appears only with a
\* text that makes no allowlist, or stays with its text.
LEMMA DialogKeyForm ==
    ASSUME IInv, DialogKey
    PROVE  /\ UNCHANGED <<lookupVars, lastAllow, request, rowVars, noticeVars>>
           /\ dialog' \in Dialogs \union {Closed}
           /\ Open' => dialog'.own = own
           /\ ErrorIsCurrent'
  <1> USE DEF IInv, TypeOK, OwnInv, ErrorIsCurrent, Open
  <1>1. Open => dialog \in Dialogs
    BY DEF Closed
  <1>2. CASE OpenDialog
    BY <1>2, ChoicesAssumption DEF OpenDialog, Dialogs
  <1>3. CASE \E text \in Texts : Type(text)
    BY <1>1, <1>3 DEF Type, Dialogs
  <1>4. CASE SwitchField
    BY <1>1, <1>4 DEF SwitchField, Dialogs
  <1>5. CASE ExpiryLeft
    BY <1>1, <1>5, ChoicesAssumption DEF ExpiryLeft, Dialogs
  <1>6. CASE ExpiryRight
    BY <1>1, <1>6, ChoicesAssumption DEF ExpiryRight, Dialogs
  <1>7. CASE Cancel
    BY <1>7 DEF Cancel, Closed
  <1>8. CASE SubmitFails
    <2>1. ParseFails(dialog.typed)
      BY <1>8 DEF SubmitFails, Submitted, ParseFails, Refused, AddrEntry
    <2> QED
      BY <1>1, <1>8, <2>1 DEF SubmitFails, Dialogs
  <1> QED
    BY <1>2, <1>3, <1>4, <1>5, <1>6, <1>7, <1>8 DEF DialogKey

LEMMA DialogKeyIInv ==
    ASSUME IInv, DialogKey
    PROVE  IInv'
  <1>1. TypeOK'
    BY DialogKeyForm DEF IInv, TypeOK, NoticesTypeOK, noticeVars
  <1>2. OwnInv'
    BY DialogKeyForm DEF IInv, OwnInv, Told
  <1> QED
    BY <1>1, <1>2, DialogKeyForm DEF IInv, RowInv, FlashInv, noticeVars

\* The dialog closes with a request for a share.
LEMMA SubmitIInv == IInv /\ Submit => IInv'
  <1> SUFFICES ASSUME IInv, Submit PROVE IInv'
    OBVIOUS
  <1>1. dialog \in Dialogs
    BY DEF Submit, Open, IInv, TypeOK, Closed
  <1>2. request' \in Requests /\ lastAllow' \in Texts
    BY <1>1 DEF Submit, Dialogs, Requests
  <1>3. TypeOK'
    BY <1>2 DEF Submit, IInv, TypeOK, NoticesTypeOK, noticeVars
  <1>4. OwnInv' /\ ErrorIsCurrent'
    BY DEF Submit, IInv, OwnInv, ErrorIsCurrent, Open, Closed, Told
  <1> QED
    BY <1>3, <1>4 DEF Submit, IInv, RowInv, FlashInv, noticeVars

RowStep ==
    \/ DialogRefused
    \/ Started
    \/ ShareGone
    \/ KeyCopy
    \/ \E id \in timers : Expires(id)
    \/ \E u \in URLs : Copies(u)

\* The life of the share leaves the dialog and the lookup alone.
LEMMA RowStepIInv == IInv /\ RowStep => IInv'
  <1> SUFFICES ASSUME IInv, RowStep PROVE IInv'
    OBVIOUS
  <1>1. UNCHANGED <<lookupVars, dialogVars>>
    BY DEF RowStep, DialogRefused, Started, ShareGone, KeyCopy, Expires, Copies
  <1>2. NoticesInv
    BY DEF IInv, TypeOK, NoticesInv
  <1>3. NoticesInv' /\ RowInv' /\ row' \in {"free", "opening", "shared"} /\ url' \in URLs \union {0}
    <2> USE DEF IInv, RowInv, TypeOK
    <2>1. CASE DialogRefused
      BY <1>2, <2>1, NotifyInv DEF DialogRefused
    <2>2. CASE Started
      BY <1>2, <2>2, CopyInv DEF Started
    <2>3. CASE ShareGone
      BY <1>2, <2>3, NotifyInv DEF ShareGone
    <2>4. CASE KeyCopy
      BY <1>2, <2>4, CopyInv DEF KeyCopy
    <2>5. ASSUME NEW id \in timers, Expires(id)
          PROVE  NoticesInv' /\ UNCHANGED rowVars
      BY <1>2, <2>5, ExpiredInv DEF Expires
    <2>6. ASSUME NEW u \in URLs, Copies(u)
          PROVE  NoticesInv' /\ UNCHANGED rowVars
      BY <1>2, <2>6, CopyInv DEF Copies
    <2> QED
      BY <2>1, <2>2, <2>3, <2>4, <2>5, <2>6 DEF RowStep
  <1>4. OwnInv' /\ ErrorIsCurrent'
    BY <1>1 DEF IInv, OwnInv, ErrorIsCurrent, Open, Told
  <1>5. TypeOK'
    BY <1>1, <1>3 DEF IInv, TypeOK, NoticesInv
  <1> QED
    BY <1>3, <1>4, <1>5 DEF IInv, NoticesInv

LEMMA NextIInv == IInv /\ [Next]_vars => IInv'
  <1>1. IInv /\ UNCHANGED vars => IInv'
    BY DEF IInv, TypeOK, NoticesTypeOK, OwnInv, RowInv, FlashInv, ErrorIsCurrent, noticeVars, Open, Told
  <1>2. Next => Lookup \/ DialogKey \/ Submit \/ RowStep
    BY DEF Next, DialogKey, RowStep
  <1> QED
    BY <1>1, <1>2, LookupIInv, DialogKeyIInv, SubmitIInv, RowStepIInv

THEOREM Invariance == Spec => []IInv
  BY InitIInv, NextIInv, PTL DEF Spec

-----------------------------------------------------------------------------
(***************************************************************************)
(* The properties.                                                         *)
(***************************************************************************)

\* Every variable keeps its type (dialog.go, publicip.go, shares.go).
THEOREM TypeCorrect == Spec => []TypeOK
  <1>1. IInv => TypeOK
    BY DEF IInv
  <1> QED
    BY <1>1, Invariance, PTL

\* A lookup that has lost one of the two answers gives the other one, and an
\* error only without any (publicip.go:31-46).
THEOREM OwnIsAllToldCorrect == Spec => []OwnIsAllTold
  <1>1. IInv => OwnIsAllTold
    BY DEF IInv, OwnInv, OwnIsAllTold
  <1> QED
    BY <1>1, Invariance, PTL

\* An error in the dialog is about the text on screen (dialog.go:88-104).
THEOREM ErrorIsCurrentCorrect == Spec => []ErrorIsCurrent
  <1>1. IInv => ErrorIsCurrent
    BY DEF IInv
  <1> QED
    BY <1>1, Invariance, PTL

\* A request is only made by Submit, of a dialog that knows what the model does.
LEMMA RequestForm ==
    ASSUME IInv, [Next]_vars, request' # request
    PROVE  /\ request'.own = own /\ own' = own /\ own \subseteq Addr
           /\ ~ParseFails(Submitted(request'.typed, request'.own))
           /\ \A e \in Submitted(request'.typed, request'.own) : IsEntry(e)
  <1>1. Submit
    BY DialogKeyForm DEF Next, Lookup, Fetch, ApplyOwnAddrs, DialogKey, DialogRefused, Started, ShareGone, KeyCopy,
       Expires, Copies
  <1>2. dialog \in Dialogs /\ dialog.own = own /\ own \subseteq Addr
    BY <1>1 DEF Submit, Open, IInv, TypeOK, OwnInv, Closed
  <1>3. request'.typed = dialog.typed /\ request'.own = own /\ own' = own
    BY <1>1, <1>2 DEF Submit
  <1>4. \A e \in dialog.typed : IsEntry(e)
    BY <1>2, TextsAssumption, EntriesAssumption DEF Dialogs
  <1>5. \A a \in own : IsEntry(AddrEntry(a))
    BY <1>2, AddrBits DEF IsEntry, AddrEntry
  <1> QED
    BY <1>1, <1>2, <1>3, <1>4, <1>5 DEF Submit, Submitted

\* Every share lets in exactly whom its user was told (acl.go:34-62,
\* dialog.go:97-109).
THEOREM AllowsExactlyCorrect == Spec => AllowsExactly
  <1>1. IInv /\ [Next]_vars =>
            [request' # request =>
                \A a \in Addr :
                    LetsIn(a)' <=> \E e \in Submitted(request'.typed, request'.own) : Names(e, a) /\ SameFamily(e, a)]_vars
    BY RequestForm, AllowlistExact DEF LetsIn
  <1> QED
    BY <1>1, Invariance, PTL DEF Spec, AllowsExactly

\* Once the own addresses are known, every share lets them in (model.go:139-146).
THEOREM OwnOnceKnownCorrect == Spec => OwnOnceKnown
  <1>1. ASSUME IInv, [Next]_vars, request' # request, NEW a \in own
        PROVE  LetsIn(a)'
    <2>1. AddrEntry(a) \in Submitted(request'.typed, request'.own)
      BY <1>1, RequestForm DEF Submitted
    <2>2. Names(AddrEntry(a), a) /\ SameFamily(AddrEntry(a), a)
      BY DEF Names, SameFamily, AddrEntry
    <2> QED
      BY <1>1, <2>1, <2>2, RequestForm, AllowlistExact DEF LetsIn
  <1>2. IInv /\ [Next]_vars => [request' # request => \A a \in own : LetsIn(a)']_vars
    BY <1>1
  <1> QED
    BY <1>2, Invariance, PTL DEF Spec, OwnOnceKnown

\* No timer of an older notice takes a notice away (shares.go:146-149).
THEOREM NoticeStaysCorrect == Spec => NoticeStays
  <1>1. IInv /\ [Next]_vars =>
            [flash # NoFlash /\ flash' = NoFlash => flash \in timers /\ timers' = timers \ {flash}]_vars
    <2> SUFFICES ASSUME IInv, Next, flash # NoFlash, flash' = NoFlash
                 PROVE  flash \in timers /\ timers' = timers \ {flash}
      OBVIOUS
    <2>1. ~Notify
      BY DEF Notify, WithFlash, NoFlash, IInv, TypeOK, NoticesTypeOK
    <2>2. \A u \in URLs : ~Copy(u) /\ ~CopyStep(u)
      BY DEF Copy, CopyStep, CopyReturns, Copied, WithFlash, TerminalCopies, NoFlash, IInv, TypeOK, NoticesTypeOK
    <2>3. PICK id \in timers : FlashExpired(id)
      <3>1. ~DialogKey
        BY DialogKeyForm DEF noticeVars
      <3>2. ~Started /\ ~KeyCopy
        BY <2>2 DEF Started, KeyCopy, IInv, RowInv
      <3> QED
        BY <2>1, <2>2, <3>1, <3>2
           DEF Next, Lookup, Fetch, ApplyOwnAddrs, DialogKey, DialogRefused, ShareGone, Submit, Expires, Copies, noticeVars
    <2> QED
      BY <2>3 DEF FlashExpired, IInv, FlashInv
  <1> QED
    BY <1>1, Invariance, PTL DEF Spec, NoticeStays

-----------------------------------------------------------------------------
(***************************************************************************)
(* What liveness rests on: the timer of a notice on screen runs, and no    *)
(* copy is dropped.                                                        *)
(***************************************************************************)
NoticeTimed == flash # NoFlash => flash \in timers

\* A notice on screen has a timer that will take it away, whatever timers have
\* ended before (shares.go:236-243).
THEOREM NoticeTimedCorrect == Spec => []NoticeTimed
  <1>1. IInv => NoticeTimed
    BY DEF IInv, FlashInv, NoticeTimed
  <1> QED
    BY <1>1, Invariance, PTL

\* The goroutine of copyCmd or one of its messages has the URL, and has not
\* put it into the clipboard yet.
UnderWay(u) == \E c \in copies : c.url = u /\ c.at # "copied"

CopyKept == [][\A u \in URLs : UnderWay(u) => UnderWay(u)' \/ clipboard' = u]_vars

\* The steps of one copy leave those of other URLs alone.
LEMMA CopyStepKeeps ==
    ASSUME IInv, NEW v \in URLs, CopyStep(v), NEW u \in URLs, UnderWay(u)
    PROVE  UnderWay(u)' \/ clipboard' = u
  <1>1. PICK c \in copies : c.url = u /\ c.at # "copied"
    BY DEF UnderWay
  <1>2. c = Copying(u, c.at) /\ c.at \in {"running", "failed", "terminal"}
    BY <1>1 DEF IInv, TypeOK, NoticesTypeOK, Copying
  <1>3. CASE u # v
    <2>1. \A at : c # Copying(v, at)
      BY <1>1, <1>3 DEF Copying
    <2>2. c \in copies'
      BY <2>1 DEF CopyStep, CopyReturns, Copied, TerminalCopies
    <2> QED
      BY <1>1, <2>2 DEF UnderWay
  <1>4. CASE u = v
    <2>1. CASE CopyReturns(v)
      <3>1. clipboard' = u \/ Copying(u, "failed") \in copies'
        BY <1>4, <2>1 DEF CopyReturns
      <3> QED
        BY <3>1 DEF UnderWay, Copying
    <2>2. CASE Copied(v)
      <3>1. CASE Copying(v, "copied") \in copies /\ copies' = copies \ {Copying(v, "copied")}
        <4>1. c # Copying(v, "copied")
          BY <1>1 DEF Copying
        <4>2. c \in copies'
          BY <3>1, <4>1
        <4> QED
          BY <1>1, <4>2 DEF UnderWay
      <3>2. CASE copies' = (copies \ {Copying(v, "failed")}) \union {Copying(v, "terminal")}
        <4>1. Copying(v, "terminal") \in copies'
          BY <3>2
        <4> QED
          BY <1>4, <4>1 DEF UnderWay, Copying
      <3> QED
        BY <2>2, <3>1, <3>2 DEF Copied
    <2>3. CASE TerminalCopies(v)
      BY <1>4, <2>3 DEF TerminalCopies
    <2> QED
      BY <2>1, <2>2, <2>3 DEF CopyStep
  <1> QED
    BY <1>3, <1>4

\* What is copied changes only where copying begins, or goes on.
LEMMA CopiesChange ==
    ASSUME IInv, [Next]_vars, ~\E v \in URLs : Copies(v), ~Started, ~KeyCopy
    PROVE  UNCHANGED copies
  BY DialogKeyForm
     DEF Next, Lookup, Fetch, ApplyOwnAddrs, DialogKey, DialogRefused, ShareGone, Notify, Submit, Expires, FlashExpired,
         noticeVars, vars

\* No copy is dropped: whether cfg.Copy succeeds or the terminal has to do it,
\* the URL stays under way until it is in the clipboard
\* (shares.go:140-145, 219-223).
THEOREM CopyKeptCorrect == Spec => CopyKept
  <1>1. ASSUME IInv, [Next]_vars, NEW u \in URLs, UnderWay(u) PROVE UnderWay(u)' \/ clipboard' = u
    <2>1. CASE \E v \in URLs : Copies(v)
      BY <1>1, <2>1, CopyStepKeeps DEF Copies
    <2>2. CASE Started \/ KeyCopy
      BY <1>1, <2>2 DEF Started, KeyCopy, Copy, UnderWay
    <2> QED
      BY <1>1, <2>1, <2>2, CopiesChange DEF UnderWay
  <1>2. IInv /\ [Next]_vars => [\A u \in URLs : UnderWay(u) => UnderWay(u)' \/ clipboard' = u]_vars
    BY <1>1
  <1> QED
    BY <1>2, Invariance, PTL DEF Spec, CopyKept
-----------------------------------------------------------------------------
(***************************************************************************)
(* Liveness.  No prover here reasons about ENABLED, so that the guard of   *)
(* an action is all that it needs is a hypothesis of the theorems.         *)
(***************************************************************************)
TimerCanEnd(id) == id \in timers => ENABLED <<Expires(id)>>_vars

CopyCanMove(u) == (\E c \in copies : c.url = u) => ENABLED <<Copies(u)>>_vars

\* Only the notice's own timer ends it, or the next notice.
LEMMA NoticeGoesOne ==
    ASSUME NEW id \in 1..MaxNotices
    PROVE  Spec /\ []TimerCanEnd(id) /\ TimerFair(id) => (flash = id ~> flash # id)
  <1>1. IInv /\ flash = id => id \in timers
    BY DEF IInv, FlashInv, NoFlash
  <1>2. IInv /\ <<Expires(id)>>_vars => (flash # id)'
    BY DEF Expires, FlashExpired, IInv, FlashInv, NoFlash
  <1>3. flash = id \/ flash # id
    OBVIOUS
  <1> QED
    BY <1>1, <1>2, <1>3, Invariance, PTL DEF Spec, TimerCanEnd, TimerFair

\* A notice is on screen for no longer than its timer runs, however many
\* notices come after it and however late their timers are (shares.go:236-243).
THEOREM NoticeGoesCorrect == LiveSpec /\ [](\A id \in 1..MaxNotices : TimerCanEnd(id)) => NoticeGoes
  <1> DEFINE CanEnd == \A id \in 1..MaxNotices : TimerCanEnd(id)
  <1>1. ASSUME NEW id \in 1..MaxNotices PROVE LiveSpec /\ []CanEnd => (flash = id ~> flash # id)
    <2>1. LiveSpec => Spec /\ TimerFair(id)
      BY DEF LiveSpec
    <2>2. CanEnd => TimerCanEnd(id)
      OBVIOUS
    <2> QED
      BY <2>1, <2>2, NoticeGoesOne, PTL
  <1> QED
    BY <1>1 DEF NoticeGoes

\* Where the copying of a URL is.
At(u, at) == Copying(u, at) \in copies

OneCopy == \A c, d \in copies : c.url = d.url => c = d

\* A URL is copied by one goroutine at a time.
LEMMA OneCopyInv == Spec => []OneCopy
  <1>1. Init => OneCopy
    BY DEF Init, NoticesInit, OneCopy
  <1>2. IInv /\ OneCopy /\ [Next]_vars => OneCopy'
    <2> SUFFICES ASSUME IInv, OneCopy, [Next]_vars PROVE OneCopy'
      OBVIOUS
    <2>1. CASE \E v \in URLs : Copies(v)
      BY <2>1 DEF OneCopy, Copies, CopyStep, CopyReturns, Copied, TerminalCopies, Copying
    <2>2. CASE Started \/ KeyCopy
      BY <2>2 DEF OneCopy, Started, KeyCopy, Copy, Copying
    <2> QED
      BY <2>1, <2>2, CopiesChange DEF OneCopy
  <1> QED
    BY <1>1, <1>2, Invariance, PTL DEF Spec

\* What one step of a copy does, wherever the copying is.
LEMMA CopyStepForm ==
    ASSUME OneCopy, NEW u \in URLs, NEW at, At(u, at), Copies(u)
    PROVE  /\ at = "running" => clipboard' = u \/ At(u, "failed")'
           /\ at = "failed" => At(u, "terminal")'
           /\ at = "terminal" => clipboard' = u
  <1>1. \A other : Copying(u, other) \in copies => other = at
    BY DEF OneCopy, At, Copying
  <1> QED
    BY <1>1 DEF At, Copies, CopyStep, CopyReturns, Copied, TerminalCopies

\* A copy waits for its own steps only.
LEMMA CopyWaits ==
    ASSUME IInv, [Next]_vars, NEW u \in URLs, NEW at, At(u, at), ~Copies(u)
    PROVE  At(u, at)'
  <1>1. CASE \E v \in URLs : Copies(v)
    <2>1. PICK v \in URLs : Copies(v) /\ v # u
      BY <1>1
    <2>2. \A other : Copying(v, other) # Copying(u, at)
      BY <2>1 DEF Copying
    <2> QED
      BY <2>1, <2>2 DEF At, Copies, CopyStep, CopyReturns, Copied, TerminalCopies
  <1>2. CASE Started \/ KeyCopy
    BY <1>2 DEF At, Started, KeyCopy, Copy
  <1> QED
    BY <1>1, <1>2, CopiesChange DEF At

\* One URL, from the goroutine by way of the terminal.
LEMMA CopyArrivesOne ==
    ASSUME NEW u \in URLs
    PROVE  Spec /\ []CopyCanMove(u) /\ CopyFair(u) => (Copying(u, "running") \in copies ~> clipboard = u)
  <1> DEFINE Running == At(u, "running")
             Failed == At(u, "failed")
             Terminal == At(u, "terminal")
             There == clipboard = u
             Exists == \E c \in copies : c.url = u
  <1>1. Running \/ Failed \/ Terminal => Exists
    BY DEF At, Copying
  <1>2. IInv /\ OneCopy /\ Running /\ [Next]_vars => Running' \/ Failed' \/ There'
    BY CopyStepForm, CopyWaits
  <1>3. IInv /\ OneCopy /\ Failed /\ [Next]_vars => Failed' \/ Terminal'
    BY CopyStepForm, CopyWaits
  <1>4. IInv /\ OneCopy /\ Terminal /\ [Next]_vars => Terminal' \/ There'
    BY CopyStepForm, CopyWaits
  <1>5. OneCopy /\ Running /\ <<Copies(u)>>_vars => Failed' \/ There'
    BY CopyStepForm
  <1>6. OneCopy /\ Failed /\ <<Copies(u)>>_vars => Terminal'
    BY CopyStepForm
  <1>7. OneCopy /\ Terminal /\ <<Copies(u)>>_vars => There'
    BY CopyStepForm
  <1>8. Copying(u, "running") \in copies <=> Running
    BY DEF At
  <1> HIDE DEF Running, Failed, Terminal, There, Exists
  <1>9. Spec /\ []CopyCanMove(u) /\ CopyFair(u) => (Running ~> There)
    <2>1. CopyCanMove(u) => (Exists => ENABLED <<Copies(u)>>_vars)
      BY DEF CopyCanMove, Exists
    <2> QED
      BY <1>1, <1>2, <1>3, <1>4, <1>5, <1>6, <1>7, <2>1, Invariance, OneCopyInv, PTL DEF Spec, CopyFair
  <1> QED
    BY <1>8, <1>9, PTL DEF There

\* Every URL whose copying has begun gets to the clipboard, by cfg.Copy or by
\* the terminal, whatever else is copied meanwhile (shares.go:140-145, 219-223).
THEOREM CopyArrivesCorrect == LiveSpec /\ [](\A u \in URLs : CopyCanMove(u)) => CopyArrives
  <1> DEFINE CanMove == \A u \in URLs : CopyCanMove(u)
  <1>1. ASSUME NEW u \in URLs PROVE LiveSpec /\ []CanMove => (Copying(u, "running") \in copies ~> clipboard = u)
    <2>1. LiveSpec => Spec /\ CopyFair(u)
      BY DEF LiveSpec
    <2>2. CanMove => CopyCanMove(u)
      OBVIOUS
    <2> QED
      BY <2>1, <2>2, CopyArrivesOne, PTL
  <1> QED
    BY <1>1 DEF CopyArrives
=============================================================================
