------------------------------- MODULE Dialog -------------------------------
(***************************************************************************)
(* One row of the list from the share key to the end of its share: the     *)
(* dialog (internal/tui/dialog.go, openDialog and handleDialogKey of       *)
(* shares.go), the lookup of the machine's own addresses, which runs       *)
(* meanwhile (internal/publicip, lookupCmd and applyOwnAddrs of model.go), *)
(* the allowlist that comes of both, and what the user is told.  Several   *)
(* rows, and how shares begin and end, are left to module Tui; what the    *)
(* servers that tell the address answer is external.                       *)
(***************************************************************************)
EXTENDS Acl, Notices

CONSTANTS
    Entries,  \* the entries that can be typed
    Texts,    \* the sets of entries that the allow input can hold
    Bodies,   \* the traces that the two networks may answer with
    Choices,  \* how many expiries there are to choose from
    MaxNotices  \* bound: notices in a behaviour

ASSUME EntriesAssumption == \A e \in Entries : IsEntry(e)

ASSUME TextsAssumption == {} \in Texts /\ Texts \subseteq SUBSET Entries

\* A line of a trace is the address, a broken address, or something else.
Line == [kind : {"ip", "bad", "other"}, addr : Addr]

ASSUME BodiesAssumption ==
    /\ DOMAIN Bodies = {1, 2}
    /\ \A n \in {1, 2} : \A body \in Bodies[n] :
          DOMAIN body \subseteq Nat /\ \A i \in DOMAIN body : body[i] \in Line

\* defaultExpiryIndex is one of them.
ASSUME ChoicesAssumption == Choices \in Nat \ {0, 1}

VARIABLES
    asked,      \* the networks that lookup has asked
    found,      \* addrs of lookup
    trace,      \* what each network has to tell
    own,        \* m.own
    ownErr,     \* m.ownErr is not nil
    applied,    \* ownAddrsMsg has been applied
    dialog,     \* m.dialog
    lastAllow,  \* m.lastAllow
    request,    \* the last request given to startShareCmd
    row,        \* the selected row, as openDialog sees it
    url         \* the URL of the last share, which its number stands for

lookupVars == <<asked, found, trace, own, ownErr, applied>>

dialogVars == <<dialog, lastAllow, request>>

rowVars == <<row, url>>

vars == <<lookupVars, dialogVars, rowVars, noticeVars>>

Closed == [field |-> "closed"]

Open == dialog.field # "closed"

Dialogs ==
    [typed : Texts, expiry : 0..Choices - 1, field : {"allow", "expire"},
     own : SUBSET Addr, err : {"nil", "refused"}]

None == [state |-> "none"]

\* A request, with what it was made of.
Requests == [state : {"made"}, typed : Texts, own : SUBSET Addr, expires : 0..Choices - 1]

Traces == {t \in [{1, 2} -> Bodies[1] \union Bodies[2]] : \A n \in {1, 2} : t[n] \in Bodies[n]}

\* Every variable keeps its type.
TypeOK ==
    /\ asked \in 0..2
    /\ found \subseteq Addr
    /\ trace \in Traces
    /\ own \subseteq Addr
    /\ ownErr \in BOOLEAN
    /\ applied \in BOOLEAN
    /\ dialog \in Dialogs \union {Closed}
    /\ lastAllow \in Texts
    /\ request \in Requests \union {None}
    /\ row \in {"free", "opening", "shared"}
    /\ url \in URLs \union {0}
    /\ NoticesTypeOK

Init ==
    /\ asked = 0
    /\ found = {}
    /\ trace \in Traces
    /\ own = {}
    /\ ownErr = FALSE
    /\ applied = FALSE
    /\ dialog = Closed
    /\ lastAllow = {}
    /\ request = None
    /\ row = "free"
    /\ url = 0
    /\ NoticesInit

-----------------------------------------------------------------------------
(***************************************************************************)
(* The lookup.                                                             *)
(***************************************************************************)

\* parseTrace: the first line with an address decides.
ParseTrace(body) ==
    {body[i].addr : i \in {n \in DOMAIN body :
        body[n].kind = "ip" /\ \A k \in 1..n - 1 : body[k].kind = "other"}}

\* Mutant of Fetched: the first network that fails ends the lookup.
Fetched_GiveUp(addrs) ==
    /\ found' = found \union addrs
    /\ asked' = IF addrs = {} THEN 2 ELSE asked + 1

\* One turn of lookup's loop, which has got addrs, or an error.
Fetched(addrs) ==
    /\ found' = found \union addrs
    /\ asked' = asked + 1

\* fetch asks the next network.  An empty trace stands for none: for no
\* connection, an error status, requestTimeout and lookupTimeout.
Fetch ==
    /\ asked < 2
    /\ Fetched(ParseTrace(trace[asked + 1]))
    /\ UNCHANGED <<trace, own, ownErr, applied, dialogVars, rowVars, noticeVars>>

\* Mutant of ApplyOwnAddrs: a dialog that is open is not told.
ApplyOwnAddrs_KeepDialog ==
    /\ asked = 2
    /\ ~applied
    /\ applied' = TRUE
    /\ own' = found
    /\ ownErr' = (found = {})
    /\ UNCHANGED <<asked, found, trace, dialogVars, rowVars, noticeVars>>

\* lookup returns, an error if it found nothing, and its message is applied.
ApplyOwnAddrs ==
    /\ asked = 2
    /\ ~applied
    /\ applied' = TRUE
    /\ own' = found
    /\ ownErr' = (found = {})
    /\ dialog' = IF Open THEN [dialog EXCEPT !.own = found] ELSE dialog
    /\ UNCHANGED <<asked, found, trace, lastAllow, request, rowVars, noticeVars>>

-----------------------------------------------------------------------------
(***************************************************************************)
(* The dialog.                                                             *)
(***************************************************************************)

\* The notices that may still come without a key: of copies, and of the share.
Due == flashID + Cardinality(copies) + (CASE row = "free" -> 0 [] row = "opening" -> 2 [] row = "shared" -> 1)

\* openDialog, for a row that is shared or about to be.
DialogRefused ==
    /\ ~Open
    /\ row # "free"
    /\ Due < MaxNotices
    /\ Notify
    /\ UNCHANGED <<lookupVars, dialogVars, rowVars>>

\* openDialog and newShareDialog
OpenDialog ==
    /\ ~Open
    /\ row = "free"
    /\ dialog' = [typed |-> lastAllow, expiry |-> 1, field |-> "allow", own |-> own, err |-> "nil"]
    /\ UNCHANGED <<lookupVars, lastAllow, request, rowVars, noticeVars>>

\* Mutant of Type: an error stays until the next submit.
Type_KeepErr(text) ==
    /\ Open
    /\ dialog.field = "allow"
    /\ dialog' = [dialog EXCEPT !.typed = text]
    /\ UNCHANGED <<lookupVars, lastAllow, request, rowVars, noticeVars>>

\* A key in the allow input.  One step stands for any number of keys.
Type(text) ==
    /\ Open
    /\ dialog.field = "allow"
    /\ dialog' = [dialog EXCEPT !.typed = text, !.err = "nil"]
    /\ UNCHANGED <<lookupVars, lastAllow, request, rowVars, noticeVars>>

\* switchField
SwitchField ==
    /\ Open
    /\ dialog' = [dialog EXCEPT !.field = IF @ = "allow" THEN "expire" ELSE "allow"]
    /\ UNCHANGED <<lookupVars, lastAllow, request, rowVars, noticeVars>>

ExpiryLeft ==
    /\ Open
    /\ dialog.field = "expire"
    /\ dialog' = [dialog EXCEPT !.expiry = IF @ = 0 THEN 0 ELSE @ - 1]
    /\ UNCHANGED <<lookupVars, lastAllow, request, rowVars, noticeVars>>

\* Mutant of ExpiryRight: one step past the last choice.
ExpiryRight_Past ==
    /\ Open
    /\ dialog.field = "expire"
    /\ dialog' = [dialog EXCEPT !.expiry = IF @ = Choices THEN Choices ELSE @ + 1]
    /\ UNCHANGED <<lookupVars, lastAllow, request, rowVars, noticeVars>>

ExpiryRight ==
    /\ Open
    /\ dialog.field = "expire"
    /\ dialog' = [dialog EXCEPT !.expiry = IF @ = Choices - 1 THEN @ ELSE @ + 1]
    /\ UNCHANGED <<lookupVars, lastAllow, request, rowVars, noticeVars>>

Cancel ==
    /\ Open
    /\ dialog' = Closed
    /\ UNCHANGED <<lookupVars, lastAllow, request, rowVars, noticeVars>>

\* The entries of submit: what was typed, and every own address.
Submitted(typed, addrs) == typed \union {AddrEntry(a) : a \in addrs}

\* submit, with entries that acl.Parse refuses: the dialog stays.
SubmitFails ==
    /\ Open
    /\ ParseFails(Submitted(dialog.typed, dialog.own))
    /\ dialog' = [dialog EXCEPT !.err = "refused"]
    /\ UNCHANGED <<lookupVars, lastAllow, request, rowVars, noticeVars>>

\* submit, and handleDialogKey, which starts the share.
Submit ==
    /\ Open
    /\ ~ParseFails(Submitted(dialog.typed, dialog.own))
    /\ Due + 2 <= MaxNotices
    /\ request' = [state |-> "made", typed |-> dialog.typed, own |-> dialog.own, expires |-> dialog.expiry]
    /\ lastAllow' = dialog.typed
    /\ dialog' = Closed
    /\ row' = "opening"
    /\ UNCHANGED <<lookupVars, url, noticeVars>>

-----------------------------------------------------------------------------
(***************************************************************************)
(* The share of the row, and its URL.                                      *)
(***************************************************************************)

\* shareStarted, unless the program is quitting.
Started ==
    /\ row = "opening"
    /\ url + 1 \in URLs
    /\ row' = "shared"
    /\ url' = url + 1
    /\ Copy(url')
    /\ UNCHANGED <<lookupVars, dialogVars>>

\* shareFailedMsg and shareEnded, and afterShareGone.
ShareGone ==
    /\ row # "free"
    /\ row' = "free"
    /\ Notify
    /\ UNCHANGED <<lookupVars, dialogVars, url>>

\* copyURL
KeyCopy ==
    /\ ~Open
    /\ row = "shared"
    /\ Due < MaxNotices
    /\ Copy(url)
    /\ UNCHANGED <<lookupVars, dialogVars, rowVars>>

Expires(id) == FlashExpired(id) /\ UNCHANGED <<lookupVars, dialogVars, rowVars>>

Copies(u) == CopyStep(u) /\ UNCHANGED <<lookupVars, dialogVars, rowVars>>

Lookup == Fetch \/ ApplyOwnAddrs

Next ==
    \/ Lookup
    \/ DialogRefused
    \/ OpenDialog
    \/ \E text \in Texts : Type(text)
    \/ SwitchField
    \/ ExpiryLeft
    \/ ExpiryRight
    \/ Cancel
    \/ SubmitFails
    \/ Submit
    \/ Started
    \/ ShareGone
    \/ KeyCopy
    \/ \E id \in timers : Expires(id)
    \/ \E u \in URLs : Copies(u)

Spec == Init /\ [][Next]_vars

(***************************************************************************)
(* Timers end, cfg.Copy returns and messages are applied.                  *)
(***************************************************************************)
TimerFair(id) == WF_vars(Expires(id))

CopyFair(u) == WF_vars(Copies(u))

LiveSpec ==
    /\ Spec
    /\ \A id \in 1..MaxNotices : TimerFair(id)
    /\ \A u \in URLs : CopyFair(u)

-----------------------------------------------------------------------------
(***************************************************************************)
(* Properties.                                                             *)
(***************************************************************************)

\* What the request of a share lets in.
LetsIn(a) == Allows(Parse(Submitted(request.typed, request.own)), a)

\* A share lets in exactly the hosts that were typed and the machine itself,
\* in whatever form a client's address reaches the proxy, with one exception:
\* an IPv6 range lets in no IPv4 host (acl.go:34-62, dialog.go:97-109).
AllowsExactly ==
    [][request' # request =>
          \A a \in Addr :
              LetsIn(a)' <=> \E e \in Submitted(request'.typed, request'.own) : Names(e, a) /\ SameFamily(e, a)]_vars

\* Once the own addresses are known, every share lets all of them in, also one
\* whose dialog was open before (model.go:139-146, dialog.go:62-65).
OwnOnceKnown == [][request' # request => \A a \in own : LetsIn(a)']_vars

\* What the first n networks have to tell.
Told(n) == UNION {ParseTrace(trace[k]) : k \in 1..n}

\* The own addresses are all that the two networks have to tell, also if one
\* of them fails, and it is an error only if both do (publicip.go:31-46).
OwnIsAllTold == applied => own = Told(2) /\ (ownErr <=> own = {})

\* An error in the dialog is about the text on screen: that text, without the
\* own addresses, makes no allowlist (dialog.go:88-104).
ErrorIsCurrent == Open /\ dialog.err = "refused" => ParseFails(dialog.typed)

\* A notice stays until its own timer or another notice takes it away: no
\* timer of an older one cuts it short (shares.go:146-149, 236-243).
NoticeStays ==
    [][flash # NoFlash /\ flash' = NoFlash => flash \in timers /\ timers' = timers \ {flash}]_vars

\* And every notice goes, whatever comes after it (shares.go:236-243).
NoticeGoes == \A id \in 1..MaxNotices : flash = id ~> flash # id

\* Every URL whose copying has begun gets to the clipboard, at some moment,
\* also if copying fails (shares.go:140-145, 219-223).
CopyArrives == \A u \in URLs : Copying(u, "running") \in copies ~> clipboard = u

(***************************************************************************)
(* The inductive invariant.                                                *)
(***************************************************************************)

\* An open dialog has the addresses of the model, which are none before the
\* lookup has been applied.
OwnInv ==
    /\ Open => dialog.own = own
    /\ found = Told(asked)
    /\ applied => asked = 2 /\ own = found /\ (ownErr <=> found = {})
    /\ ~applied => own = {} /\ ~ownErr

\* A share has a URL.
RowInv == row = "shared" => url \in URLs

IInv == TypeOK /\ OwnInv /\ RowInv /\ FlashInv /\ ErrorIsCurrent

(***************************************************************************)
(* What a comment says, and the code does not do.                          *)
(***************************************************************************)

\* "Allows reports whether addr is inside one of the ranges." (acl.go:34)
AllowsInside ==
    request.state = "made" =>
        \A e \in request.typed, a \in Addr : e.kind = "range" /\ InRange(e, a) => LetsIn(a)
=============================================================================
