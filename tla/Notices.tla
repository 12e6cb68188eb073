------------------------------- MODULE Notices -------------------------------
(***************************************************************************)
(* What the terminal UI tells its user: notices in the status line, each   *)
(* of which a timer of its own takes away, and URLs in the clipboard       *)
(* (withFlash, copyCmd, copiedMsg and flashExpiredMsg of                   *)
(* internal/tui/shares.go).  A notice is named by its number, flashID;     *)
(* its text does not matter.  The clipboard is external.                   *)
(***************************************************************************)
EXTENDS Naturals, FiniteSets

CONSTANT URLs   \* the URLs that shares may have

ASSUME URLsAssumption == URLs \subseteq Nat \ {0}

VARIABLES
    flash,      \* the notice in m.flash, NoFlash if it is empty
    flashID,    \* m.flashID
    timers,     \* the notices whose timer runs
    copies,     \* goroutines and messages of copyCmd, with what they have done
    clipboard   \* the URL in the clipboard, 0 if there is none

noticeVars == <<flash, flashID, timers, copies, clipboard>>

NoFlash == 0

Copying(url, at) == [url |-> url, at |-> at]

NoticesTypeOK ==
    /\ flash \in Nat
    /\ flashID \in Nat
    /\ timers \subseteq Nat
    /\ copies \subseteq [url : URLs, at : {"running", "copied", "failed", "terminal"}]
    /\ clipboard \in URLs \union {0}

NoticesInit ==
    /\ flash = NoFlash
    /\ flashID = 0
    /\ timers = {}
    /\ copies = {}
    /\ clipboard = 0

\* Mutant of WithFlash: a timer that runs is relied on.
WithFlash_OneTimer ==
    /\ flashID' = flashID + 1
    /\ flash' = flashID'
    /\ timers' = IF timers = {} THEN {flashID'} ELSE timers

\* withFlash
WithFlash ==
    /\ flashID' = flashID + 1
    /\ flash' = flashID'
    /\ timers' = timers \union {flashID'}

\* A notice and nothing else.
Notify == WithFlash /\ UNCHANGED <<copies, clipboard>>

\* Mutant of FlashExpired: any timer takes the notice away.
FlashExpired_Any(id) ==
    /\ id \in timers
    /\ timers' = timers \ {id}
    /\ flash' = NoFlash
    /\ UNCHANGED <<flashID, copies, clipboard>>

\* flashExpiredMsg.  Timers may be late, so they end in any order.
FlashExpired(id) ==
    /\ id \in timers
    /\ timers' = timers \ {id}
    /\ flash' = IF id = flashID THEN NoFlash ELSE flash
    /\ UNCHANGED <<flashID, copies, clipboard>>

\* copyCmd starts a goroutine.  Bound: one at a time for a URL.
Copy(url) ==
    /\ \A c \in copies : c.url # url
    /\ copies' = copies \union {Copying(url, "running")}
    /\ UNCHANGED <<flash, flashID, timers, clipboard>>

\* cfg.Copy returns.
CopyReturns(url) ==
    /\ Copying(url, "running") \in copies
    /\ \/ /\ copies' = (copies \ {Copying(url, "running")}) \union {Copying(url, "copied")}
          /\ clipboard' = url
       \/ /\ copies' = (copies \ {Copying(url, "running")}) \union {Copying(url, "failed")}
          /\ UNCHANGED clipboard
    /\ UNCHANGED <<flash, flashID, timers>>

\* Mutant of Copied: a copy that failed is not left to the terminal.
Copied_NoFallback(url) ==
    /\ \E at \in {"copied", "failed"} :
          /\ Copying(url, at) \in copies
          /\ copies' = copies \ {Copying(url, at)}
    /\ WithFlash
    /\ UNCHANGED clipboard

\* copiedMsg: what could not be copied is left to the terminal.
Copied(url) ==
    /\ \/ /\ Copying(url, "copied") \in copies
          /\ copies' = copies \ {Copying(url, "copied")}
       \/ /\ Copying(url, "failed") \in copies
          /\ copies' = (copies \ {Copying(url, "failed")}) \union {Copying(url, "terminal")}
    /\ WithFlash
    /\ UNCHANGED clipboard

\* tea.SetClipboard
TerminalCopies(url) ==
    /\ Copying(url, "terminal") \in copies
    /\ copies' = copies \ {Copying(url, "terminal")}
    /\ clipboard' = url
    /\ UNCHANGED <<flash, flashID, timers>>

CopyStep(url) == CopyReturns(url) \/ Copied(url) \/ TerminalCopies(url)

\* A notice on screen is the latest, and its timer runs.
FlashInv ==
    /\ timers \subseteq 1..flashID
    /\ flash # NoFlash => flash = flashID /\ flashID \in timers
=============================================================================
