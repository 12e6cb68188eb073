# A TLA+ verification project for t5s

t5s finds the web services on a developer's machine and publishes the ones the
user picks: it puts an allowlisting proxy in front of a service and opens a
Cloudflare quick tunnel to the proxy by running `cloudflared`.  A terminal UI
lists services and shares.  The program is small but concurrent: a share is
five goroutines, one external process, a timer and a user, and the UI is an
event loop whose commands answer in any order.

This directory holds TLA+ modules of that behaviour, TLC configurations that
check them on small instances, and proofs that TLAPS checks for every value of
the constants.  Source paths below are relative to the repository.

    tlc -config Share.cfg Share              one run (all are listed below)
    tlapm ShareProofs.tla                    the proofs of one module


## 1. Inventory

### Components, their state and their operations

| Component | Source | State | Operations |
|---|---|---|---|
| share lifecycle | `internal/share/share.go` | the call of `Start`, two goroutines (`supervise` and the one that waits for the tunnel), the error of `Wait` | `Start`, `Stop`, `Wait`, `supervise`, `endReason` |
| proxy lifecycle | `internal/proxy/proxy.go` | listener, serving goroutine, the `AfterFunc` hook, `serveErr` | `Start`, `Wait` |
| cloudflared tunnel | `internal/cloudflared/cloudflared.go`, `tail.go` | the process, `runCtx`, the waiting goroutine, `exitErr`, the last bytes of stderr | `Open`, `awaitReady`, `Wait` |
| context of a share | created in `share.go:53` | live, canceled or expired | create, cancel, deadline |
| proxy requests, access log | `internal/proxy/guard.go`, `access.go` | requests by address, untracked count | `guard`, `record`, `snapshot`, `forward` |
| TUI model | `internal/tui/model.go`, `shares.go`, `dialog.go`, `access.go`, `keys.go` | services, shares, shares that are opening, selection, dialog, access screen, own addresses, quitting, flash text | `Update`: one key or message at a time; commands that answer later |
| list scrolling | `internal/tui/scroll.go` | offsets of two lists | `keepVisible` |
| TUI rendering | `internal/tui/view.go`, `header.go`, `style.go` | none | `View`, the geometry of the screen, the keys on offer |
| service discovery | `internal/discovery/*.go` | the probe cache | `Scan`, `dedupeByPort`, `probeOnce` |
| service naming | `internal/discovery/infer.go`, `docker.go` | none | guesses of names and frameworks |
| allowlist | `internal/acl/acl.go` | a list of prefixes | `Parse`, `Allows` |
| own public address | `internal/publicip/publicip.go` | the addresses found so far | `Lookup`, over two networks |
| program | `cmd/t5s/main.go` | whether the event loop runs | wires the above together; ends by `tea.Quit`, a signal or an error |

### How they interact

- The TUI calls `share.Start` on a goroutine of its own (a Bubble Tea command)
  and learns of the outcome by a message; a second command per share waits in
  `Share.Wait` and reports the end by a message that carries the port.
- `share.Start` derives a context with a deadline and hands it to the proxy
  and to cloudflared.  That context is the only thing the two halves share:
  canceling it closes the server (`context.AfterFunc`) and kills the process
  (`exec.CommandContext`).
- `Stop` is that context's cancel function.  The two goroutines of `supervise`
  call it too, so that the loss of one half takes the other half down.
- The dialog holds a copy of the own addresses, which the answer of the lookup
  replaces while it is open; what it submits goes through `acl.Parse` to the
  guard of the proxy.
- Tunnels know nothing of each other, but draw their metrics ports from one
  pool, and ask whoever serves a port for a hostname.
- The proxy's handlers and the UI's clock meet in the access log, under its
  mutex.
- `Scanner.Scan` is a chain of commands: a scan, its message, a tick of three
  seconds, the next scan.

### Which behaviours are hard, and what makes each component correct

`PROJECT.json` lists every hazard at its line.  In short:

- **share**: three causes of an end (Stop, deadline, loss of a half) race, and
  each of the internal ones cancels the context in its turn.  Correct: `Wait`
  reports the true cause; when `Start` has failed or `Wait` has returned,
  nothing is listening and no process runs; neither half survives the other;
  `Start` and a stopped share always come to an end.
- **proxy**: the context may be done before `Serve` has taken the listener
  over, and `srv.Close` closes only listeners `Serve` has.  Correct: the
  listener is closed whenever the serving goroutine is through.
- **tunnel**: the process may die, or be killed, at any moment of `Open`, also
  between the answers of a poll and the return of `Open`; the waiting goroutine
  must look at `runCtx` before its own deferred `stop()`.  Correct: an error
  of `Wait` means that the process died while it was wanted; `Open` leaves no
  process behind when it fails.  The metrics port is free again between the
  search for it and the moment cloudflared binds it, so two tunnels may be given
  the same one.  Correct: the URL is that of a tunnel that was given the port,
  and two tunnels never share a port for good.
- **TUI**: the list changes under the dialog, under the access screen and under
  the cursor; the user may quit while a share is opening, and type on after
  quitting; messages name ports, not shares.  Correct: a port has at most one
  share; no share that runs is forgotten; a share that starts while the program
  is quitting is stopped and waited for; screens and selection refer to what
  is on the list, and the keys on offer are the ones that do something.
- **dialog and allowlist**: the own addresses arrive while the user types; one
  of the two networks may fail; an address can be written in three forms and
  arrive in three.  Correct: a share lets in exactly the hosts that were typed
  and the machine itself; an error is about the text on screen.
- **notices and clipboard**: each notice has a timer, which may end under a
  later notice; copying may fail.  Correct: a notice goes by its own timer, and
  goes; the URL arrives.
- **access log**: concurrent requests, a limit on the addresses tracked.
  Correct: every request is counted exactly once, and forwarded only if allowed.
- **discovery**: a cache that must forget listeners that are gone and must not
  keep a result that was only a timeout.
- **screen**: two lists share the lines of the terminal with the dialog and the
  status line, and everything is cut when the terminal is low.  Correct: what is
  selected is on screen and under the terminal's cursor, for every height that
  has room for it.


## 2. The modules

    Context                            the share's context (Go library)
      ProxyServer  Tunnel              the two halves of a share
        Share ------implements----->  ShareContract
          ShareProofs                     |
                                          | INSTANCE
                                         Tui ------implements-----> PortStates
                                           MCTui (TLC instances)
                                           TuiProofs
                                             TuiRefinement

    Acl     Notices                    allowlists; notices and clipboard
      Dialog                           one row, from the share key to the end
        MCDialog    DialogProofs

    AccessLog                          the log, shared by two modules
      ProxyServer + AccessLog -> Requests ---- MCRequests
                                   RequestsProofs
      Scroll                           keepVisible
        Layout                         the lines of the terminal
          Layout + AccessLog -> Screens ---- MCScreens
                                  ScreensProofs

    Tunnels ---- MCTunnels             several tunnels, and their ports
      TunnelsProofs

    Discovery ---- MCDiscovery
      DiscoveryProofs

| Module | Models | Correspondence |
|---|---|---|
| `Context` | `context.WithDeadline` as `share.go:53` uses it | `ctx` moves once from `live` to `canceled` or `expired`; the first decides for good, as `ctx.Err()` does |
| `ProxyServer` | `proxy.Start`, the serving goroutine, the hook, `Wait` | `listener` the socket; `hook` what `context.AfterFunc` registered; `serve` how far the goroutine of `proxy.go:65-71` is, its two deferred calls one step (unregistering and `close(p.served)` are observed in no order that matters); `serveErr` the field |
| `Tunnel` | `Backend.Open`, `awaitReady`, the goroutine of `cloudflared.go:65-71`, `Tunnel.Wait`, the process | `open` how far `Open` is; `proc` the process, with "lost" and "killed" telling whether it was still wanted when it died; `runCtx` what the tunnel's own `stop()` did; `waiter` the goroutine with each of its deferred calls a step of its own; `exitErr` the field |
| `Tunnels` | `freeLoopbackAddr`, `awaitReady` and its two requests, for several tunnels | `metrics` and `hostname` the local values of each `Open`; `step` how far it and its share are; `proc` the process, which binds its port or exits |
| `Share` | `share.go` whole | `start` the call of `Start`; `watcher` and `sup` the two goroutines of `supervise`; `endErr` what `Wait` returns; `stopCall` a history variable |
| `ShareContract` | what the UI may rely on, for any set of shares | phases idle, opening, failed, running, ended; the set of shares that expose something; who was asked to stop; the results |
| `Tui` | `model.go`, `shares.go`, `access.go` as far as they decide what is shared, `visibleKeys` | one action per key and message; `services`, `opening`, `shares`, `cursor`, `access`, `dialog`, `quitting` are the fields of `Model`; `starts` and `waits` the commands whose message is still to come; `quitIssued` the decision to exit, `tea.Quit`; `exited` the end of the event loop, by its message (`Exit`) or by a signal or an error (`Interrupted`); the shares themselves are those of `ShareContract` |
| `PortStates` | what the user is told about the ports, without the UI | `state` is what the list shows of a port, `public` whether it can be reached, `leaving` and `over` the decision to exit and the exit, which may come without one |
| `Acl` | `acl.go` whole | an address is a family, a row of bits and a zone; `Host` is `Unmap().WithZone("")`; `Names` is the reference that says whom an entry means |
| `Notices` | `withFlash`, `copyCmd` and their messages | `flash`, `flashID` the fields; `timers` the ticks that run; `copies` the goroutines and messages of `copyCmd`; a notice is its number |
| `Dialog` | `dialog.go`, `lookup`, `fetch`, `parseTrace`, `applyOwnAddrs`, and what `shares.go` does around them | `asked`, `found` the loop of `lookup`; `own`, `ownErr`, `dialog`, `lastAllow` the fields; `request` what `startShareCmd` was given; `row` the share of the row as the dialog sees it |
| `AccessLog` | `access.go` of `internal/proxy` | `log` the map, an address without requests being one that is not in it; `untracked` the field; both operations hold the mutex throughout, so each is one step |
| `Requests` | `guard.go`, `forward` and `BaseContext` of `proxy.go` | `req` how far the handler of each request is; `client` and `stamp` its local values; the proxy and its context are those of `ProxyServer` and `Context` |
| `Scroll` | `keepVisible` of `scroll.go` | the function, and a reference that says what a good window is |
| `Layout` | the geometry of `view.go` | a line of the terminal is the part of the screen it belongs to and the number of its entry; `ScreenLine` says which it is for every line, after the cut; `Entries` and `LabelTrue` are the reference |
| `Screens` | `internal/tui/access.go`, `applyClock`, `scrolled`, and the lists of both screens | `accesses` the copy of the log that the UI holds; `cursor`, `offset` the fields of `accessView`; `rows` the length of the list of services, `rowCursor`, `rowOffset` its cursor and window; `height`, `dialog` what decides how many lines they have |
| `Discovery` | `discovery.go`, `address.go`, `probe.go`, `scanCmd` and `applyScan` | `probed` the cache of `Scanner`; `candidates`, `results` the local values of a scan; `scanning` whether one runs or how the last one ended (`m.err`); `services` the list of the UI; `up`, `answer` the processes of the machine; `spoiled` a history variable |

Every definition that stands for code is listed with its lines in `map` of
`PROJECT.json`.  Operators whose name has an underscore (`Started_Forget`) are
mutants: plausible bugs, one for each property at least, which TLC must catch.

**Granularity.**  A step of `Share` is what one goroutine does between two
points where another could notice: an assignment that others read, a `close`
of a channel, a call of a cancel function.  A step of `Tui` is one call of
`Update`, because Bubble Tea applies messages one at a time.  In `Tui` a port
stands for its service (the code finds services and shares by port alone), a
position in the list is the rank of its port (`rows()` sorts by port), and a
`selectPort` that searches the rows is the rank of the port that was selected.
A step of `Requests` is what a handler does between two points where another
handler or the end of the share could come in: reading the clock and taking the
lock of the log are two steps, because they are two in `guard.go:26`.  A step of
`Tunnels` is one request of a poll, or one thing a process does.  A step of
`Discovery` is the listing with the lookups of the cache, one probe, or the end
of a scan; probes run on goroutines and overlap, and listeners come, go and
change their answers between any two steps.

**Composition.**  `Share` extends the two halves, whose actions are frame-free
for the other half's variables; the share's own actions call theirs
(`ProxyStart`, `CtxCancel`) where the code calls the functions.  `Tui` does not
compose with `Share` but with `ShareContract`, which `Share` is proved to
implement: so the UI is checked with several shares at once, at the cost of a
few states per share instead of 2054.  What that adds up to for the user is
`PortStates`, which `Tui` is proved to implement in turn, with its lists as the
states of the ports (`PS` in `Tui`).  `Requests` runs `ProxyServer` and
`Context` under the requests, with the rest of the share reduced to what can end
it.  `Screens` takes its log from `AccessLog`, with requests whose times come
in any order, which is what `Requests` shows they may do; its rows are any that
`Tui` allows, a cursor on a row (`CursorOnRow`), without the reason why.
`Dialog` follows one row only, as the others cannot change what its dialog
holds, and `Tui` leaves out what `Dialog` has: that a share is submitted is all
it needs.  `Tunnels` and `Tunnel` divide `cloudflared.go`: one tunnel in every
detail of its goroutines, several with what they take from each other.  `Tunnel`
therefore lets a poll be answered whoever serves the port.


## 3. What the runs check

`Share` has no constants.  Its state space (2054 distinct states) is complete:
one call of `Start` and everything that can happen around it, any number of
`Stop` calls included, and no bound anywhere.

| Run | What it shows |
|---|---|
| `share` | `EndReasonTrue`: Wait's reason is the true one. `NothingLeftBehind`: a share that failed or ended has no open socket and no process. `ImplementsContract`: `Share` refines `ShareContract` under the mapping at its end. `StartReturns`: `Start` returns, however `cloudflared` behaves. `StopEnds`: a stopped share ends. `HalfShareEnds`: a share with one half gone ends. `ExpiryEnds`: so does one whose time is over. |
| `tui` | Two ports, two calls of `Start`. `OneSharePerPort`, `NoShareLost`, `CursorOnRow`: no share is doubled or forgotten, and the selection agrees with the list. `ExitWaits`: once t5s has decided to exit, nothing is exposed but what the user submits after that. `KeepsPromises`: `Tui` refines `PortStates`, so a port is public only while the list has it, and t5s decides to exit only with an empty list. `KeysWork`: the keys on offer are those that do something, on the access screen as well, which therefore closes with its share. `SelectionKept`: the selection leaves a port that has a row only by an arrow key or by a share that brings or takes a row above it, never by a scan. `QuitExits`: after q with shares on the list the program exits. `StopShown`: a stopped share leaves the list. |
| `dialog` | `AllowsExactly`: a share lets in the hosts that were typed and the own ones, and nobody else. `OwnOnceKnown`: the own addresses are among them once they are known, also if the dialog was open before. `OwnIsAllTold`: what one network tells survives the failure of the other. `ErrorIsCurrent`: an error is about the text on screen. `NoticeStays`, `NoticeGoes`: a notice goes by its own timer or for a later notice, and goes. `CopyArrives`: the URL gets to the clipboard, if need be through the terminal. |
| `requests` | `LogExact`: every request is counted exactly once, also at the limit. `OnlyAllowedServed`: only requests of allowed addresses reach the service. `CutOff`: when a share ends, so does every exchange, WebSockets included and also when the accept loop had failed. |
| `screens` | `SelectionOnScreen`: each window holds its cursor and is full, the terminal's cursor is on the selected entry or the field of the dialog, the status line is last, and the label of the panel says what is on screen. `SelectionFollowsAddr`: no refresh moves the selection to another address. `ScrollsLeast`: no window jumps. `VisitorListed`: whoever is in the log gets on the list. |
| `discovery` | `OnePerPort`: one service for a port, none of t5s; the cache never holds a timeout (`TypeOK`). `WebListed`: a web service that stays is listed in the end. `GoneUnlisted`: one that is gone leaves the list. |
| `tunnels` | `UrlFromPort`: the URL of an open tunnel is that of a tunnel that was given the same port. `CollisionSettles`: of two open tunnels with one port, one ends. |
| `tui_selection`, `tui_exit`, `dialog_mapped`, `requests_order`, `discovery_hidden` | the findings of section 6; TLC must find the violation. |

**Bounds of `Tui`.**  `Ports` are the services of the machine, `Shares` the
calls of `share.Start` in one run of the program: an element is used once.  Two
of each are enough for what the properties are about: two shares on two ports
at once, two shares one after the other on one port (the late-message hazard),
one running while the other opens, a quit between them, a dialog open while
the other share goes.  A scan may find any set of ports, and a signal end the
program, at any time.
`EndReasons` is what `Wait` may return; the UI's control does not depend on it,
only whether a share ends unasked does, so the runs have one reason that is
possible at any time.  `tui_selection` needs a row above and one below the
selection, hence three ports.  The properties of `Tui` are proved
without these bounds (section 5), `QuitExits` for a finite number of shares.

**Bounds of `Dialog`.**  IPv4 addresses have two bits and IPv6 ones four
(`Bits4`, `Bits6`), two of which say that an address stands for an IPv4 one
(`Mapped`): so there are addresses of each kind inside and outside every range,
and Parse and Allows compare no more than families, prefixes and zones.  The
texts that can be typed (`Texts`) are nothing, one with an entry of every kind
that is accepted, and two that are refused, one for each reason.  A network
answers with an address, with a broken one before another, or not at all.  Two
expiries (`Choices`) have a first, a last and a step between.  One share with
its URL (`URLs`) and three notices (`MaxNotices`) are the notice of a key, that
of a copy and that of the end of the share, with their timers in any order; a
notice only compares its number with others.  The copy, its notice and the end
of the share are always let happen: the bound holds back the keys (`Due`).

**Bounds of `Requests`.**  One address that is allowed and one that is not, and
room for one in the log.  Two requests are enough for two handlers to overlap,
to count one address twice while the log is full, and to overflow it, and for
one to be forwarded while the other is not; that the log counts right for any
number of them is proved (section 5).  `requests_order` has room for both
addresses and needs three requests.  The clock advances with each stamp, so the
requests bound it.

**Bounds of `Screens`.**  Three addresses, as a list of three can be reordered
around a cursor in its middle; at most three requests (`MaxRequests`) with times
up to two (`MaxTime`), which reach lists of every length in several orders and a
change of order; up to three rows (`MaxRows`).  The terminal has 5, 9, 10 or 15
lines (`Heights`): too few for any entry, room for one address, for two, and for
two services above the dialog, so a window may be smaller than its list or not,
and View cuts or does not.  A service needs 8 lines to be shown, an address 9, a
service above the dialog 14 and the fields of the dialog 5; below that the panel
keeps its least height and View cuts from the top, which `SelectionOnScreen`
excepts (`HasRoom`, `DialogHasRoom`).  The four properties are
proved without these bounds.

**Bounds of `Tunnels`.**  Three tunnels and two ports: two tunnels with one port
and a third with another or the same, which may take a port that was given away
and is free again.  Both properties are proved for any number.

**Bounds of `Discovery`.**  A set of listeners, each of which may open, close
and change its answer at any time, any number of times.  `discovery` has three
on one port, of both address families, one of them t5s itself: each is alone,
hidden by another or free in turn.  `discovery_hidden` has an ignored process
and a service.

**Deadlock** is checked in every run but `tunnels`, where each of the finitely
many tunnels comes to its end.  `Terminated` is a stuttering step of the
states in which the program or the call of `Start` is over by right; every other
state has a successor.

### Fairness

- `Share!LiveSpec`: weak fairness for every step of a goroutine, which is Go's
  scheduler; for `AwaitGivesUp`, because `awaitReady` has a timeout of 30
  seconds (`cloudflared.go:105`) and its two polls have one of 2 seconds each;
  for the kill of a process whose context is done, because `exec` calls
  `Process.Kill` and SIGKILL cannot be refused.  `cmd.Wait` also waits for
  the copy of stderr, which ends with the process unless cloudflared has left
  a child holding the pipe; it has none, and the model leaves that out.
  There is no fairness for the process becoming ready or dying, for an accept
  error, for the user, or for the deadline.
- `Tui!LiveSpec`: commands run and their messages are applied (the event loop
  takes every message in the end); `Start` returns and a stopped share ends, the
  two promises `Share` is proved to keep (`StartReturns`, `StopEnds`); the
  message of `tea.Quit` is applied.  The user need not press any key, nor any
  scan answer, nor any signal come: `QuitExits` does not rest on one.  While the
  program is quitting the user may still submit shares, each of which has to
  start and stop before it exits; that `QuitExits` holds nonetheless rests on
  `Shares` being finite, that is on a user who does not share new services for
  ever.
- `Requests!LiveSpec`: a handler goes on while it can (Go's scheduler; the
  reverse proxy notices a context that is done).  No request has to come, no
  exchange has to end by itself, and the proxy's own steps need no fairness.
- `Dialog!LiveSpec`: timers end and `cfg.Copy` returns, and their messages are
  applied (the event loop takes every message; the command that `cfg.Copy` runs
  is assumed to end).  Nothing is assumed of the networks or the user.
- `Tunnels!LiveSpec`: cloudflared binds its port or exits, which is what it does
  first; a process whose context is done dies (SIGKILL); the goroutine that
  waits for it runs.  No tunnel has to become ready.
- `Screens!LiveSpec`: the clock ticks, because each of its messages starts
  the timer of the next one (`model.go:102-103`).
- `Discovery!LiveSpec`: scans follow each other and their probes end (they have
  a timeout of a second), and from some time on no scan exceeds its five
  seconds.  The last is an assumption on the machine: a machine on which every
  scan times out never updates the list.  Between the scans the machine does as
  it likes; `WebListed` speaks of a service only once it stays.


## 4. What each property would catch

`PROJECT.json` gives for every property of a passing run a mutant, and the
property fails under it: the waiting goroutine calls `stop()` first
(`EndReasonTrue`), `Wait` does not wait for the tunnel (`NothingLeftBehind`),
`Start` returns its error before the proxy is down (`ImplementsContract`),
`Open` gives up without a kill (`StartReturns`), no `AfterFunc` (`StopEnds`),
the tunnel's loss does not stop the proxy (`HalfShareEnds`), only `Stop` closes
the server (`ExpiryEnds`), the share key looks only at running shares
(`OneSharePerPort`), a share that starts while quitting is dropped
(`NoShareLost`) or not stopped (`QuitExits`) or not waited for (`StopShown`),
the row goes with the stop key and not with its share (`KeepsPromises`), the
cursor is not clamped (`CursorOnRow`), quitting ignores opening shares
(`ExitWaits`), the open dialog is not told the own address (`OwnOnceKnown`), the
first network that fails ends the lookup (`OwnIsAllTold`), an error outlives the
text (`ErrorIsCurrent`), addresses are kept in the form they were typed in
(`AllowsExactly`), any timer clears the notice (`NoticeStays`), a notice relies
on a timer that runs (`NoticeGoes`), a failed copy is only announced
(`CopyArrives`), a row that is opening is offered the share key, or the access
screen outlives its share (`KeysWork`), a scan keeps the index instead of the
port (`SelectionKept`), a full log refuses addresses it tracks (`LogExact`), a
blocked request is forwarded as well (`OnlyAllowedServed`), the server has no
`BaseContext` (`CutOff`), a list is scrolled only by its own keys, or the dialog
takes no lines from it (`SelectionOnScreen`), the window follows the cursor with
its last line (`ScrollsLeast`), a refresh keeps the number of the line
(`SelectionFollowsAddr`) or happens only on screen (`VisitorListed`), any
metrics port is asked for the hostname (`UrlFromPort`), nobody waits for the
process of an open tunnel (`CollisionSettles`), duplicates are told apart by
address (`OnePerPort`), listeners that are gone stay in the cache (`WebListed`),
services of the last scan stay on the list (`GoneUnlisted`).


## 5. What is proved

A theorem is of the form `Spec => []Inv`, `Spec => [][A]_vars` or `Spec =>
AbstractSpec`, or about an operator; all hold for every value of the constants,
and have no unproved leaf.  Every property of a passing run is stated by one.

A theorem on liveness is of the form `LiveSpec /\ []Can => Property`.  The
prover does not reason about ENABLED, so what a proof needs of it is a
hypothesis: an operator (`CanMove`, `CanGoOn`, `CanScan`, ...) that says of
named actions that they are enabled when their guards are true, and nothing
else.  That can be read off the actions, as each of them is a guard and the
new values of the variables.  TLC found every one of these operators true in all
states of the run that checks the property, with the constants of that run; for
`Share` these are all states.  The steps of such a proof are those of the rule
for weak fairness: the state before stays until the state after, a fair step
leads to the state after, and can be taken.  For a family of shares, tunnels or
listeners this is done for one member, with the others doing what they like.

**`ShareProofs`** (no constants, no assumptions).  `Share!IInv` is inductive:

- `TypeOK`;
- `ProxyInv`: a serving goroutine that is through has closed the listener; the
  hook fires only when the context is done, and is disarmed only by a serving
  goroutine that is through; a clean end of `Serve` means the context is done;
- `TunnelInv`: the goroutine is past `cmd.Wait` only when the process is dead;
  an exit error means that the process was lost and not killed; `runCtx` was
  canceled only by the goroutine at its end or by an `Open` that failed;
- `StartInv`, `SuperviseInv`: how far `Start` and `supervise` may be, given the
  rest;
- `CancelCause`: the context of a started share is canceled only after `Stop`
  or with one of the two errors already set.  It is the heart of the argument
  for `EndReasonTrue`: when `endReason` finds neither error and a context that
  was canceled, somebody called `Stop`.  It needs in turn that each goroutine
  sets its error before it cancels, which are the other parts.

From it follow `TypeCorrect`, `EndReasonCorrect` and `NothingLeftCorrect`
(listener closed by `ProxyInv`, process dead by `TunnelInv`).

`Implementation == Spec => ImplementsContract`.  Initial states map to the
initial state; with `IInv` before and after it, every step maps to one contract
step or to a stutter.  The steps that matter: the end of the share needs
`Exposed` to be false (`IInv`), a result "stopped" needs the share to have been
asked (`EndReasonTrue`), and an error of `Start` needs nothing exposed.

For the end of a share, `StepsLeft` is a bound on the steps that are left,
summed over the variables, and `StepsRunOut` says that every step lowers it: no
behaviour of a share is longer than that.  `CanStep` is the guard of the actions
that `LiveSpec` makes fair, and `NeverStuck` says that one of them holds while
`Start` runs and while a started share is `Doomed`: stopped, expired, or without
one of its halves.  It needs the two conjuncts that say why somebody waits:
`hook = "disarmed"` only after the server has stopped, and a failed `Open` reaps
only a process whose context it has canceled.  `StopDooms` and
`DoomedUntilEnded` say that `Stop` gets a share there and that there is no way
back.

From these follow the four liveness properties.  With n steps left, the share
takes a step: until it does its variables stay the same, so the fair action that
is possible stays possible (`StartTaken`, `ProxyTaken`, `TunnelTaken`,
`SuperviseTaken`).  `Init` leaves 27 steps, so a chain of that length, which
stands for an induction, shows that a share is not opening or doomed for ever
(`NotBusyForever`): `StartReturnsCorrect`, `StopEndsCorrect`,
`HalfShareEndsCorrect`, `ExpiryEndsCorrect`.  They hold for every order in which
the goroutines, the process, the deadline and the calls of `Stop` come.

**`TuiProofs`** assumes `PortsAssumption` (ports are positive, and finitely
many) and `EndReasonsAssumption`, both declared in `Tui` and evaluated by every
run of `MCTui`; nothing about `Shares`, which may be infinite.  `Tui!IInv` is
inductive: `TypeOK`, `OneSharePerPort`, `AccessHasShare`, and

- `ShareInv`: the list and the goroutines agree (`opening = starts`,
  `shares = waits`); what is opening or running is on the list; only what is
  opening or running exposes anything;
- `ExitInv`: once `tea.Quit` is on its way only late shares are on the list.

`OneSharePerPort` carries a conjunct that no user sees, "the dialog's port has
no share", without which it is not inductive: the dialog is checked when it
opens, and the proof is that nothing in between can give its port a share.
`ShareInv` needs `OneSharePerPort`, because messages name ports: removing "the
share on this port" is removing the share that ended only as there is one.
From `IInv` follow `NoShareLostCorrect`, `ExitWaitsCorrect` and the others.
`CursorOnRowCorrect` is a second induction on top of it: the cursor is compared
with the number of rows, so it needs that the rows are a finite set, that `Rank`
of a row is below their number, and that a list that lost a share has the cursor
clamped.  `SelectionKeptCorrect` compares two lists: the rank of a port changes
only if a row above it comes or goes, and the row that `SelectPort` returns for
a port of the list is its rank, which is what a scan uses.
`KeysObeyedCorrect` says that a key is named in the header exactly if the
condition that its handler asks is true, and `KeysActOfferedCorrect` that no
other key acts; `KeysWorkCorrect` is `KeysWork` itself, given that a key is
enabled exactly when that condition is true (`KeysFollowGuards`).

For quitting, `QuitStopsAll` says that every share that runs has been told to
stop, late starters included, and that an empty list has returned `tea.Quit`;
`ShareCanMove` that a share which opens or was stopped has a fair step to take;
`QuitNeverStuck` puts them together.  `StopShownCorrect` follows one share from
the key to its message: it withdraws, ends, is reported.  `QuitExitsCorrect`
does the same for a share that opens when the user quits: it fails, or is
started and stopped; in both cases it is gone from the list in the end.  That
the list is empty in the end needs in addition `FinitelyMany`: if each share is
gone from some time on, there is a time from which all are.  For a finite number
of shares this is a law of temporal logic, but not of its propositional part,
which is all the prover has.  For an infinite number it is false, and so is
`QuitExits`: a user who goes on submitting shares after q is never let out.

**`TuiRefinement`**, from the same invariant: `KeepsPromisesCorrect == Spec =>
KeepsPromises`, where a port is "shared", "opening" or "private" as the list has
it.  It needs `OneSharePerPort`, because the end of one share makes its port
private only if there is no other, and `ShareInv`, because the message that
takes a share off the list comes after its end and nothing says so but that the
share is waited for.  `PrivateIsPrivateCorrect` follows.  `KeepsContractCorrect`
is the other side: the shares of the UI behave as `ShareContract` allows, which
is why `Implementation` may be used for each of them.

**`DialogProofs`** assumes the shapes of the constants (`BitsAssumption`,
`EntriesAssumption`, `TextsAssumption`, `BodiesAssumption`, `ChoicesAssumption`,
`URLsAssumption`, evaluated by the runs of `MCDialog`): addresses have any two
lengths.  `AllowlistExact` is about `Acl` alone: an allowlist that parses allows
a client exactly if one of its entries names it in its own family.  Its lemmas
say that masking a range changes no answer and that bringing a host to one form
twice is doing it once.  `Dialog!IInv` has `OwnInv`, that an open dialog has the
addresses of the UI and these are what the networks asked so far have told;
`FlashInv`, that the notice on screen is the latest and its timer runs; and
`ErrorIsCurrent`.  From it follow the theorems on the safety of the run:
`AllowsExactlyCorrect` applies `AllowlistExact` to what was submitted,
`OwnOnceKnownCorrect` adds that the dialog knows what the UI knows.
`NoticeTimedCorrect` (a notice has a timer that runs) and `CopyKeptCorrect` (a
copy stays under way until the URL is in the clipboard) become
`NoticeGoesCorrect` and `CopyArrivesCorrect` by the fairness of the timers and
of the copies, for any number of each.

**`RequestsProofs`** assumes that addresses are positive and finitely many, that
the requests are finitely many, and that the limit is a natural number
(`AddrsAssumption`, `RequestsAssumption`, `AllowAssumption`,
`MaxTrackedAssumption`, evaluated by the runs of `MCRequests`).  `Requests!IInv`
is `TypeOK`, `GuardInv` (who is past the guard was allowed by it) and `LogExact`
itself, which is inductive with them.  The proof of a call of `record` has three
cases, as the code: the log is full and the address is not in it, the address is
in it, the address is new.  The last is the one that needs the conjunct "none is
untracked while there is room": without it a new address might have earlier
requests in the untracked count.  `CutsOffCorrect` says that once the context is
done no exchange begins and each that is left can be cut, and `CutOffCorrect`,
which is `CutOff`, that each is cut.  `LastSeenRealCorrect` says what is true of
the times of the log, given the finding below: each is that of a request of its
address.

**`ScreensProofs`** assumes only that heights are natural numbers and what
`AccessLog` does of its constants.  `KeepVisibleShows` and `KeepVisibleNearest`
are about `keepVisible` alone: for every list, window, also of no lines, and old
offset it returns a window that shows the cursor and wastes no line, and there
is no such window nearer to the old one.  `Screens!IInv` adds that both cursors
are in range and that an address that is listed stays in the log; the first is
what `keepVisible` needs, the second is why a refresh, which sorts the log anew,
finds the selected address again.  `SelectionOnScreenCorrect` then counts lines:
an entry inside the window is on the line of the terminal where `ListCursor`
puts the cursor, whatever the cut, and the entries on screen are those of the
label.  `ListCompleteCorrect` says that one message of the clock lists every
address of the log, and that nobody leaves the list; with a clock that ticks
(`ClockCanTick`) that is `VisitorListedCorrect`.  `ListedOnceCorrect` adds that
nobody is on the list twice, as its order is strict.  `SnapshotUnique` says that
`Snapshots`, which is defined by what the sorting has to achieve, has exactly
one element for every log: the place of an address is the number of those that
come before it, and places are different and fill the list.  So the clock is
never held up by a log that cannot be sorted, nor free in what it shows.

**`TunnelsProofs`** assumes that tunnels and ports are numbered (0 is none).
`AnswerInv` says that an answer came from a process that was given the port.
`UrlFromPortCorrect` follows, and `OwnUrlCorrect`: a tunnel has its own URL as
long as no port is given away twice.  `PortInv` says that no two processes serve
one port; with it `CollisionUnstableCorrect`: of two open tunnels with one port,
one has a process that is dead or has yet to find its port taken.  A process
that starts finds that out, and a tunnel whose process is dead is lost:
`CollisionSettlesCorrect`.

**`DiscoveryProofs`** assumes nothing but the shape of a listener.
`Discovery!IInv` adds `CandidatesInv`, that the candidates of the scan that runs
have distinct ports and owners that count.  A second induction, on `CacheInv`,
says that what is remembered as no web service has once answered so and was
there in every scan since.  `FindsOrRetriesCorrect` follows: a web service
that is a candidate when a scan ends is on the list, or probed again by the
next.  `ScansReturnCorrect` says that scans return again and again; each probe
has an answer in the end, and that all have needs the same law for finitely many
as quitting does (`FinitelyMany`, here of the listeners).  Given that,
`WebListedCorrect` and `GoneUnlistedCorrect` need no more fairness: a scan that
begins after the service was there to stay seeks it (`SoughtStays`) and lists it
when it returns, and so does every later one; a scan that begins after it has
gone does not have it.

**Model-checked only**: what the theorems on liveness and `KeysWorkCorrect`
assume about ENABLED, and the law `FinitelyMany` of `TuiProofs` and
`DiscoveryProofs`.  TLC found them true with the constants of the runs `share`,
`tui`, `dialog`, `requests`, `screens`, `tunnels` and `discovery`.  The
properties themselves are checked by these runs without any such assumption.


## 6. Findings

- **The selection can move to another port** (`tui_selection`,
  `SelectionFollowsPort`).  `afterShareGone` (`shares.go:189`) asks for the
  selected row after the share has left the list, so an old index is applied to
  a new list.  When the row that goes was only pinned (its service no longer
  answers) and is above the selection, the selection moves to the next port,
  and the next `x` stops that one.  A test named "selection follows its port
  when the list changes" (`model_test.go:48`) covers scans, where the code is
  right.  `SelectionKept` says when it does happen: also when a share that is
  submitted brings back a row above the selection, whose service a scan has
  missed while the dialog was open.
- **A share can outlive the program the user has quit** (`tui_exit`,
  `NothingSharedAfterQuit`).  With nothing shared, `quit` returns `tea.Quit` and
  changes no state; keys already typed are applied before its message arrives,
  and `s`, `enter` start a share that nobody stops.  `README.md:41` says that
  `q` stops every share, and `README.md:43` that every share stops on exit.
  `ExitWaits` shows that of the exits t5s decides itself this is the only one
  that leaves a share.
- **A range of IPv4-mapped addresses lets in nobody** (`dialog_mapped`,
  `AllowsInside`).  `Allows` brings the client's address to its IPv4 form before
  it looks for a range (`acl.go:36`), and an IPv6 range has no IPv4 address in
  it: `::ffff:10.0.0.0/104` is accepted and has no effect, though `acl.go:34`
  says that Allows reports whether an address is inside one of the ranges.  A
  host written like that works (`acl.go:51`).  `AllowsExactly` shows that it is
  the only exception.
- **The access log is not always most recent first** (`requests_order`,
  `MostRecentFirst`).  The time of a request is taken before the lock
  (`guard.go:26`), and `record` stores it even if it is older than the one it
  replaces.  Two requests of one address that overlap can leave the older time,
  and the address below one that came between them, until its next request.
  What is counted is not affected (`LogExact`).
- **An ignored process can hide a service** (`discovery_hidden`,
  `WebListedBesideIgnored`).  A port is reduced to one listener before ignored
  processes are left out (`discovery.go:52-58`), so a web service on `[::1]`
  is never found while an ignored process, or t5s, listens on the same port of
  `127.0.0.1`.

Three more, which no run of their own shows:

- **A signal or an error ends the program without its shares.**  `main.go:38`
  runs Bubble Tea with its default signal handler, and `Run` returns on SIGTERM,
  on SIGINT and on an error without `quit` (`shares.go:225-234`): no share is
  stopped, and nothing in t5s ends the `cloudflared` processes, whose contexts
  are not canceled.  `README.md:43` says that every share stops when t5s exits.
  The first share on the list shows it: with `exited => exposed \subseteq late`
  in place of `ExitWaits`, TLC finds `Interrupted` right after `ShareExposes`.
  The key ctrl+c is no such signal: it is the quit key (`keys.go:28`).
- **The own address is not always allowed.**  `submit` adds the addresses the
  dialog holds, which are none until the lookup has answered, or if it failed
  (`dialog.go:97-101`); `README.md:8` says the own address is always on the
  list.  The dialog itself says that the address is unknown then.
  `OwnOnceKnown` is the guarantee that does hold.
- **A tunnel can report the URL of another one.**  If two `Open`s are given one
  metrics port and both processes live for a while, the second may be told the
  first one's hostname (`cloudflared.go:94-124`).  `CollisionSettles` shows that
  one of the two then ends, and `CollisionUnstableCorrect` why: the process that
  finds its port taken exits.  It is not always the one with the wrong URL: when
  the first process dies right after it was asked, the second binds the port,
  and its share lasts with a dead URL.


## 7. What is not modelled

Names and frameworks guessed for services and the listing of sockets
(`infer.go`, `docker.go`, `system.go`: pure functions of external data whose
results are only displayed, or what gopsutil answers), the wiring of `main.go`,
and of the screen the widths, colours and wording (`style.go`,
`header.go`, the cells of `view.go`), by which nothing is decided.  The last
line of stderr (`tail.go`) only words an error.  In `Tui` the clipboard, the
notices and what is typed are left to `Dialog`, the windows to `Screens`;
`Dialog` in turn has one row, and its share ends at any time.  Of the ways the
program may end, `Tui` has those by which `Run` returns, and by which a killed
process ends, all with the same effect (`Interrupted`); what becomes of a
cloudflared that outlives t5s is left out, as is the exit status.  The other
modules have no end of the program: what they say of what happens in the end is
said of a program that runs.  In `Tunnels` only
cloudflared processes take ports; another program on a metrics port would have
to speak the two endpoints.  In `ProxyServer` single requests are left out: they
cannot delay the end, as `srv.Close` does not wait for handlers; `Requests` has
them.  In `Requests` a connection may deliver a request at any time, also after
`srv.Close`: what net/http does to idle and hijacked connections is not relied
upon.  In `Screens` the rows of the services change for any reason, as `Tui` has
the reasons; that the access screen closes with its share is `AccessHasShare` of
`Tui`, which is proved, and part of what `KeysWork` checks.  In `Discovery` a
listener is known by address and process, as in the cache of the code: a process
that replaces its socket by another on the same address between two scans is a
`Changes` of its answer.


## 8. Plan

Order: what matters most first.  All but the last is done.

1. `Context`, `ProxyServer`, `Tunnel`, `Share`, `ShareContract` with their runs.
2. `ShareProofs`.
3. `Tui`, `MCTui`, `TuiProofs`, then `PortStates` and `TuiRefinement`.
4. `AccessLog`, `Requests` with `RequestsProofs`.
5. `Discovery` with `DiscoveryProofs`.
6. `Scroll`, `Layout`, `Screens` with `ScreensProofs`.
7. `Acl`, `Notices`, `Dialog` with `DialogProofs`.
8. `Tunnels` with `TunnelsProofs`.
9. The progress theorems of section 5, on what liveness rests on, and from them
   the liveness properties.
10. Left: a contract of `Tunnel` for `Tunnels` to be composed from; the widths
    of a line, should a table of the screen ever be cut in a way that hides what
    matters.
