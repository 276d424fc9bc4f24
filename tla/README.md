# DualVPN in TLA+

Specifications of DualVPN (`src/`), an application that keeps two Cisco AnyConnect
tunnels up at once: a Go client for the protocol (`internal/vpn/sslcon`), a manager of
several clients (`internal/vpn/manager.go`), SOCKS5 bridges and a PAC file for the mode
without administrator rights, TUN adapters, routes and NRPT rules for the mode with
them, a Windows service that owns the TUN tunnels, and a Wails application.

    tlasany Manager.tla
    tlc -workers 2 -config MCManager_app.cfg MCManager
    tlapm Manager_proofs.tla

## 1. The system

| component | state | operations | correct when |
|---|---|---|---|
| client, `sslcon/auth.go` | `Conn`, `running`, `needs2FA`, `twoFAOK`, `stopChan`, `tunnel`, `events`, under `mu` where the code takes it | `Connect`, `run`, `Submit2FA`, `Disconnect`, `Close` | the login decides the tunnel; no wait is forgotten; `Disconnect` ends everything; the closed event channel means the end |
| tunnel, `sslcon/tunnel.go`, `session.go` | session, connections, adapter, routes, rules, packet queues, goroutines, `closeOnce`, timers | `SetupTunnel`, `SetupTUN`, `PacketFlow`, `Close`, the packet goroutines, DTLS, DPD | whatever was set up is undone, in the right order, once; no packet is lost for nothing; a dead peer is found, a live one kept |
| manager, `vpn/manager.go` | `tunnels` (client, bridge, connected, pacRule per id), `events`, `pac` | `AddTunnel`, `ReplaceTunnels`, `Start`, `StartAll`, `Stop`, `StopAll`, `Submit2FA`, `Status`, `LookupIP`, `EnablePAC`, `DisablePAC`, `forwardEvents` | one client per tunnel; bridge, rule and status belong to the client that runs |
| service, `cmd/dualvpn-service` | `known`, the engine | `Connect`, `Disconnect`, `DisconnectAll`, `Submit2FA`, `Status`; start and stop | nothing survives the stop; every request is answered |
| IPC, `internal/ipc` | `pending`, `nextID`, `closed`, `clients` | `call`, `readLoop`, `deliver`, `fail`; `Serve`, `handleConn`, `Broadcast` | every call ends once, with its own answer or an error; a break is heard |
| application, `internal/ui`, `frontend` | `mode`, `svc`, `svcAvailable`, `proxyApplied`, `proxyNonce`, what the window shows | commands of window and tray, events, `SwitchMode`, `SaveConfig`, system proxy, `Shutdown` | the window tells the truth; one connection to the service; the proxy points to a PAC that is served |
| PAC and proxy, `internal/pac`, `internal/winproxy` | script, listener; registry | `SetTunnels`, `Start`, `Close`; `Apply`, `Clear` | the script has the rules of the tunnels that are up |
| SOCKS5, `internal/socks5` | bridge, server, resolver | `NewBridge`, `Start`, `Close`, `dialVPN`, `Resolve` | internal names are asked inside the tunnel only |
| TUN, routing, NRPT | adapter, routes, registry keys | create, close, add, delete, apply, remove | symmetric; both modes agree on what is internal |
| configuration, mode, elevation | file | load, validate, detect | ports and names are unique |
| `openconnect.go`, harness, mock gateway, build | | | not modelled: unused, or tests and tools |

The application calls the manager, its own or over IPC that of the service; `Start`
makes a new client, runs it in a goroutine and starts `forwardEvents`, which reads the
client's channel to its end, keeps the status and passes the events on; a hook given to
the client calls back into the manager to start the SOCKS5 bridge. Whenever a PAC rule
comes or goes the manager rewrites the script and calls the application back, which
renews the system proxy. What is hard:

- `Client.mu` protects some fields sometimes. `run` reads `c.Conn` and writes `c.tunnel`
  without it; the login holds it across the network.
- `Disconnect`, `Submit2FA`, the gateway and the context can act at every step of `run`.
- A `tunnelState` is found by id, after the client that reports may have been replaced.
- Closing one part of a tunnel wakes goroutines that close others; DTLS comes and goes
  under goroutines that have already chosen their queue.
- Snapshots are taken under a lock and used after it (PAC, system proxy, backend).
- Calls time out while their effect goes on, pipes break between a request and its answer.
- Two managers may run the same tunnel, and one window shows both.

`PROJECT.json` lists each hazard at its line with the properties that cover it.

## 2. Modules

| module | what it models | checked by |
|---|---|---|
| `TunnelClient` | one client and its tunnel from `Connect` to the close of the event channel | `MCTunnelClient` |
| `ClientContract` | what the manager may rely on of a client (abstract) | through `TunnelClient` |
| `Manager` | the manager's table, its callers, its clients as it sees them, `forwardEvents` | `MCManager` |
| `Proxy` | rules, script, PAC server, system proxy, browser | `MCProxy` |
| `Rpc` | the contract of a call to the service (abstract) | through `Ipc` |
| `Ipc` | one connection of the service; implements `Rpc` | `MCIpc` |
| `App` | window, tray, two managers, the connection between them | `MCApp` |
| `PacketFlow` | the goroutines that carry packets, their queues and their ends | `MCPacketFlow` |
| `DeadPeer` | the timers of dead peer detection | `MCDeadPeer` |
| `Names` | which network a host belongs to: script, resolver, NRPT | `MCNames` |
| `TunnelClient_proofs`, `Manager_proofs`, `Proxy_proofs`, `Ipc_proofs`, `App_proofs`, `PacketFlow_proofs`, `DeadPeer_proofs`, `Names_proofs` | theorems about the module of that name | `tlapm` |

How they fit: the clients of `Manager` are those of `ClientContract`, which `TunnelClient`
implements, and that they end when told to is `DisconnectTakesEffect` of `TunnelClient`; the tunnels of `App` are those of two `Manager`s reduced to off, starting
and up, its connections are those of `Ipc` reduced to calls, events and breaks (that a
call returns is `CallReturns`); the rules that come and go in `Proxy` are the `pacRule`s
of `Manager`, what is in them is the matter of `Names`; `PacketFlow` takes an established
tunnel of `TunnelClient`, and when its reads fail is the matter of `DeadPeer`.

**TunnelClient.** The goroutine `Run` is `Client.run`; each of `Stoppers` is one call of
`Disconnect`; `Submitters` call `Submit2FA`. `pc` holds their program points, named after
the code (`initWait` is the read in `tplPost` under `InitAuth`, `cnil` the point of
`Close` between `Conn.Close()` and `Conn = nil`). A critical section nobody can see
half-way is one action guarded by `mu = NoOne`; one that spans the network is two or
more, with `mu` held between. `conn` is the pointer `c.Conn` with `c.BufR`, `wire` the
connection it points to. `SetupTunnel` reads the pointer without the lock again and again:
`BuildTunnel` and `StartChannel` are its last two reads, and a `tlsChannel` that is started
with a nil connection (`nilChannel` in `pumps`) panics in its own goroutine, maybe after `run` has
stored the tunnel (`NilChannelPanics`). `sess`, `dev`, `routes`, `nrpt`, `pumps` are what the tunnel owns
in the process and in the system; `tunDev` is the pointer `Tunnel.Close` tests.
The gateway answers (`GatewayAnswers`), is silent, or hangs up (`PeerCloses`) at will. A
nil pointer or a closed channel that is used ends the process (`crash`), as nothing in
the code recovers. Abstracted: the contents of forms, cookies and headers (only their
outcome: complete, challenge, plain request, refusal), packets, DTLS, DPD timers (a dead
peer is `PeerCloses`).

**ClientContract.** The client as `forwardEvents` sees it, for any gateway, user and
context: `phase` is how far its one attempt is, `q` the words in its event channel, `session`
what a bridge runs over. It says when each word may come and why: "connected" once, after
the tunnel is made; a login says "disconnected" only if somebody has asked for its end, a
tunnel only if its session or its context is over; one last word, then the close, which a
bridge's session does not survive unless the context was cancelled. `PhaseAt` in
`TunnelClient` maps the program points of `run` to phases. The phases of a client in `Manager`
are these, with "connected" and what follows the last word taken in the same step; `Manager`
leaves out the talk in between, but not that it may fill the channel.

**Manager.** Every critical section of `Manager.mu` is one action. A `tunnelState` is a
number in `State`: `AddTunnel` and `ReplaceTunnels` put a new one into `table`, and the
goroutines that captured the old one keep it, as the Go pointers do. A client is reduced
to phases; `StopClient` may have no effect before there is a tunnel, because `Disconnect`
of `TunnelClient` may read no tunnel yet. A caller is in the loop of `StartAll`,
`StopAll`, `ReplaceTunnels`, or in one operation; `connect` is `handler.Connect` of the
service. A bridge is a listener on the port of its tunnel. `shown` is what the reader of
`m.events` saw last. The progress of a login fills the client's channel and `m.events`, and
is left out; so `Client.emit` (`Tell`) and `Manager.emit` (`Report`) deliver or drop as
they like. `lost` of a client and `unheard` of its `forwardEvents` are histories: its last
word was dropped by the one, or by the other.

**Proxy.** Critical sections of `App.mu`, `Manager.mu` and `Server.mu` are actions, and
so is each call of `winproxy`; what a process read under one lock and uses under the next
is in its record (`snap`, `srv`, `url`, `nonce`). `Users` make frontend calls (apply,
clear, a change of mode, the end of the application), `Refreshers` are the goroutines in
which a rule comes or goes and `refreshPAC` follows (`Snapshot`, `SetTunnels`,
`OnPACChanged`). The browser keeps the script of every address it has read, which is what
the comment at `app.go:445` says of WinINET. The configured port may be taken
(`foreign`), then a server gets a port of its own. A write to the registry may fail.
Histories say what the properties except, and end when the code has made it good:
`left` (a setting whose removal has failed is still there), `missed` (the last renewal after a refresh
has failed), `overtaken` (a script was built from older rules; until one with the rules of
now), `crossed` (a call finished whose first access to flag or setting another one had
undone; until one finishes that was not). Only `torn` (`Tears`) is for good.

**Rpc and Ipc.** `Rpc` has three steps: a call is issued, run at most once, and returns
once, with the service's verdict on this call or with "lost". `Ipc` has the callers
(`CallNumber`, `CallAdd`, `CallWrite`, `CallTake`, `CallTimeout`, `CallForget` are the
sections of `call`), `readLoop` with `deliver` and `fail`, the bounded pipe, `handleConn`
and a `Broadcast` that has taken its snapshot of the connections before it writes.
`Break` stands for every way a pipe ends: a crash, `Close` of either side, the end of
the service; a prefix of what it held is still read. The timer of a call fires at any
time. The refinement maps `issued` to the calls made; `ran` and `res` are histories.

**App.** A handler of the window, or the part of it between two awaits, is one action,
as JavaScript runs it; the tray calls the same methods from another goroutine.
`Choose` is `backend()`, `ServiceClient`, `Dial`, `Adopt`, `Absent` are the sections of
`serviceClient`, `Run` the command at the manager it was sent to, `End` its answer in the
window. `toggleTunnel` decides by what is shown. A toggle and "connect all" of a changed
form first save it (`ensureFormApplied`): that is the operation "save". Events wait in `localQ` and
`linkQ[c]` until `forwardEvents` and `forwardServiceEvents` handle them. A loop over the
tunnels takes them in a fixed order (`Due`). `touched` of a handler is a history: the
tunnels that an event or another handler has marked since it began.

**PacketFlow.** A goroutine is at `take` (it waits for a packet), at `put` (it has chosen
a queue and waits for room) or `done`; one that only writes does both in one step.
`tlsR`, `tlsW`, `dtlsR`, `dtlsW` are `tlsChannel`, `payloadOutTLSToServer` and the same
for DTLS, `tunR`, `tunW` the two of the adapter, `flowR`, `flowW` those of `PacketFlow`,
`inject`, `extract` those of the bridge. `DialDTLS` and `ConnectDTLS` are the two places
where `dtlsChannel` publishes its connection, `CloseTunnel` and `CloseBridge` run in
either order. UDP loses packets: one that was sent counts as delivered. One read of the
TLS connection is one frame.

**DeadPeer.** Time passes in seconds, and only when nothing is due. `tick` is the ticker
of `DPDTimer`, `reset` that of `ReadDeadTimer`, `left` the read deadline of a channel,
which a read may move only after a tick of `ReadDeadTimer`; `quiet` is how long the
channel has really been silent.

**Names.** Names are sequences of labels with a mark for capitals and one for dots or
blanks at their ends, addresses have `Width` bits. `Script` and `FindProxy` are the rules
of `pac.Script` (a function of the places of the tunnels in the order of their names, so that
a tunnel without a rule leaves a gap) and what the browser makes of them, `NormalizeDomains`,
`NormalizeSubnets` and `ParseSubnet` the helpers of the same name, `MatchesSplitDomain`
and `UseTunnel` those of the resolver, `BuildRules` the NRPT rules. On top of these pure
definitions one request runs from `Browse` (the script chooses) through `Dial`, the DNS
servers one after another over UDP and TCP, to its end, while tunnels come and go. A
browser may also use a rule of a script it read earlier, or a program use a proxy
directly (`UseProxy`).

A definition whose comment begins with "Faulty variant" is not part of the
specification: it is the action below it with a plausible mistake, used to see that the
properties notice.

## 3. Runs

| run | bounds | shows |
|---|---|---|
| `client_safety` | both modes; 2 Disconnects, 1 submitter with 2 codes, 1 redirect, 1 event | type; the tunnel comes after the login; no lost wake-up; a clean teardown; panics only after cancellations; routes before session; `TunnelClient` implements `ClientContract` |
| `client_live` | tun; 1 Disconnect, 1 code, 1 event | `Disconnect` returns and ends `run`; goroutines and adapter go with the session |
| `manager_app` | socks5; 1 tunnel, 2 callers of start, stop, startall, replace; 2 clients, 2 tunnelStates | a tunnelState has one client at a time; a PAC rule leads to a listener; bridge and client belong together; what is shown and what `Status` says settle, unless the last word was dropped; no listener is left |
| `manager_service` | tun; 1 tunnel, 2 callers of connect, stop; 2 clients, 2 tunnelStates | a stopped client ends and its tunnel can be started again |
| `proxy` | 1 tunnel, 2 users with 2 calls in all, 1 refresher with 2 changes; 2 servers, 3 addresses | the script settles on the rules; setting and flag agree, also after the end; a setting leads to the server in use; the browser follows the rules |
| `ipc` | 2 callers, 2 calls, 2 events; pipe of 2 frames, event channel of 1 | the reader never blocks; no event of its own passes a connection by; `Ipc` implements `Rpc`; every call returns; both sides hear a break |
| `app` | 1 tunnel, window and tray, 2 handlers, 2 connections, 1 start, 1 stop and start of the service; every operation | one connection; a truthful window; a broken connection is replaced |
| `flow` | both modes; queues of 1, 2 packets or ticks in all | no packet lost without a reason; order kept; nobody stuck; nothing left when nothing can go on |
| `deadpeer` | intervals 0, 11, 30 s on each channel, answers within 2 s | an idle live channel stays, a silent one ends in time |
| `names` | 3 tunnels, 5 gateways, 8 hosts, addresses of 3 bits, 3 configurations (two of them refused) | names stay inside; the proxy means its network; both modes agree; no zone is lost; the choice is stable |
| `app_switch` | 1 tunnel, 1 handler | violated: a switch or a save leaves the service's tunnels up |
| `flow_late` | tun; queues of 1, 2 packets | violated: a DTLS channel that comes up after `Close` is not closed with the session |

The bounds: one Disconnect meets every program point of `run`; the second adds the race
of two closers on `closeOnce` and on `Close`. Two codes give a rejected one followed by
another, before and after the wait ended. One event fills the channel, so drops happen
everywhere; as they are taken in between, every word is met by an empty channel too. One
redirect reaches the limit. Two clients are an old one that reports late
and a new one; two tunnelStates are one replacement, or two from an empty table. One
tunnel is enough where tunnels share nothing but the lock, and where rules only change from one set
to another (`Proxy`); `Names` has more, because rules of different tunnels meet in one
script. `StopAll` is the first half of `ReplaceTunnels`. Two users are two frontend calls at
once, as the frontend allows; a start of the PAC server is a refresh too, so one refresher is
enough for two that overtake each other. Three addresses are one applied and two renewed. Two calls are one that is
late and one that could take its answer; a pipe of two frames fills up with an answer
and an event. Two handlers and two connections are two dials at once, or one connection
before and one after a break. A queue of one packet is full after one, the second waits,
and a DPD request or its answer is a third kind to compete. 11 s is the
smallest interval that must keep an idle channel at this answer time, 0 a header that is
not sent. Symmetry (of callers, Disconnects, tunnels, users, refreshers) is used in safety runs
only. Deadlock is not checked anywhere: a client that has finished, a process that has
panicked, a manager that has used up its clients and an ended application really stop;
that nobody waits for ever is what the liveness runs, `NobodyStuck` and `EverythingEnds`
say. `EverythingEnds` names the states in which nothing is left to do (`Quiet`, `CanGoOn`)
without ENABLED, so that it can be proved; that `Quiet` leaves out nothing the goroutines
could still do is what `EndsAtLast` shows, which has the same end in view and asks for it
under the fairness of `Work`.

Three configurations that hold are to be run by hand, for the time they take:
`MCPacketFlow_ends` (`EndsAtLast`, under the fairness of `Work`, for the mode with an
adapter), `MCTunnelClient_contract` (`ImplementsContract`, `StatusInOrder` and
`ConnectedMeansTunnel` with a channel of three events, that holds the words of an attempt
side by side), and `MCProxy_refreshers` (the properties of `proxy` with two tunnels, two
refreshers and one user).

Fairness. `FairSpec` of `TunnelClient` is weak fairness of each goroutine's own steps,
which the Go scheduler gives, and of a read that fails because the connection is closed;
the gateway, the user, the context and the reader of the events owe nothing. A packet
goroutine is only sure to notice what it blocks on. `LiveGatewaySpec` adds a gateway that
answers or hangs up in the end; `client_live` needs it: a silent gateway keeps
`Client.mu`. In `Manager` a client that was told to stop ends, which is
`DisconnectTakesEffect`. In `Ipc` the goroutines run and a handler of the service returns;
timers, the reader of the events and the pipe owe nothing. In `App` and `PacketFlow` it
is only said that some goroutine that can go on does, which is less than the scheduler
gives; the user, gateway, service and network owe nothing.

Exceptions that are written into the properties, each a behaviour of the code:

- `CleanTeardown`, `RoutesBeforeSession`: a close that meets `SetupTUN` removes routes
  and rules before they are added, and `closeOnce` keeps a later close from it.
- `ImplementsContract` (and `FinishedMeansClosed`, a part of it): a failed `SetupTUN` returns without `Tunnel.Close`; so does a
  cancelled context.
- `DisconnectReturns` needs the gateway to answer: the login holds `Client.mu` over the
  network without a deadline.
- `ShownSettles`: the last word of a client that `Client.emit` or `Manager.emit` drops
  because a channel is full. The window then shows the tunnel as connected for good.
- `StatusSettles`: a last word that `Client.emit` drops does no harm to the tunnelState of
  the client itself, whose status the end of the channel resets; but the end of an old
  client resets nothing when its tunnelState was replaced, and its "connected" may
  have been booked on the new one.
- `ScriptSettles`: a refresh that is overtaken between its snapshot and `SetTunnels`
  leaves an old script, until the next refresh with the rules of now; so does a rule that
  appears during `ReplaceTunnels`.
- `FlagIsSetting`: calls that crossed (`Crossing`). Nothing in the code keeps two frontend
  calls or a refresh apart: one may clear the setting between the setting and the flag of an
  apply, an apply may come between the two accesses of a clear, a refresh that has seen the flag may
  write after it was reset, and the application may end amid any of them. The next call that nobody
  disturbs makes it good, and the property holds again. A registry that fails to remove
  the setting leaves it (`left`), never more than that.
- `SettingIsServed`, `BrowserFollowsRules`: a removal (`left`) or the last renewal (`missed`)
  that failed, a refresh that was overtaken (`BrowserFollowsRules`), and calls that are torn
  (`Tears`): they crossed, or one looks at the flag between the setting and the flag of an
  apply, so that a change goes without a new address, or one replaces the server whose
  address another is about to write (two starts of the PAC server at once).
- `WindowShowsTunnels`: events that reached nobody (no connection, or it broke); a
  tunnel marked by the end of a handler after an event, or another handler, that it
  overlapped; whatever goes on behind a switch or a save. In particular a broken pipe clears `svcAvailable`, so that
  the next disconnect goes to the local manager, which finds nothing to stop and reports
  success while the service keeps the tunnel; and a tunnel may run in both managers.
- `NobodyStuck`, `EverythingEnds`, `EndsAtLast`: a DTLS channel that comes up after the end.
- `AliveIsKept`: intervals below 9 s and the time of an answer. `DPDTimer` never asks
  more often than every 10 s, while a deadline is the interval and 5 s: a gateway with
  shorter intervals, or without the header (0: dead after 5 s), loses an idle channel.
  The comment at `session.go:170` speaks of "минимум 5 секунд запаса".
- `NoZoneLost`: a host with a dot at its end goes past the script though the resolver
  would take it; reverse zones are in NRPT and resolver, not in the script.
- `StaysInside`: a gateway without DNS servers leaves all names to the system.
- `ModesAgree`: a blank entry among the servers is none for NRPT and one for the resolver.

The violations show a behaviour of the code that a comment of the code excludes
(`findings` in `PROJECT.json` quotes them). More such behaviours are stated as properties
and have a configuration to run by hand; TLC finds each violated:

| configuration | property | behaviour |
|---|---|---|
| `MCTunnelClient_nilconn` | `NoNilConnection` | Disconnect during the handshake, or until `tlsChannel` has its arguments: the cleared `c.Conn` is used, the process panics (`tunnel.go:130`, `tunnel.go:196`; `auth.go:545` wants a calm end) |
| `MCTunnelClient_wrongcode` | `WrongCodeIsAnError` | a wrong code after a cancelled wait: send on a closed channel (`auth.go:761`, `auth.go:728`) |
| `MCTunnelClient_lost` | `DisconnectStops` | Disconnect before `c.tunnel` is stored returns, the tunnel comes up (`auth.go:832`, `auth.go:823`) |
| `MCTunnelClient_rules` | `RulesGoWithTunnel` | a tunnel ended by the gateway leaves its NRPT rules (`auth.go:924`, `nrpt.go:11`) |
| `MCTunnelClient_deaf` | `DeafWaitEnds` | the connection dies during the second factor: the wait has no end (`auth.go:745`, `auth.go:790`) |
| `MCManager_connect` | `OneClientPerTunnel` | a second Connect of the service starts a second client (`handler.go:36`, `handler.go:32`) |
| `MCManager_port` | `BridgeEndsWithTunnel` | a bridge set up during ReplaceTunnels keeps its port (`manager.go:396`, `manager.go:405`) |
| `MCProxy_cleared` | `ClearedStaysCleared` | a refresh that has read the flag writes the setting again after Clear (`app.go:470`; `proxy_windows_test.go:77` expects it gone) |

Seen while modelling, without a property of their own: errors of `ConnectAll` are only
logged, though `app.go:312` announces them as events; a failed dial may overwrite the
`svcAvailable` of a dial that succeeded (`service.go:56`); `toggleTunnel` marks a tunnel
as off when its disconnect has failed; `App.SwitchMode` lets the service stand in for the
rights (`app.go:219`), the window does not (`app.js:363`); `tunToPayloadOut` that fails
to read closes only the adapter and leaves the session to the writer
(`tunnel.go:389`); the default PAC port may be the `socks_port` of a tunnel, which
`Validate` does not look at.

`TypeOK` is defined in every module but `Rpc` and `ClientContract`; `client_safety` checks that of `TunnelClient`,
those of the other modules hold in their runs too and are left out of them for room, as is
`PendingInProgress` of `Ipc`. Every `TypeOK` is proved.

## 4. Proofs

Every theorem holds for all values of the constants that satisfy the named assumptions:
processes that differ, bounds that are numbers, a finite set of tunnels.

`TunnelClient_proofs`:

- `TypeCorrect`: `Spec => []TypeOK`, from `ProcessAssumption` (the goroutines differ),
  and `BoundAssumption` (the bounds are numbers, the channel has room). `TypeOK` is
  inductive as it stands; `PutType` is the fact about `emit` it needs, and `RunGoto`,
  `StopperGoto`, `SubmitterGoto` say what one step of a goroutine does to `pc`.
- `GrantedCorrect`, `WakeupCorrect`, `PanicsCorrect`: the properties
  `GrantedBeforeTunnel`, `NoLostWakeup`, `PanicsAreCancellations`, from the inductive
  invariant `AuthInv`. None of them is inductive: that a late `Submit2FA` cannot take
  the token from a tunnel under negotiation needs that a code under way means an open
  challenge (`Challenge`), that means nobody else is in a critical section (`Locking`),
  and who clears the connection is `Progress`: a `Disconnect` that has been all the way
  through `Close`, also where `tlsChannel` is started without its connection. So a nil
  connection is met only after one, and once the tunnel is recorded only by that `tlsChannel`.
- `TeardownCorrect`, `FinishedCorrect`, `RoutesCorrect`: `CleanTeardown`,
  `FinishedMeansClosed` and the action property `RoutesBeforeSession`, from `AuthInv` and
  `CloseInv`. A finished close says nothing of how it got there, so `CloseInv` follows the
  caller that `closeOnce` let in: that there is one, and none before the tunnel is recorded
  (`Once`), what it has cleared at each point of `Tunnel.Close` (`Cleared`), what there is
  to clear (`Setup`, `Adapter`), and that a socks5 `run` has nothing left to close when it
  returns (`LeftMeansClosed`).
- `ConnectedCorrect`: `ConnectedMeansTunnel`; the event is queued by one step, and what it
  says stays true while it waits.
- `ContractCorrect` is the refinement, `Spec => ImplementsContract`, by the simulation
  `ContractStep` from `AuthInv` and `CloseInv`. `Phases` gives the phase at each program
  point; each kind of step has its lemma: what is said in between (`TalkStep`), the ways out
  of the login (`LoginOver`) and of the setup (`SetupOver`, `SetupDone`), the session
  (`SessionStep`), those who ask for the end (`AskStep`). It needs the invariants where
  somebody else than `run` speaks or closes: a code under way finds the channel open
  (`Challenge`, `Progress`), a tunnel is made over no other session and a close finds one
  (`Setup`, `Once`), a socks5 `run` leaves no session open (`LeftMeansClosed`).
- `StatusCorrect`: `StatusInOrder`, from the contract alone: every step the contract allows
  keeps `OrderInv` (the words agree with phase and session, `Agree`, and what is set up or
  up has had a session), so it holds for whatever implements the contract.

`Manager_proofs`, from one inductive invariant `Inv`, the conjunction of

- `Types`, the types, with the program points at which a caller or a `forwardEvents`
  holds a client or a bridge; `Queues`, how many events a client of each phase can have
  sent, without which a new event could exceed the queue;
- `Owned`: a client that is not finished is the client of the tunnelState it captured.
  This is why one tunnelState has one client: two live ones would both be its client;
- `Joining`: a caller that is about to connect has a new client to itself;
- `Bridges`: a bridge in a tunnelState is that of its own client and listens, and one
  that somebody is about to close is in no tunnelState any more, so closing it breaks
  no rule.

`TypeCorrect`, `OneClientCorrect`, `RuleCorrect`, `BridgeCorrect` follow from it.
`ShownCorrect`, `StatusCorrect` and `ListenerCorrect` are about the end of a client and need a second
invariant on top, `EndInv`: a tunnelState that was replaced does not come back (`Fresh`);
`forwardEvents` serves its client from `Connect` to the end of its channel, and until then
the tunnelState is the client's, and a registered one has no client after (`Served`); somebody answers for every listener of a
registered tunnelState: the hook, the tunnelState, `forwardEvents` or a `Stop`
(`Listeners`); a channel that is closed ends in a word that is not "connected", unless its
last word was dropped (`LastWord`), so what is shown as connected has a client that will still
report, or whose last word was dropped (`Shown`). `Statuses` is the same for the status that
`Status` returns: a client will correct it by its last word (`WillTell`) or by the end of
its channel (`WillReset`), or was lost under a tunnelState that is registered no more.

`Proxy_proofs`, from one inductive invariant `ProxyInv`. Its first half is about the script:

- `Types` and `Roles`: which call a process carries out follows from its place;
- `Servers`: the server in use listens, each on a port of its own, and a server is
  closed only when it is no longer, or never was, the one in use;
- `Versions`, `Rebuilt`: a script built from the rules of now has them, and one built
  from older rules has a refresh on its way.

The second half is about the setting. `FlagIsSetting` looks at quiet states only; what makes
it inductive is `Between`, in every state, torn or not, as long as no call has crossed: whenever flag and setting
differ, some call is between the two or a removal has failed. `Crosses` says which steps
begin and end a crossing, `ReadCrosses` that `BrowserReads` does neither.

The rest holds as long as no call is torn. `Flagged` is what the place of a call says of
flag and setting (who takes back has the flag reset, who renews has it set), `Whole` what
`~torn` buys, `Untouched` that calls which are not torn do not cross, and that a setting in
use is not one that was left. `Held` is the address a call has read and not yet written.
As long as nothing was left or missed, `Led` is the way from the setting to the server in
use, and `Followed` says that a script the browser has read and that has changed is followed by a new
address; `Fresh` is that an address is used once. `ScriptCorrect`, `FlagCorrect`,
`ServedCorrect` and `BrowserCorrect` state the properties with their exceptions (section 3), for any
number of frontend calls and refreshes at a time; the run `proxy` has two of the one and one
of the other. The lemmas `ServerMoves` to `TunnelMoves` say where each step leads its
process, `PlainMoves` which steps leave flag and setting alone, `RefreshGoesOn` that a refresh does
not stop before the address is written.

`DeadPeer_proofs`, from `TypeOK` and three facts about time: `Bounded` (what is left of a
deadline and the silence so far fit into it), `Due` (an answer that is due came from the
last tick), `Reach` (a deadline nobody may move yet reaches past the next answer counted
from the next tick of `ReadDeadTimer`). `SilenceCorrect` needs the first, `AliveCorrect`
all; that one period of `DPDTimer` serves both channels is `PeriodFits`.

`Ipc_proofs`, from one inductive invariant `Inv`, the conjunction of

- `Types`, the types, and that a number on the wire is the number of its call wherever it
  is kept;
- `Calling`: a call has one caller, and has not returned while that caller is not idle;
- `Requests`: a request is in one place (with its caller, in the pipe or with the server),
  and nowhere once it has been carried out, so nothing is carried out twice;
- `Answers`: an answer is the verdict on its call, with the server, in the pipe, with the
  reader and in the reply channel;
- `Replies`: a call in `pending` has an empty reply channel, and the reader holds only
  calls it has taken out of `pending`, so it never meets a full channel;
- `Served`: the connection is in `Server.clients` from before its first request.

`TypeCorrect`, `ReaderCorrect` and `OwnEventsCorrect` follow from it. `ContractKept` is the
refinement, `Spec => ImplementsRpc`: `CallNumber` is the contract's `Issue`, `Dispatch` its
`Run`, whatever returns its `Return`, every other step a stutter. `CallsAge` is the fact the
parts share: no step makes a call unsent, or unknown to the reader, again.

`App_proofs`, from `Types` (`TypeOK`, the record of a handler, and that one about to adopt
holds a connection), which needs `TunnelsAssumption` (finitely many tunnels: the order in
which a command stops them is a sequence), and `LinkInv`: connections are numbered as they
are dialled (`Dialled`), one in the hands of a call is that call's alone and not the one in
use (`InHand`). `TypeCorrect` and `ConnectionCorrect` follow.

`WindowCorrect`, for any number of tunnels and handlers, needs a second invariant on top,
`WindowInv`, as `WindowShowsTunnels` speaks of quiet states only and every step on the way
to one is not quiet:

- `Wired`, in every state: `forwardServiceEvents` reads the connection in use and no other,
  and calls use none that was not adopted;
- `Heard`, as long as nothing is lost, crossed or behind (`Good`), like all that follows:
  tunnels of the service run only over an open connection, but for those an earlier
  application has left;
- `Told`: the last event of a tunnel in each queue says whether it is up now;
- `Apart`: only one of the managers has tunnels or news of them;
- `Marks`: what each handler will mark at its end is so, or has been noted as marked by
  somebody else (`touched`);
- `Shows`: what is shown of a tunnel is so, or an event of it waits (`Pending`), or a
  handler has yet to ask (`Asking`).

`HeadTells` and `ConcatTells` are the facts about queues: what is left of one when its first
event is handled, and when events are added. A step is one of a few kinds: something
happens at a manager (`HappensSound`; `StopHappens` and `ChangeHappens` say that every stop
and change of a tunnel is of this kind), a handler moves and nothing else (`MoveSound`), the
window handles an event (`HandleSound`), the connections change (`LinksSound`,
`AdoptSound`), a handler ends (`EndMarks`, `EndSound`). What is sound and quiet is shown
(`SettledShows`). The run `app` has one handler of the window and one of the tray at a
time; `MCApp_window.cfg` has two of the window, to be run by hand.

`PacketFlow_proofs`, from one inductive invariant `FlowInv`:

- `Types`, `Bounded`, `Crew`: the types, the sizes of the queues, the goroutines of each mode;
- `Kinds`: what may be in each queue and each hand, and for which queue;
- `InLine`, `OutLine`: along the road of a packet, from the reader of a connection to the
  applications and back, what is further on is older. Order at the end (`InOrder`) is not
  inductive, as two packets are reordered in queues and hands long before they arrive;
- `Apart`: no packet is on its way over both connections; with `OutLine` (an older packet is
  a different one) this is why no packet is in two places;
- `Kept`: as long as nothing has ended every packet is somewhere on its road;
- `Ends`: what has ended when a goroutine has.

`TypeCorrect`, `OrderCorrect`, `StuckCorrect` and `KeptCorrect` follow; `KeptCorrect` counts, with
`OnePlace` and `AtMostOne`, the places that the invariant says there are. The steps are
reduced to what they do to the line: a packet put at the end of a queue (`PutLines`), a new
one in a hand (`NewLines`), one passed on (`PassLines`), received (`GotLines`) or sent
(`WriteLines`).

`EndsCorrect` states `EverythingEnds` and needs a second invariant on top, `Course`: what has
ended when `tlsR` or `Tunnel.Close` is done, that an open DTLS connection has its reader, and
that whoever has chosen DTLS has seen it connected. `StepMoves` and `StepConns` say what a
step does to a goroutine and to the connections. Then there are two arguments.
`SilenceIsHeard`: the reader of TLS, whose read fails, can only be kept from ending the session
by a full queue, its reader only by the next one, and the last of the line takes or ends.
`NothingLeft`: after the end every wait has an end that has happened. Both hold for queues of
any size.

`Names_proofs`, from one inductive invariant `IInv`, the conjunction of

- `TypeOK`, and `Written`: the script is the one of the tunnels that are up, by name;
- `Routed`: a request has the port of its rule until the proxy behind that port has it, and
  nobody has been asked before;
- `Zoned`: a rule that has sent a name to a tunnel comes from a zone of this tunnel;
- `Questioned`: the servers that have been asked on the way to each state of the resolver.
  `StaysInside` speaks of the system only, so on its own it says nothing of the servers
  asked before.

`TypeCorrect`, `InsideCorrect`, `NetworkCorrect`, `ModesCorrect`, `ZonesCorrect` and
`ChoiceCorrect` follow, for any gateways, configurations and hosts whose names are
sequences of labels and whose servers are numbers. What the operators promise are lemmas:
a finite set of numbers has an order in which they rise (`Sorted`, a finite induction by
way of the least size that fails, `Least`), so `refreshPAC` hands every rule over
once (`ByNameOrders`) and the script has the rules of its tunnels (`ScriptRules`); the
browser takes a rule that applies (`FirstRule`); script and resolver read a zone alike
(`RuleZones`, `ZonesRule`, the second with `SuffixOfSuffix`: a forward name has no reverse
zone). `Chosen` puts them together: what the browser finds is the port of exactly one
tunnel that is up. That no two tunnels have one port comes from `Validate`, not from an
assumption. `ModesCorrect` needs no invariant at all.

Only model-checked:

- liveness under fairness (`client_live`, `StopFreesTunnel`, `CallReturns`, `BreakIsHeard`,
  `BrokenIsForgotten`, and `EndsAtLast`): out of the prover's reach. Every invariant and every
  action property that a passing run checks is proved.

## 5. Not modelled

- `openconnect.go`: the former client, which nothing calls.
- Harness, mock gateway, checks, spikes, build files and icons: tests and tools.
- `pac.go:77` drops a zone by the end of its text, `Names` by its last labels: they differ
  for a zone such as "xin-addr.arpa" only.
- Bytes: XML forms, HTTP headers, the layout of CSTP frames and DNS messages, the text of
  the script. The models have their outcome. That a record holds one frame
  (`tunnel.go:528`) is assumed.
- Libraries: netstack, the SOCKS5 protocol, TLS and DTLS handshakes, the WebView.
- The system: netsh and registry commands, the service control manager, elevation, the
  access rights of the pipe. They appear as things that come, go or fail.
- `Submit2FA`, `Status`, `LookupIP` of the manager and the service: they read or pass on.
- Detection of the mode beyond `resolveMode`, loading and saving of the file, the log.
- One window, one service and one configuration at a time: what a second instance of the
  application does to the service is outside these models.
