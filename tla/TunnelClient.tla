---------------------------- MODULE TunnelClient ----------------------------
(***************************************************************************)
(* One sslcon.Client and the sslcon.Tunnel it sets up, from Connect to the *)
(* close of its event channel (src/internal/vpn/sslcon/auth.go, tunnel.go, *)
(* session.go).                                                            *)
(*                                                                         *)
(* The processes are goroutines: Run is Client.run, each member of         *)
(* Stoppers is one call of Disconnect, each member of Submitters calls     *)
(* Submit2FA up to MaxSubmits times in all.  The packet pumps of the       *)
(* tunnel are the members of the set pumps; each of them only matters here *)
(* by what its exit closes.  pc[p] is the program point of p.  The gateway *)
(* answers, hangs or closes the TLS connection as it likes.                *)
(*                                                                         *)
(* Client.mu is the variable mu.  It is held across the network exchanges  *)
(* of InitAuth, PasswordAuth and Submit2FA and between the two statements  *)
(* of Close that other goroutines can see; a critical section that nobody  *)
(* can observe half-way is one action guarded by mu = NoOne.               *)
(*                                                                         *)
(* c.Conn (the pointer) and the connection it points to are two variables: *)
(* Close clears the pointer, while run uses the pointer without the lock.  *)
(***************************************************************************)
EXTENDS Naturals, Sequences, FiniteSets

CONSTANTS
  Run,           \* the goroutine Client.run
  Stoppers,      \* calls of Client.Disconnect
  Submitters,    \* callers of Client.Submit2FA
  NoOne,         \* mu is free
  Modes,         \* the modes a client can be made for: of "tun" and "socks5"
  EventsCap,     \* capacity of Client.events (16 in NewClient)
  MaxRedirects,  \* maxRedirects (5 in auth.go)
  MaxSubmits     \* bound: codes the user enters in one run

ASSUME ProcessAssumption ==
  /\ Run \notin Stoppers \cup Submitters
  /\ Stoppers \cap Submitters = {}
  /\ NoOne \notin {Run} \cup Stoppers \cup Submitters
ASSUME ModeAssumption == Modes \subseteq {"tun", "socks5"}
ASSUME BoundAssumption ==
  /\ EventsCap \in Nat \ {0}
  /\ MaxRedirects \in Nat
  /\ MaxSubmits \in Nat

VARIABLES
  pc,        \* program point of every process
  mu,        \* holder of Client.mu
  running,   \* Client.running
  needs2FA,  \* Client.needs2FA
  twoFAOK,   \* Client.twoFAOK holds a signal (capacity 1)
  token,     \* Cookie() is not empty
  conn,      \* Client.Conn (and BufR): "nil" or "set"
  tunnel,    \* Client.tunnel is set
  mode,      \* Client.mode
  stopped,   \* Client.stopChan is closed
  ctxDone,   \* the context given to Connect is cancelled
  events,    \* Client.events, oldest first
  evClosed,  \* Client.events is closed
  hops,      \* attempt in initWithRedirects
  round,     \* auth-replies sent by PasswordAuth
  submits,   \* codes entered so far
  wire,      \* the TLS connection: "none", "open" or "closed"
  once,      \* Tunnel.closeOnce: "fresh", "busy" or "finished"
  sess,      \* the ConnSession: "none", "open" or "closed"
  tunDev,    \* Tunnel.tunDev is set
  dev,       \* the TUN adapter: "none", "open" or "closed"
  routes,    \* split-include routes are in the routing table
  nrpt,      \* NRPT rules of this tunnel are in the registry
  pumps,     \* goroutines of the tunnel that still run
  granted,   \* history: the gateway has accepted the credentials
  overlap,   \* history: Tunnel.Close began while run was setting up
  crash      \* "no", or the panic that ended the process

lockVars == <<mu, running>>
authVars == <<needs2FA, twoFAOK, token, granted, hops, round, submits>>
toldVars == <<mode, stopped, ctxDone>>
connVars == <<conn, wire>>
tunVars  == <<tunnel, once, sess, tunDev, overlap>>
osVars   == <<dev, routes, nrpt, pumps>>
evVars   == <<events, evClosed>>
vars == <<pc, lockVars, authVars, toldVars, connVars, tunVars, osVars, evVars, crash>>

Procs == {Run} \cup Stoppers \cup Submitters

EventType == {"progress", "2fa_required", "connected", "disconnected", "error"}

\* nilChannel: tlsChannel and its writer, started with a connection that is nil.
Pump == {"tlsChannel", "payloadOutTLS", "nilChannel", "tunToPayloadOut", "payloadInToTun"}

\* Program points of run between a new session and a finished SetupTUN.
SettingUp == {"connStart", "record", "hook", "create", "assign", "routes", "dns"}

CloseLabels == {"tclose", "closeRoutes", "closeDNS", "closeSess", "closeConn", "closeDev"}
RunLabels ==
  {"new", "init", "initWait", "auth", "pwdWait", "challenged", "wait2fa", "setup",
   "cookie", "connect", "connWait", "connErr", "connBuild", "up", "exit", "closeEv",
   "done"} \cup SettingUp \cup CloseLabels
StopLabels == {"idle", "lock", "cclose", "cnil", "returned"} \cup CloseLabels
SubmitLabels == {"idle", "posted"}

\* Where each goroutine can be.
ProgramPoints ==
  /\ pc \in [Procs -> RunLabels \cup StopLabels \cup SubmitLabels]
  /\ pc[Run] \in RunLabels
  /\ \A d \in Stoppers : pc[d] \in StopLabels
  /\ \A s \in Submitters : pc[s] \in SubmitLabels

\* Every variable keeps to the values the Go declarations and the program
\* points allow; in particular the redirect counter and the event channel stay
\* within their capacity.
TypeOK ==
  /\ ProgramPoints
  /\ mu \in Procs \cup {NoOne}
  /\ running \in BOOLEAN /\ needs2FA \in BOOLEAN /\ twoFAOK \in BOOLEAN
  /\ token \in BOOLEAN /\ tunnel \in BOOLEAN /\ stopped \in BOOLEAN
  /\ ctxDone \in BOOLEAN /\ evClosed \in BOOLEAN /\ tunDev \in BOOLEAN
  /\ routes \in BOOLEAN /\ nrpt \in BOOLEAN
  /\ granted \in BOOLEAN /\ overlap \in BOOLEAN
  /\ mode \in Modes
  /\ conn \in {"nil", "set"}
  /\ events \in Seq(EventType) /\ Len(events) <= EventsCap
  /\ hops \in 0..MaxRedirects
  /\ round \in 0..2
  /\ submits \in 0..MaxSubmits
  /\ wire \in {"none", "open", "closed"}
  /\ once \in {"fresh", "busy", "finished"}
  /\ sess \in {"none", "open", "closed"}
  /\ dev \in {"none", "open", "closed"}
  /\ pumps \subseteq Pump
  /\ crash \in {"no", "nilConn", "closedEvents"}

Init ==
  /\ pc = [p \in Procs |-> IF p = Run THEN "new" ELSE "idle"]
  /\ mu = NoOne /\ running = FALSE
  /\ needs2FA = FALSE /\ twoFAOK = FALSE /\ token = FALSE /\ granted = FALSE
  /\ hops = 0 /\ round = 0 /\ submits = 0
  /\ mode \in Modes /\ stopped = FALSE /\ ctxDone = FALSE
  /\ conn = "nil" /\ wire = "none"
  /\ tunnel = FALSE /\ once = "fresh" /\ sess = "none" /\ tunDev = FALSE
  /\ overlap = FALSE
  /\ dev = "none" /\ routes = FALSE /\ nrpt = FALSE /\ pumps = {}
  /\ events = <<>> /\ evClosed = FALSE
  /\ crash = "no"

Alive == crash = "no"
At(p, l) == Alive /\ pc[p] = l
Goto(p, l) == pc' = [pc EXCEPT ![p] = l]

\* emit: a full channel drops the event.
Put(q, e) == IF Len(q) < EventsCap THEN Append(q, e) ELSE q
Emit(e) == events' = Put(events, e) /\ UNCHANGED evClosed

\* run emits an error and falls into its deferred exit.
Fail == Emit("error") /\ Goto(Run, "exit")

\* A nil *tls.Conn is used: the goroutine panics and takes the process with it.
Panic(why) ==
  /\ crash' = why
  /\ UNCHANGED <<pc, lockVars, authVars, toldVars, connVars, tunVars, osVars, evVars>>
-----------------------------------------------------------------------------
(* Client.Connect, InitAuth and initWithRedirects                          *)

Connect ==
  /\ At(Run, "new") /\ mu = NoOne
  /\ ~running
  /\ running' = TRUE
  /\ Goto(Run, "init")
  /\ UNCHANGED <<mu, authVars, toldVars, connVars, tunVars, osVars, evVars, crash>>

\* run announces itself, takes the lock and dials the gateway of the profile.
InitAuthBegin ==
  /\ At(Run, "init") /\ mu = NoOne
  /\ \/ /\ mu' = Run /\ conn' = "set" /\ wire' = "open"
        /\ Emit("progress") /\ Goto(Run, "initWait")
     \/ /\ events' = Put(Put(events, "progress"), "error")
        /\ Goto(Run, "exit")
        /\ UNCHANGED <<mu, connVars, evClosed>>
  /\ UNCHANGED <<running, authVars, toldVars, tunVars, osVars, crash>>

\* Faulty variant: the connection is released after init, as FetchGroups does.
InitAuthOKCloses ==
  /\ At(Run, "initWait") /\ wire = "open"
  /\ mu' = NoOne /\ conn' = "nil" /\ wire' = "closed"
  /\ Goto(Run, "auth")
  /\ UNCHANGED <<running, authVars, toldVars, tunVars, osVars, evVars, crash>>

InitAuthOK ==
  /\ At(Run, "initWait") /\ wire = "open"
  /\ mu' = NoOne
  /\ Goto(Run, "auth")
  /\ UNCHANGED <<running, authVars, toldVars, connVars, tunVars, osVars, evVars, crash>>

\* Faulty variant: no limit on redirects.
InitAuthRedirectUnbounded ==
  /\ At(Run, "initWait") /\ wire = "open"
  /\ hops <= MaxRedirects
  /\ hops' = hops + 1
  /\ Emit("progress")
  /\ UNCHANGED <<pc, lockVars, connVars, needs2FA, twoFAOK, token, granted, round, submits,
                 toldVars, tunVars, osVars, crash>>

\* The gateway redirects to another host: the old connection is closed and the
\* new host dialled, at most MaxRedirects times.
InitAuthRedirect ==
  /\ At(Run, "initWait") /\ wire = "open"
  /\ hops < MaxRedirects
  /\ hops' = hops + 1
  /\ \/ Emit("progress") /\ UNCHANGED <<pc, lockVars, connVars>>
     \/ /\ events' = Put(Put(events, "progress"), "error")
        /\ mu' = NoOne /\ wire' = "closed" /\ Goto(Run, "exit")
        /\ UNCHANGED <<running, conn, evClosed>>
  /\ UNCHANGED <<needs2FA, twoFAOK, token, granted, round, submits, toldVars, tunVars,
                 osVars, crash>>

\* A failed exchange closes the connection; an answer that is refused (unknown
\* group, bad XML) leaves it open.
InitAuthFail ==
  /\ At(Run, "initWait")
  /\ mu' = NoOne
  /\ wire' \in {wire, "closed"}
  /\ Fail
  /\ UNCHANGED <<running, authVars, toldVars, conn, tunVars, osVars, crash>>
-----------------------------------------------------------------------------
(* PasswordAuth                                                            *)

PasswordAuthBegin ==
  /\ At(Run, "auth") /\ mu = NoOne
  /\ \/ conn = "nil" /\ Panic("nilConn")
     \/ /\ conn = "set" /\ wire = "closed"
        /\ events' = Put(Put(events, "progress"), "error")
        /\ Goto(Run, "exit")
        /\ UNCHANGED <<lockVars, authVars, toldVars, connVars, tunVars, osVars, evClosed, crash>>
     \/ /\ conn = "set" /\ wire = "open"
        /\ mu' = Run /\ round' = 1
        /\ Emit("progress") /\ Goto(Run, "pwdWait")
        /\ UNCHANGED <<running, needs2FA, twoFAOK, token, granted, hops, submits, toldVars,
                       connVars, tunVars, osVars, crash>>

\* type="complete": the token may still be missing from it.
PasswordAuthComplete ==
  /\ At(Run, "pwdWait") /\ wire = "open"
  /\ mu' = NoOne
  /\ token' \in BOOLEAN /\ granted' = TRUE
  /\ Emit("progress") /\ Goto(Run, "setup")
  /\ UNCHANGED <<running, needs2FA, twoFAOK, hops, round, submits, toldVars, connVars,
                 tunVars, osVars, crash>>

\* check2FAChallenge finds a challenge form.
PasswordAuthChallenge ==
  /\ At(Run, "pwdWait") /\ wire = "open"
  /\ mu' = NoOne
  /\ needs2FA' = TRUE
  /\ Goto(Run, "challenged")
  /\ UNCHANGED <<running, twoFAOK, token, granted, hops, round, submits, toldVars, connVars,
                 tunVars, osVars, evVars, crash>>

\* Two-step login: the first plain auth-request is answered once more.
PasswordAuthAgain ==
  /\ At(Run, "pwdWait") /\ wire = "open" /\ round = 1
  /\ round' = 2
  /\ UNCHANGED <<pc, lockVars, needs2FA, twoFAOK, token, granted, hops, submits, toldVars,
                 connVars, tunVars, osVars, evVars, crash>>

PasswordAuthFail ==
  /\ At(Run, "pwdWait")
  /\ mu' = NoOne
  /\ wire' \in {wire, "closed"}
  /\ Fail
  /\ UNCHANGED <<running, authVars, toldVars, conn, tunVars, osVars, crash>>
-----------------------------------------------------------------------------
(* run waits for the second factor                                         *)

Announce2FA ==
  /\ At(Run, "challenged")
  /\ Emit("2fa_required") /\ Goto(Run, "wait2fa")
  /\ UNCHANGED <<lockVars, authVars, toldVars, connVars, tunVars, osVars, crash>>

Wait2FAPassed ==
  /\ At(Run, "wait2fa") /\ twoFAOK
  /\ twoFAOK' = FALSE
  /\ Emit("progress") /\ Goto(Run, "setup")
  /\ UNCHANGED <<lockVars, needs2FA, token, granted, hops, round, submits, toldVars, connVars,
                 tunVars, osVars, crash>>

\* Faulty variant: only the context ends the wait (the code before stopChan).
Wait2FACancelledCtxOnly ==
  /\ At(Run, "wait2fa") /\ ctxDone
  /\ Emit("disconnected") /\ Goto(Run, "exit")
  /\ UNCHANGED <<lockVars, authVars, toldVars, connVars, tunVars, osVars, crash>>

Wait2FACancelled ==
  /\ At(Run, "wait2fa") /\ (stopped \/ ctxDone)
  /\ Emit("disconnected") /\ Goto(Run, "exit")
  /\ UNCHANGED <<lockVars, authVars, toldVars, connVars, tunVars, osVars, crash>>
-----------------------------------------------------------------------------
(* SetupTunnel: c.Conn and c.BufR are used without the lock                *)

SetupTunnelCheck ==
  /\ At(Run, "setup")
  /\ IF conn = "nil" THEN Fail ELSE Goto(Run, "cookie") /\ UNCHANGED evVars
  /\ UNCHANGED <<lockVars, authVars, toldVars, connVars, tunVars, osVars, crash>>

\* Faulty variant: an empty cookie is sent.
SetupTunnelCookieUnchecked ==
  /\ At(Run, "cookie") /\ mu = NoOne
  /\ Goto(Run, "connect")
  /\ UNCHANGED <<lockVars, authVars, toldVars, connVars, tunVars, osVars, evVars, crash>>

SetupTunnelCookie ==
  /\ At(Run, "cookie") /\ mu = NoOne
  /\ IF token THEN Goto(Run, "connect") /\ UNCHANGED evVars ELSE Fail
  /\ UNCHANGED <<lockVars, authVars, toldVars, connVars, tunVars, osVars, crash>>

\* c.Conn.LocalAddr, req.Write(c.Conn), then http.ReadResponse(c.BufR).
SendConnect ==
  /\ At(Run, "connect")
  /\ \/ conn = "nil" /\ Panic("nilConn")
     \/ /\ conn = "set"
        /\ Goto(Run, IF wire = "open" THEN "connWait" ELSE "connErr")
        /\ UNCHANGED <<lockVars, authVars, toldVars, connVars, tunVars, osVars, evVars, crash>>

ConnectAccepted ==
  /\ At(Run, "connWait") /\ wire = "open"
  /\ Goto(Run, "connBuild")
  /\ UNCHANGED <<lockVars, authVars, toldVars, connVars, tunVars, osVars, evVars, crash>>

ConnectRefused ==
  /\ At(Run, "connWait")
  /\ Goto(Run, "connErr")
  /\ UNCHANGED <<lockVars, authVars, toldVars, connVars, tunVars, osVars, evVars, crash>>

\* The error paths of SetupTunnel call c.Conn.Close().
SetupTunnelFail ==
  /\ At(Run, "connErr")
  /\ \/ conn = "nil" /\ Panic("nilConn")
     \/ /\ conn = "set" /\ wire' = "closed"
        /\ Fail
        /\ UNCHANGED <<lockVars, authVars, toldVars, conn, tunVars, osVars, crash>>

\* The session; RemoteAddr and ConnectionState of c.Conn are read, then c.Conn
\* for Tunnel.tlsConn, which may already be nil: then Close has closed what
\* Tunnel.Close would have closed.
BuildTunnel ==
  /\ At(Run, "connBuild")
  /\ \/ conn = "nil" /\ Panic("nilConn")
     \/ /\ conn = "set"
        /\ sess' = "open"
        /\ Goto(Run, "connStart")
        /\ UNCHANGED <<lockVars, authVars, toldVars, connVars, tunnel, once, tunDev, overlap,
                       osVars, evVars, crash>>

\* go tlsChannel(c.Conn, c.BufR, ...): one more read of both without the lock,
\* and nothing looks at what was read.
StartChannel ==
  /\ At(Run, "connStart")
  /\ pumps' = IF conn = "nil" THEN {"nilChannel"} ELSE {"tlsChannel", "payloadOutTLS"}
  /\ Goto(Run, "record")
  /\ UNCHANGED <<lockVars, authVars, toldVars, connVars, tunVars, dev, routes, nrpt, evVars,
                 crash>>

RecordTunnel ==
  /\ At(Run, "record")
  /\ tunnel' = TRUE
  /\ Goto(Run, IF mode = "socks5" THEN "hook" ELSE "create")
  /\ UNCHANGED <<lockVars, authVars, toldVars, connVars, once, sess, tunDev, overlap, osVars,
                 evVars, crash>>
-----------------------------------------------------------------------------
(* The TunnelSetup hook (socks5) or SetupTUN (tun)                         *)

HookDone ==
  /\ At(Run, "hook")
  /\ Emit("connected") /\ Goto(Run, "up")
  /\ UNCHANGED <<lockVars, authVars, toldVars, connVars, tunVars, osVars, crash>>

\* Faulty variant: the tunnel is not closed when the hook fails.
HookFailedNoClose ==
  /\ At(Run, "hook")
  /\ Fail
  /\ UNCHANGED <<lockVars, authVars, toldVars, connVars, tunVars, osVars, crash>>

HookFailed ==
  /\ At(Run, "hook")
  /\ Emit("error") /\ Goto(Run, "tclose")
  /\ UNCHANGED <<lockVars, authVars, toldVars, connVars, tunVars, osVars, crash>>

CreateDevice ==
  /\ At(Run, "create")
  /\ dev' = "open"
  /\ Goto(Run, "assign")
  /\ UNCHANGED <<lockVars, authVars, toldVars, connVars, tunVars, routes, nrpt, pumps, evVars,
                 crash>>

\* Faulty variant: run goes on after the error.
CreateFailedGoesOn ==
  /\ At(Run, "create")
  /\ Emit("error") /\ Goto(Run, "up")
  /\ UNCHANGED <<lockVars, authVars, toldVars, connVars, tunVars, osVars, crash>>

CreateFailed ==
  /\ At(Run, "create")
  /\ Fail
  /\ UNCHANGED <<lockVars, authVars, toldVars, connVars, tunVars, osVars, crash>>

AssignDevice ==
  /\ At(Run, "assign")
  /\ tunDev' = TRUE
  /\ pumps' = pumps \cup {"tunToPayloadOut", "payloadInToTun"}
  /\ Goto(Run, "routes")
  /\ UNCHANGED <<lockVars, authVars, toldVars, connVars, tunnel, once, sess, overlap, dev,
                 routes, nrpt, evVars, crash>>

\* Best effort: a route through an adapter that is gone is only logged.
ApplyRoutes ==
  /\ At(Run, "routes")
  /\ routes' = (dev = "open")
  /\ Goto(Run, "dns")
  /\ UNCHANGED <<lockVars, authVars, toldVars, connVars, tunVars, dev, nrpt, pumps, evVars,
                 crash>>

\* The gateway may have sent no split-DNS zones: then there is no rule to add.
ApplyDNSPolicy ==
  /\ At(Run, "dns")
  /\ nrpt' \in BOOLEAN
  /\ Emit("connected") /\ Goto(Run, "up")
  /\ UNCHANGED <<lockVars, authVars, toldVars, connVars, tunVars, dev, routes, pumps, crash>>

\* Faulty variant: Disconnect ends run before Tunnel.Close has closed the session.
RunEndsWhenStopped ==
  /\ At(Run, "up") /\ (ctxDone \/ stopped \/ sess = "closed")
  /\ Emit("disconnected") /\ Goto(Run, "exit")
  /\ UNCHANGED <<lockVars, authVars, toldVars, connVars, tunVars, osVars, crash>>

\* run waits for the context or for the end of the session.
RunEnds ==
  /\ At(Run, "up") /\ (ctxDone \/ sess = "closed")
  /\ Emit("disconnected") /\ Goto(Run, "exit")
  /\ UNCHANGED <<lockVars, authVars, toldVars, connVars, tunVars, osVars, crash>>

\* The deferred function of run.
ExitRunning ==
  /\ At(Run, "exit") /\ mu = NoOne
  /\ running' = FALSE
  /\ Goto(Run, "closeEv")
  /\ UNCHANGED <<mu, authVars, toldVars, connVars, tunVars, osVars, evVars, crash>>

CloseEvents ==
  /\ At(Run, "closeEv")
  /\ evClosed' = TRUE
  /\ Goto(Run, "done")
  /\ UNCHANGED <<lockVars, authVars, toldVars, connVars, tunVars, osVars, events, crash>>
-----------------------------------------------------------------------------
(* Tunnel.Close, run by Disconnect or by run itself                        *)

Closers == {Run} \cup Stoppers

\* What the caller of Tunnel.Close does next.
AfterClose(p) == IF p = Run THEN "exit" ELSE "cclose"

\* Faulty variant: the session is closed before routes and rules are removed.
TunnelCloseSessionFirst(p) ==
  /\ At(p, "tclose")
  /\ once = "fresh" /\ once' = "busy"
  /\ overlap' = (pc[Run] \in SettingUp)
  /\ Goto(p, "closeSess")
  /\ UNCHANGED <<lockVars, authVars, toldVars, connVars, tunnel, sess, tunDev, osVars, evVars,
                 crash>>

\* closeOnce.Do: a second caller waits until the first has finished.
TunnelClose(p) ==
  /\ At(p, "tclose")
  /\ \/ /\ once = "fresh" /\ once' = "busy"
        /\ overlap' = (pc[Run] \in SettingUp)
        /\ Goto(p, "closeRoutes")
     \/ /\ once = "finished" /\ UNCHANGED <<once, overlap>>
        /\ Goto(p, AfterClose(p))
  /\ UNCHANGED <<lockVars, authVars, toldVars, connVars, tunnel, sess, tunDev, osVars, evVars,
                 crash>>

RemoveRoutes(p) ==
  /\ At(p, "closeRoutes")
  /\ IF tunDev THEN routes' = FALSE /\ Goto(p, "closeDNS")
               ELSE UNCHANGED routes /\ Goto(p, "closeSess")
  /\ UNCHANGED <<lockVars, authVars, toldVars, connVars, tunVars, dev, nrpt, pumps, evVars,
                 crash>>

\* Faulty variant: the NRPT rules are left to vanish with the interface.
RemoveDNSPolicyNot(p) ==
  /\ At(p, "closeDNS")
  /\ Goto(p, "closeSess")
  /\ UNCHANGED <<lockVars, authVars, toldVars, connVars, tunVars, osVars, evVars, crash>>

RemoveDNSPolicy(p) ==
  /\ At(p, "closeDNS")
  /\ nrpt' = FALSE
  /\ Goto(p, "closeSess")
  /\ UNCHANGED <<lockVars, authVars, toldVars, connVars, tunVars, dev, routes, pumps, evVars,
                 crash>>

CloseSession(p) ==
  /\ At(p, "closeSess")
  /\ sess' = "closed"
  /\ Goto(p, "closeConn")
  /\ UNCHANGED <<lockVars, authVars, toldVars, connVars, tunnel, once, tunDev, overlap, osVars,
                 evVars, crash>>

CloseTLS(p) ==
  /\ At(p, "closeConn")
  /\ wire' = "closed"
  /\ Goto(p, "closeDev")
  /\ UNCHANGED <<lockVars, authVars, toldVars, conn, tunVars, osVars, evVars, crash>>

\* Deleting the adapter takes its routes with it; NRPT rules name no interface.
CloseDevice(p) ==
  /\ At(p, "closeDev")
  /\ IF tunDev THEN dev' = "closed" /\ routes' = FALSE ELSE UNCHANGED <<dev, routes>>
  /\ once' = "finished"
  /\ Goto(p, AfterClose(p))
  /\ UNCHANGED <<lockVars, authVars, toldVars, connVars, tunnel, sess, tunDev, overlap, nrpt,
                 pumps, evVars, crash>>
-----------------------------------------------------------------------------
(* Disconnect and Client.Close                                             *)

DisconnectCall(d) ==
  /\ At(d, "idle")
  /\ stopped' = TRUE
  /\ Goto(d, "lock")
  /\ UNCHANGED <<lockVars, authVars, mode, ctxDone, connVars, tunVars, osVars, evVars, crash>>

\* Faulty variant: the lock is kept for Client.Close, which takes it again.
DisconnectReadKeepsLock(d) ==
  /\ At(d, "lock") /\ mu = NoOne
  /\ mu' = d /\ running' = FALSE
  /\ Goto(d, IF tunnel THEN "tclose" ELSE "cclose")
  /\ UNCHANGED <<authVars, toldVars, connVars, tunVars, osVars, evVars, crash>>

DisconnectRead(d) ==
  /\ At(d, "lock") /\ mu = NoOne
  /\ running' = FALSE
  /\ Goto(d, IF tunnel THEN "tclose" ELSE "cclose")
  /\ UNCHANGED <<mu, authVars, toldVars, connVars, tunVars, osVars, evVars, crash>>

CloseConn(d) ==
  /\ At(d, "cclose") /\ mu = NoOne
  /\ IF conn = "nil" THEN Goto(d, "returned") /\ UNCHANGED <<mu, wire>>
                     ELSE Goto(d, "cnil") /\ mu' = d /\ wire' = "closed"
  /\ UNCHANGED <<running, authVars, toldVars, conn, tunVars, osVars, evVars, crash>>

ClearConn(d) ==
  /\ At(d, "cnil")
  /\ conn' = "nil" /\ mu' = NoOne
  /\ Goto(d, "returned")
  /\ UNCHANGED <<running, authVars, toldVars, wire, tunVars, osVars, evVars, crash>>
-----------------------------------------------------------------------------
(* Submit2FA                                                               *)

\* Refused at once (no challenge, no connection), failed on a dead connection
\* (needs2FA stays set and run is not told), or sent.
SubmitBegin(s) ==
  /\ At(s, "idle") /\ mu = NoOne /\ submits < MaxSubmits
  /\ submits' = submits + 1
  /\ IF needs2FA /\ conn = "set" /\ wire = "open"
     THEN mu' = s /\ Goto(s, "posted")
     ELSE UNCHANGED <<mu, pc>>
  /\ UNCHANGED <<running, needs2FA, twoFAOK, token, granted, hops, round, toldVars, connVars,
                 tunVars, osVars, evVars, crash>>

SubmitAccepted(s) ==
  /\ At(s, "posted") /\ wire = "open"
  /\ needs2FA' = FALSE
  /\ token' \in BOOLEAN /\ granted' = TRUE
  /\ twoFAOK' = TRUE
  /\ mu' = NoOne
  /\ Goto(s, "idle")
  /\ UNCHANGED <<running, hops, round, submits, toldVars, connVars, tunVars, osVars, evVars,
                 crash>>

\* A new challenge form: the code is asked for again.
SubmitChallenged(s) ==
  /\ At(s, "posted") /\ wire = "open"
  /\ \/ evClosed /\ Panic("closedEvents")
     \/ /\ ~evClosed /\ Emit("2fa_required")
        /\ mu' = NoOne
        /\ Goto(s, "idle")
        /\ UNCHANGED <<running, authVars, toldVars, connVars, tunVars, osVars, crash>>

\* Faulty variant: a rejection does not wake run (the code before failAuth).
SubmitRejectedSilently(s) ==
  /\ At(s, "posted") /\ wire = "open"
  /\ needs2FA' = FALSE
  /\ mu' = NoOne
  /\ Goto(s, "idle")
  /\ UNCHANGED <<running, twoFAOK, token, granted, hops, round, submits, toldVars, connVars,
                 tunVars, osVars, evVars, crash>>

\* failAuth: no further form, the wait of run is over.
SubmitRejected(s) ==
  /\ At(s, "posted") /\ wire = "open"
  /\ needs2FA' = FALSE
  /\ stopped' = TRUE
  /\ mu' = NoOne
  /\ Goto(s, "idle")
  /\ UNCHANGED <<running, twoFAOK, token, granted, hops, round, submits, mode, ctxDone,
                 connVars, tunVars, osVars, evVars, crash>>

\* The exchange fails, or the answer is not XML and the connection stays; run
\* is not told and the challenge stays open.
SubmitFailed(s) ==
  /\ At(s, "posted")
  /\ wire' \in {wire, "closed"}
  /\ mu' = NoOne
  /\ Goto(s, "idle")
  /\ UNCHANGED <<running, authVars, toldVars, conn, tunVars, osVars, evVars, crash>>
-----------------------------------------------------------------------------
(* The goroutines of the tunnel                                            *)

\* tlsChannel and payloadOutTLSToServer: either end closes connection and session.
TLSPumpExit(g) ==
  /\ Alive /\ g \in pumps \cap {"tlsChannel", "payloadOutTLS"}
  /\ wire = "closed" \/ sess = "closed"
  /\ pumps' = pumps \ {g}
  /\ wire' = "closed" /\ sess' = "closed"
  /\ UNCHANGED <<pc, lockVars, authVars, toldVars, conn, tunnel, once, tunDev, overlap, dev,
                 routes, nrpt, evVars, crash>>

\* Whatever tlsChannel and its writer do with a nil connection - set its
\* deadline, read, write, or close it at their end - is a panic.
NilChannelPanics ==
  /\ Alive /\ "nilChannel" \in pumps
  /\ Panic("nilConn")

\* Its defer closes the adapter only.
TunToPayloadOutExit ==
  /\ Alive /\ "tunToPayloadOut" \in pumps
  /\ dev = "closed" \/ sess = "closed"
  /\ pumps' = pumps \ {"tunToPayloadOut"}
  /\ dev' = "closed" /\ routes' = FALSE
  /\ UNCHANGED <<pc, lockVars, authVars, toldVars, connVars, tunVars, nrpt, evVars, crash>>

\* Faulty variant: the adapter is left open.
PayloadInToTunExitOpen ==
  /\ Alive /\ "payloadInToTun" \in pumps
  /\ dev = "closed" \/ sess = "closed"
  /\ pumps' = pumps \ {"payloadInToTun"}
  /\ sess' = "closed"
  /\ UNCHANGED <<pc, lockVars, authVars, toldVars, connVars, tunnel, once, tunDev, overlap,
                 dev, routes, nrpt, evVars, crash>>

\* Its defer closes the session and the adapter.
PayloadInToTunExit ==
  /\ Alive /\ "payloadInToTun" \in pumps
  /\ dev = "closed" \/ sess = "closed"
  /\ pumps' = pumps \ {"payloadInToTun"}
  /\ sess' = "closed" /\ dev' = "closed" /\ routes' = FALSE
  /\ UNCHANGED <<pc, lockVars, authVars, toldVars, connVars, tunnel, once, tunDev, overlap,
                 nrpt, evVars, crash>>
-----------------------------------------------------------------------------
(* The environment                                                         *)

PeerCloses ==
  /\ Alive /\ wire = "open"
  /\ wire' = "closed"
  /\ UNCHANGED <<pc, lockVars, authVars, toldVars, conn, tunVars, osVars, evVars, crash>>

CancelContext ==
  /\ Alive /\ ~ctxDone
  /\ ctxDone' = TRUE
  /\ UNCHANGED <<pc, lockVars, authVars, mode, stopped, connVars, tunVars, osVars, evVars,
                 crash>>

\* Manager.forwardEvents takes the oldest event.
TakeEvent ==
  /\ Alive /\ events # <<>>
  /\ events' = Tail(events)
  /\ UNCHANGED <<pc, lockVars, authVars, toldVars, connVars, tunVars, osVars, evClosed, crash>>
-----------------------------------------------------------------------------
\* The steps the gateway decides: what it answers to a request under way.
GatewayAnswers ==
  \/ InitAuthOK \/ InitAuthRedirect \/ InitAuthFail
  \/ PasswordAuthComplete \/ PasswordAuthChallenge \/ PasswordAuthAgain \/ PasswordAuthFail
  \/ ConnectAccepted \/ ConnectRefused
  \/ \E s \in Submitters :
       SubmitAccepted(s) \/ SubmitChallenged(s) \/ SubmitRejected(s) \/ SubmitFailed(s)

RunStep ==
  \/ Connect \/ InitAuthBegin \/ PasswordAuthBegin
  \/ Announce2FA \/ Wait2FAPassed \/ Wait2FACancelled
  \/ SetupTunnelCheck \/ SetupTunnelCookie \/ SendConnect \/ SetupTunnelFail
  \/ BuildTunnel \/ StartChannel \/ RecordTunnel
  \/ HookDone \/ HookFailed
  \/ CreateDevice \/ CreateFailed \/ AssignDevice \/ ApplyRoutes \/ ApplyDNSPolicy
  \/ RunEnds \/ ExitRunning \/ CloseEvents

CloseStep(p) ==
  \/ TunnelClose(p) \/ RemoveRoutes(p) \/ RemoveDNSPolicy(p)
  \/ CloseSession(p) \/ CloseTLS(p) \/ CloseDevice(p)

DisconnectStep(d) == DisconnectRead(d) \/ CloseConn(d) \/ ClearConn(d)

PumpStep ==
  \/ \E g \in Pump : TLSPumpExit(g)
  \/ NilChannelPanics
  \/ TunToPayloadOutExit
  \/ PayloadInToTunExit

UserStep ==
  \/ \E d \in Stoppers : DisconnectCall(d)
  \/ \E s \in Submitters : SubmitBegin(s)

Next ==
  \/ RunStep
  \/ GatewayAnswers
  \/ \E p \in Closers : CloseStep(p)
  \/ \E d \in Stoppers : DisconnectStep(d)
  \/ PumpStep
  \/ UserStep
  \/ PeerCloses \/ CancelContext \/ TakeEvent

\* A read from a connection that is closed fails at once, without the gateway.
ReadFails ==
  /\ wire = "closed"
  /\ \/ InitAuthFail \/ PasswordAuthFail \/ ConnectRefused
     \/ \E s \in Submitters : SubmitFailed(s)

\* A goroutine that can take a step takes it; users, the gateway, the context
\* and the reader of the events owe nothing.  A pump is sure to notice only
\* what it blocks on: the reader its connection, the writers the session, the
\* reader of the adapter its device; anything else it notices with a packet.
Fairness ==
  /\ WF_vars(RunStep) /\ WF_vars(CloseStep(Run)) /\ WF_vars(ReadFails)
  /\ \A d \in Stoppers : WF_vars(CloseStep(d) \/ DisconnectStep(d))
  /\ WF_vars(wire = "closed" /\ TLSPumpExit("tlsChannel"))
  /\ WF_vars(sess = "closed" /\ TLSPumpExit("payloadOutTLS"))
  /\ WF_vars(NilChannelPanics)
  /\ WF_vars(dev = "closed" /\ TunToPayloadOutExit)
  /\ WF_vars(sess = "closed" /\ PayloadInToTunExit)

Spec == Init /\ [][Next]_vars

FairSpec == Spec /\ Fairness

\* With a gateway that answers or closes the connection sooner or later.
LiveGatewaySpec == FairSpec /\ WF_vars(GatewayAnswers)
-----------------------------------------------------------------------------
(* Safety                                                                  *)

\* SetupTunnel sends CONNECT, and a tunnel exists, only after the gateway has
\* accepted the credentials and issued a token - whatever Submit2FA, a repeated
\* challenge and Disconnect do meanwhile (PasswordAuth, Submit2FA, run).
GrantedBeforeTunnel ==
  pc[Run] \in {"connect", "connWait", "connErr", "connBuild", "up"} \cup SettingUp
    => granted /\ token

\* run never waits for a second factor that has already been decided: once
\* Submit2FA has cleared needs2FA, a wake-up is waiting in twoFAOK or stopChan.
NoLostWakeup ==
  pc[Run] \in {"challenged", "wait2fa"} /\ ~needs2FA => twoFAOK \/ stopped

\* A "connected" event is queued only for a tunnel that exists: the progress
\* steps of the login never look like a connection to the manager (EventProgress).
ConnectedMeansTunnel ==
  (\E i \in 1..Len(events) : events[i] = "connected") => tunnel /\ granted

\* A Tunnel.Close that began when run was past the setup leaves nothing behind:
\* no routes, no NRPT rules, no adapter, no session, no connection.
CleanTeardown ==
  once = "finished" /\ ~overlap =>
    ~routes /\ ~nrpt /\ dev # "open" /\ sess = "closed" /\ wire = "closed"

\* The nil c.Conn that SetupTunnel, PasswordAuth or tlsChannel meets is one that a
\* Disconnect cleared on its way out, and once the tunnel is recorded only a
\* tlsChannel that was started without its connection meets it; the closed channel
\* of Submit2FA is met only after the wait was cancelled.  Neither the gateway nor
\* a wrong code alone can bring the process down.
PanicsAreCancellations ==
  /\ crash = "nilConn" =>
       /\ stopped /\ \E d \in Stoppers : pc[d] = "returned"
       /\ tunnel => "nilChannel" \in pumps
  /\ crash = "closedEvents" => stopped \/ ctxDone

\* When the event channel of a socks5 client closes (unless the context was
\* cancelled) the session is over: Manager.forwardEvents takes the close for the
\* end of the tunnel.  In tun mode a failed SetupTUN leaves the session open.
FinishedMeansClosed == mode = "socks5" /\ evClosed /\ ~ctxDone => sess # "open"

\* How far run is at program point l, for those who only see its events.
PhaseAt(l) ==
  CASE l = "new"                                    -> "new"
    [] l \in SettingUp                              -> "setup"
    [] l = "up"                                     -> "up"
    [] l \in {"exit", "closeEv"} \cup CloseLabels   -> "ended"
    [] l = "done"                                   -> "closed"
    [] OTHER                                        -> "login"

\* The client is what Manager takes it for (module ClientContract): one attempt
\* with its words in order, the close after the last word, and none of it
\* without a reason.
Contract == INSTANCE ClientContract WITH
  Cap <- EventsCap, socks5 <- (mode = "socks5"), phase <- PhaseAt(pc[Run]),
  session <- sess, asked <- stopped, cancelled <- ctxDone, q <- events
ImplementsContract == Contract!Spec

\* The status that Manager shows is never contradicted by what the channel still
\* holds: "connected" once, the word of the end once and after it.
StatusInOrder == Contract!StatusInOrder

\* A session whose connection still works is closed only after its routes are
\* removed: later the adapter is gone and netsh cannot name it (Tunnel.Close).
RoutesBeforeSession ==
  [][sess = "open" /\ sess' = "closed" /\ wire = "open" => ~routes \/ overlap]_vars

(* What the comments of the code promise and the code does not keep        *)

\* Disconnect is calm: no goroutine meets the connection pointer it cleared.
NoNilConnection == crash # "nilConn"

\* Submit2FA answers a wrong code with an error, never with a panic.
WrongCodeIsAnError == crash # "closedEvents"

\* After Disconnect has returned no tunnel of this client is up.
DisconnectStops ==
  \A d \in Stoppers : pc[d] = "returned" => ~(pc[Run] = "up" /\ sess = "open")

\* A finished tunnel leaves no NRPT rules.
RulesGoWithTunnel == pc[Run] = "done" /\ pumps = {} => ~nrpt

(* Liveness                                                                *)

Crashed == crash # "no"

\* A Disconnect that arrives after InitAuth ends run, wherever run is: waiting
\* for a code, negotiating, configuring the adapter or up.
DisconnectTakesEffect ==
  \A d \in Stoppers :
    (pc[d] = "lock" /\ pc[Run] \notin {"new", "init", "initWait"})
      ~> (pc[Run] = "done" \/ Crashed)

\* A closed session takes all goroutines of the tunnel and its adapter with it,
\* for good.
TunnelUnwinds == (sess = "closed") ~> ([](pumps = {} /\ dev # "open") \/ Crashed)

\* Disconnect returns.
DisconnectReturns ==
  \A d \in Stoppers : (pc[d] = "lock") ~> (pc[d] = "returned" \/ Crashed)

\* run does not wait for a code that nobody can send any more.
DeafWaitEnds ==
  (pc[Run] = "wait2fa" /\ wire = "closed") ~> (pc[Run] # "wait2fa" \/ Crashed)
=============================================================================
