--------------------------------- MODULE App ---------------------------------
(***************************************************************************)
(* The desktop application (src/internal/ui/app.go, service.go, tray.go and*)
(* src/frontend/app.js) between its own tunnel manager and the one of the  *)
(* service (src/cmd/dualvpn-service): which of the two gets a command, the *)
(* connection to the service, and what the window shows.                   *)
(*                                                                         *)
(* A manager is reduced to the state of its tunnels: "off", "starting" or  *)
(* "up" (module Manager); a stop takes effect at once.  A connection       *)
(* carries calls and events (module Ipc) until it breaks; events queue in  *)
(* it until forwardServiceEvents handles them.  The window runs one        *)
(* handler at a time, so a handler, or the part of it between two awaits,  *)
(* is one action; the tray calls the same methods from its own goroutine.  *)
(* Switching the mode also concerns the proxy: module Proxy.               *)
(***************************************************************************)
EXTENDS Naturals, Sequences, FiniteSets

CONSTANTS
  Tunnels,    \* configured tunnels
  Window,     \* handlers of the window under way at a time
  TrayMenu,   \* the goroutine of the tray
  Ops,        \* what they do: "toggle", "all", "none", "switch", "save", "quit"
  MaxConns,   \* bound: connections dialled
  MaxCalls,   \* bound: handlers run
  MaxStarts,  \* bound: tunnels started
  MaxRestarts \* bound: stops and starts of the service

ASSUME TunnelsAssumption == IsFiniteSet(Tunnels)
ASSUME ProcsAssumption == Window \cap TrayMenu = {}
ASSUME OpsAssumption == Ops \subseteq {"toggle", "all", "none", "switch", "save", "quit"}
ASSUME BoundAssumption ==
  /\ MaxConns \in Nat /\ MaxCalls \in Nat /\ MaxStarts \in Nat /\ MaxRestarts \in Nat

Procs  == Window \cup TrayMenu
Conn   == 1..MaxConns
Nil    == 0
Place  == {"local", "service"}
Event  == [t : Tunnels, type : {"connected", "disconnected", "error"}]

VARIABLES
  admin,     \* the application has the rights of an administrator
  mode,      \* App.mode
  available, \* App.svcAvailable
  svc,       \* App.svc
  alive,     \* the application runs
  running,   \* the service runs
  tun,       \* the tunnels of both managers
  localQ,    \* Manager.events of the application
  link,      \* the connections
  linkQ,     \* the events in each
  fwd,       \* forwardServiceEvents of each
  shown,     \* what the window shows of each tunnel
  proc,      \* the handlers
  conns, calls, starts, restarts,  \* bounds used up
  lost,      \* history: an event or a call of the service got lost, or its connection while it held tunnels
  crossed,   \* history: a tunnel ran in both managers, or was marked by a handler after an event or another handler
  behind     \* history: tunnels or events of the service, or a call, went on behind a switch or a save

appVars  == <<admin, mode, available, svc, alive>>
linkVars == <<link, linkQ, fwd, conns>>
boundVars == <<calls, starts, restarts>>
vars == <<appVars, running, tun, localQ, linkVars, shown, proc, boundVars, lost, crossed, behind>>

\* op: the handler, todo: the tunnels left, w: the backend it has chosen,
\* conn: the connection it uses, ok: the answer, touched: the tunnels that
\* an event or another handler has marked meanwhile.
Idle == [at |-> "idle", op |-> "", todo |-> {}, w |-> "local", conn |-> Nil, ok |-> TRUE, touched |-> {}]

At(p, l) == proc[p].at = l
Goto(p, l) == proc' = [proc EXCEPT ![p].at = l]

\* NewApp in a fresh process.  The service may still hold tunnels of an
\* earlier one.  The window begins by asking for the state of every tunnel.
Init ==
  /\ admin \in BOOLEAN /\ running \in BOOLEAN /\ available = running
  /\ mode \in {"tun", "socks5"}
  /\ svc = Nil /\ alive = TRUE
  /\ \E held \in SUBSET Tunnels :
       /\ running \/ held = {}
       /\ tun = [w \in Place |-> [t \in Tunnels |->
                   IF w = "service" /\ t \in held THEN "up" ELSE "off"]]
  /\ localQ = <<>>
  /\ link = [c \in Conn |-> "none"] /\ linkQ = [c \in Conn |-> <<>>] /\ fwd = [c \in Conn |-> "none"]
  /\ conns = 0 /\ calls = 0 /\ starts = 0 /\ restarts = 0
  /\ shown = [t \in Tunnels |-> "off"]
  /\ \E p \in Window :
       proc = [q \in Procs |-> IF q = p THEN [Idle EXCEPT !.at = "choose", !.op = "status", !.todo = Tunnels]
                               ELSE Idle]
  /\ lost = FALSE /\ crossed = FALSE /\ behind = FALSE
-----------------------------------------------------------------------------
(* The managers                                                            *)

Listening == {c \in Conn : link[c] = "open"}

\* Events es happen at w, in order: the application's manager queues them, the
\* service broadcasts them.
Emit(w, es) ==
  IF w = "local" THEN localQ' = localQ \o es /\ UNCHANGED <<linkQ, lost>>
  ELSE /\ linkQ' = [c \in Conn |-> IF c \in Listening THEN linkQ[c] \o es ELSE linkQ[c]]
       /\ lost' = (lost \/ (es # <<>> /\ Listening = {}))
       /\ UNCHANGED localQ

Ev(t, e) == [t |-> t, type |-> e]

\* TUN tunnels need the rights of an administrator, which the service has.
CanRun(w) == w = "service" \/ mode = "socks5" \/ admin

\* A started tunnel comes up or fails, one that is up may fall.
TunnelChanges(w, t) ==
  /\ w = "service" => running
  /\ w = "local" => alive
  /\ \/ /\ tun[w][t] = "starting" /\ CanRun(w)
        /\ tun' = [tun EXCEPT ![w][t] = "up"]
        /\ Emit(w, <<Ev(t, "connected")>>)
     \/ /\ tun[w][t] = "starting"
        /\ tun' = [tun EXCEPT ![w][t] = "off"]
        /\ Emit(w, <<Ev(t, "error")>>)
     \/ /\ tun[w][t] = "up"
        /\ tun' = [tun EXCEPT ![w][t] = "off"]
        /\ Emit(w, <<Ev(t, "disconnected")>>)
  /\ UNCHANGED <<appVars, running, link, fwd, conns, shown, proc, boundVars, crossed, behind>>

\* The tunnels ts of w are stopped; those not running have nothing to say.
StopAt(w, ts) ==
  LET on == {t \in ts : tun[w][t] # "off"}
      order == CHOOSE f \in [1..Cardinality(on) -> on] : \A t \in on : \E i \in DOMAIN f : f[i] = t IN
  /\ tun' = [tun EXCEPT ![w] = [t \in Tunnels |-> IF t \in on THEN "off" ELSE @[t]]]
  /\ Emit(w, [i \in 1..Cardinality(on) |-> Ev(order[i], "disconnected")])

\* The service is stopped (engine.stop, its connections end with it) or started.
ServiceStops ==
  /\ running /\ restarts < MaxRestarts /\ restarts' = restarts + 1
  /\ running' = FALSE
  /\ lost' = (lost \/ \E t \in Tunnels : tun["service"][t] # "off")
  /\ tun' = [tun EXCEPT !["service"] = [t \in Tunnels |-> "off"]]
  /\ link' = [c \in Conn |-> IF link[c] = "open" THEN "broken" ELSE link[c]]
  /\ UNCHANGED <<appVars, localQ, linkQ, fwd, conns, shown, proc, calls, starts, crossed, behind>>

ServiceStarts ==
  /\ ~running /\ restarts < MaxRestarts /\ restarts' = restarts + 1
  /\ running' = TRUE
  /\ UNCHANGED <<appVars, tun, localQ, linkVars, shown, proc, calls, starts, lost, crossed, behind>>

\* The pipe of a connection breaks; what the application has not read is gone.
Break(c) ==
  /\ link[c] = "open" /\ restarts < MaxRestarts /\ restarts' = restarts + 1
  /\ link' = [link EXCEPT ![c] = "broken"]
  /\ \E k \in 0..Len(linkQ[c]) :
       /\ linkQ' = [linkQ EXCEPT ![c] = SubSeq(@, 1, k)]
       /\ lost' = (lost \/ k < Len(linkQ[c]) \/ \E t \in Tunnels : tun["service"][t] # "off")
  /\ UNCHANGED <<appVars, running, tun, localQ, fwd, conns, shown, proc, calls, starts, crossed, behind>>
-----------------------------------------------------------------------------
(* Events                                                                  *)

\* The handlers under way note that the tunnels ts have been marked.
Touch(ts) == [p \in Procs |-> IF At(p, "idle") THEN proc[p]
                              ELSE [proc[p] EXCEPT !.touched = @ \cup ts]]

\* handleEvent, then onTunnelEvent in the window.
Handle(e) ==
  /\ shown' = [shown EXCEPT ![e.t] = IF e.type = "connected" THEN "on" ELSE "off"]
  /\ proc' = Touch({e.t})

\* forwardEvents of the application.
LocalEvent ==
  /\ alive /\ localQ # <<>>
  /\ localQ' = Tail(localQ)
  /\ Handle(Head(localQ))
  /\ UNCHANGED <<appVars, running, tun, linkVars, boundVars, lost, crossed, behind>>

\* forwardServiceEvents.
ServiceEvent(c) ==
  /\ alive /\ fwd[c] = "run" /\ linkQ[c] # <<>>
  /\ linkQ' = [linkQ EXCEPT ![c] = Tail(@)]
  /\ Handle(Head(linkQ[c]))
  /\ UNCHANGED <<appVars, running, tun, localQ, link, fwd, conns, boundVars, lost, crossed, behind>>

\* Faulty variant: the end of the events is only written to the log.
ServiceGoneLogged(c) ==
  /\ alive /\ fwd[c] = "run" /\ linkQ[c] = <<>> /\ link[c] = "broken"
  /\ fwd' = [fwd EXCEPT ![c] = "done"]
  /\ UNCHANGED <<admin, mode, alive, running, tun, localQ, link, linkQ, conns, shown, proc,
                 boundVars, lost, crossed, behind, svc, available>>

\* The channel of events is closed: the connection is forgotten.
ServiceGone(c) ==
  /\ alive /\ fwd[c] = "run" /\ linkQ[c] = <<>> /\ link[c] = "broken"
  /\ fwd' = [fwd EXCEPT ![c] = "done"]
  /\ IF svc = c THEN svc' = Nil /\ available' = FALSE ELSE UNCHANGED <<svc, available>>
  /\ UNCHANGED <<admin, mode, alive, running, tun, localQ, link, linkQ, conns, shown, proc,
                 boundVars, lost, crossed, behind>>
-----------------------------------------------------------------------------
(* Handlers begin                                                          *)

Begin(p, o, ts, l) ==
  proc' = [proc EXCEPT ![p] = [Idle EXCEPT !.at = l, !.op = o, !.todo = ts]]

\* toggleTunnel: what it does depends on what is shown.
Toggle(p) ==
  /\ p \in Window /\ "toggle" \in Ops
  /\ \E t \in Tunnels :
       IF shown[t] = "off"
       THEN shown' = [shown EXCEPT ![t] = "connecting"] /\ Begin(p, "connect", {t}, "choose")
       ELSE Begin(p, "disconnect", {t}, "choose") /\ UNCHANGED shown

\* Both have a button for all tunnels; only the window shows it.
ConnectAll(p) ==
  /\ "all" \in Ops
  /\ Begin(p, "connectAll", Tunnels, "choose")
  /\ shown' = IF p \in TrayMenu THEN shown
              ELSE [t \in Tunnels |-> IF shown[t] = "off" THEN "connecting" ELSE shown[t]]

DisconnectAll(p) ==
  /\ "none" \in Ops
  /\ Begin(p, "disconnectAll", {}, "choose")
  /\ UNCHANGED shown

\* The window refuses to switch to TUN without rights.
Leave(p) ==
  \/ /\ p \in Window /\ "switch" \in Ops
     /\ mode = "socks5" => admin
     /\ Begin(p, "switch", {}, "switch")
  \/ /\ p \in Window /\ "save" \in Ops
     /\ Begin(p, "save", {}, "register")
  \/ /\ p \in TrayMenu /\ "quit" \in Ops
     /\ Begin(p, "quit", {}, "quit")

Click(p) ==
  /\ alive /\ At(p, "idle") /\ calls < MaxCalls /\ calls' = calls + 1
  /\ \/ Toggle(p)
     \/ ConnectAll(p)
     \/ DisconnectAll(p)
     \/ Leave(p) /\ UNCHANGED shown
  /\ UNCHANGED <<appVars, running, tun, localQ, linkVars, starts, restarts, lost, crossed, behind>>
-----------------------------------------------------------------------------
(* Commands                                                                *)

Backend == IF mode = "tun" /\ available THEN "service" ELSE "local"

\* backend: the service in TUN mode, as long as it is thought to be there.
Choose(p) ==
  /\ At(p, "choose")
  /\ proc' = [proc EXCEPT ![p].w = Backend, ![p].at = IF Backend = "service" THEN "client" ELSE "run"]
  /\ UNCHANGED <<appVars, running, tun, localQ, linkVars, shown, boundVars, lost, crossed, behind>>

\* serviceClient: the connection there is, or a new one.
ServiceClient(p) ==
  /\ At(p, "client")
  /\ IF svc # Nil THEN proc' = [proc EXCEPT ![p].at = "run", ![p].conn = svc]
     ELSE Goto(p, "dial")
  /\ UNCHANGED <<appVars, running, tun, localQ, linkVars, shown, boundVars, lost, crossed, behind>>

Dial(p) ==
  /\ At(p, "dial")
  /\ \/ /\ running /\ conns < MaxConns
        /\ conns' = conns + 1
        /\ link' = [link EXCEPT ![conns + 1] = "open"]
        /\ proc' = [proc EXCEPT ![p].at = "adopt", ![p].conn = conns + 1]
     \/ ~running /\ Goto(p, "absent") /\ UNCHANGED <<link, conns>>
  /\ UNCHANGED <<appVars, running, tun, localQ, linkQ, fwd, shown, boundVars, lost, crossed, behind>>

\* Faulty variant: the connection that another call has made is replaced.
AdoptLast(p) ==
  LET c == proc[p].conn IN
  /\ At(p, "adopt")
  /\ svc' = c /\ available' = TRUE
  /\ fwd' = [fwd EXCEPT ![c] = "run"]
  /\ Goto(p, "run")
  /\ UNCHANGED <<admin, mode, alive, running, tun, localQ, link, linkQ, conns, shown, boundVars, lost, crossed, behind>>

\* If another call was faster its connection is used and this one closed.
Adopt(p) ==
  LET c == proc[p].conn IN
  /\ At(p, "adopt")
  /\ IF svc # Nil
     THEN /\ link' = [link EXCEPT ![c] = "broken"]
          /\ proc' = [proc EXCEPT ![p].at = "run", ![p].conn = svc]
          /\ UNCHANGED <<svc, available, fwd>>
     ELSE /\ svc' = c /\ available' = TRUE
          /\ fwd' = [fwd EXCEPT ![c] = "run"]
          /\ Goto(p, "run") /\ UNCHANGED link
  /\ UNCHANGED <<admin, mode, alive, running, tun, localQ, linkQ, conns, shown, boundVars, lost, crossed, behind>>

\* The service was not there to be dialled.
Absent(p) ==
  /\ At(p, "absent")
  /\ available' = FALSE
  /\ proc' = [proc EXCEPT ![p].at = "end", ![p].ok = FALSE]
  /\ lost' = TRUE
  /\ UNCHANGED <<admin, mode, svc, alive, running, tun, localQ, linkVars, shown, boundVars, crossed, behind>>

Cut(p) == proc[p].conn # Nil /\ link[proc[p].conn] # "open"

\* The manager other than w runs a tunnel, or events of it wait.
BusyElsewhere(w) ==
  \/ \E t \in Tunnels, v \in Place \ {w} : tun[v][t] # "off"
  \/ IF w = "service" THEN localQ # <<>> ELSE \E c \in Conn : linkQ[c] # <<>>

\* Whose turn it is in a loop over the tunnels ts: their order is fixed.
Due(ts) == {t \in ts : t = CHOOSE u \in ts : TRUE}

\* The command is carried out where it was sent.  Start refuses a tunnel that
\* runs, Stop of one that does not is no error.  A loop goes on after errors.
Run(p) ==
  LET w == proc[p].w  r == proc[p] IN
  /\ At(p, "run") /\ ~Cut(p)
  /\ \/ /\ r.op \in {"connect", "connectAll"}
        /\ \E t \in Due(r.todo) :
             /\ IF tun[w][t] = "off"
                THEN /\ starts < MaxStarts /\ starts' = starts + 1
                     /\ tun' = [tun EXCEPT ![w][t] = "starting"]
                ELSE UNCHANGED <<tun, starts>>
             /\ proc' = [proc EXCEPT ![p].at = "end", ![p].ok = (tun[w][t] = "off")]
        /\ UNCHANGED <<localQ, linkQ, lost>>
     \/ /\ r.op = "disconnect" /\ StopAt(w, r.todo)
        /\ Goto(p, "end") /\ UNCHANGED starts
     \/ /\ r.op = "disconnectAll" /\ StopAt(w, Tunnels)
        /\ Goto(p, "end") /\ UNCHANGED starts
     \/ /\ r.op = "status"
        /\ \E t \in Due(r.todo) : proc' = [proc EXCEPT ![p].at = "end", ![p].ok = (tun[w][t] = "up")]
        /\ UNCHANGED <<tun, localQ, linkQ, lost, starts>>
  /\ crossed' = (crossed \/ (r.op \in {"connect", "connectAll"} /\ BusyElsewhere(w)))
  /\ UNCHANGED <<appVars, running, link, fwd, conns, shown, calls, restarts, behind>>

RunCut(p) ==
  /\ At(p, "run") /\ Cut(p)
  /\ proc' = [proc EXCEPT ![p].at = "end", ![p].ok = FALSE]
  /\ UNCHANGED <<appVars, running, tun, localQ, linkVars, shown, boundVars, lost, crossed, behind>>

\* The answer; a break may lose it.  The window marks a tunnel whose connect
\* or disconnect failed as off, and one whose status is connected as on.
End(p) ==
  LET r == proc[p] IN
  /\ At(p, "end")
  /\ \E ok \in {r.ok} \cup (IF Cut(p) THEN {FALSE} ELSE {}), t \in IF r.todo = {} THEN Tunnels ELSE Due(r.todo) :
       LET marked == CASE r.op \in {"connect", "disconnect"} -> IF ok THEN shown[t] ELSE "off"
                       [] r.op = "status" -> IF ok THEN "on" ELSE shown[t]
                       [] OTHER -> shown[t] IN
       /\ shown' = [shown EXCEPT ![t] = marked]
       /\ crossed' = (crossed \/ (marked # shown[t] /\ t \in r.touched))
       /\ lost' = (lost \/ (~ok /\ Cut(p)))
       /\ proc' = [Touch(IF marked = shown[t] THEN {} ELSE {t}) EXCEPT ![p] =
            IF r.todo \ {t} = {} THEN Idle
            ELSE [r EXCEPT !.at = CASE r.op = "status" -> "choose"
                                    [] r.w = "service" -> "client"
                                    [] OTHER -> "run",
                           !.todo = @ \ {t}, !.conn = Nil, !.ok = TRUE]]
  /\ UNCHANGED <<appVars, running, tun, localQ, linkVars, boundVars, behind>>
-----------------------------------------------------------------------------
(* Switching, saving, leaving                                              *)

\* SwitchMode up to registerTunnels.  It would also let a service that answers
\* stand in for the rights (app.go:219), but the window does not ask then.
SwitchMode(p) ==
  /\ At(p, "switch")
  /\ mode' = IF mode = "tun" THEN "socks5" ELSE "tun"
  /\ Goto(p, "register")
  /\ UNCHANGED <<admin, svc, available, alive, running, tun, localQ, linkVars, shown, boundVars, lost, crossed, behind>>

\* Faulty variant: the tunnels of the own manager go on.
RegisterOnly(p) ==
  /\ At(p, "register")
  /\ shown' = [t \in Tunnels |-> "off"]
  /\ crossed' = (crossed \/ \E t \in Tunnels : shown[t] = "on" /\ t \in proc[p].touched)
  /\ behind' = (behind \/ (\E t \in Tunnels : tun["service"][t] # "off")
                      \/ (\E c \in Conn : linkQ[c] # <<>>) \/ (\E q \in Procs \ {p} : ~At(q, "idle")))
  /\ proc' = [proc EXCEPT ![p] = Idle]
  /\ UNCHANGED <<appVars, running, tun, localQ, linkQ, lost, link, fwd, conns, boundVars>>

\* registerTunnels stops the tunnels of the own manager; the window then shows
\* all tunnels as off, those of the service too.
Register(p) ==
  /\ At(p, "register")
  /\ StopAt("local", Tunnels)
  /\ shown' = [t \in Tunnels |-> "off"]
  /\ crossed' = (crossed \/ \E t \in Tunnels : shown[t] = "on" /\ t \in proc[p].touched)
  /\ behind' = (behind \/ (\E t \in Tunnels : tun["service"][t] # "off")
                      \/ (\E c \in Conn : linkQ[c] # <<>>) \/ (\E q \in Procs \ {p} : ~At(q, "idle")))
  /\ proc' = [proc EXCEPT ![p] = Idle]
  /\ UNCHANGED <<appVars, running, link, fwd, conns, boundVars>>

\* Quit and Shutdown: the tunnels of the own manager stop, the process ends.
Quit(p) ==
  /\ At(p, "quit")
  /\ alive' = FALSE
  /\ tun' = [tun EXCEPT !["local"] = [t \in Tunnels |-> "off"]]
  /\ link' = [c \in Conn |-> IF link[c] = "open" THEN "broken" ELSE link[c]]
  /\ proc' = [proc EXCEPT ![p] = Idle]
  /\ UNCHANGED <<admin, mode, available, svc, running, localQ, linkQ, fwd, conns, shown, boundVars, lost, crossed, behind>>
-----------------------------------------------------------------------------
Handler(p) ==
  \/ Choose(p) \/ ServiceClient(p) \/ Dial(p) \/ Adopt(p) \/ Absent(p)
  \/ Run(p) \/ RunCut(p) \/ End(p)
  \/ SwitchMode(p) \/ Register(p) \/ Quit(p)

Next ==
  \/ \E p \in Procs : Click(p) \/ (alive /\ Handler(p))
  \/ \E w \in Place, t \in Tunnels : TunnelChanges(w, t)
  \/ ServiceStops \/ ServiceStarts \/ LocalEvent
  \/ \E c \in Conn : Break(c) \/ ServiceEvent(c) \/ ServiceGone(c)

\* What the application does by itself.  Calls return (module Ipc).
Work ==
  \/ alive /\ \E p \in Procs : Handler(p)
  \/ LocalEvent
  \/ \E c \in Conn : ServiceEvent(c) \/ ServiceGone(c)

\* Some goroutine that can go on does: less than Go's scheduler gives each.
Fairness == WF_vars(Work)

Spec == Init /\ [][Next]_vars
FairSpec == Spec /\ Fairness
-----------------------------------------------------------------------------
(* Safety                                                                  *)

TypeOK ==
  /\ {admin, available, alive, running, lost, crossed, behind} \subseteq BOOLEAN
  /\ mode \in {"tun", "socks5"} /\ svc \in Conn \cup {Nil}
  /\ tun \in [Place -> [Tunnels -> {"off", "starting", "up"}]]
  /\ localQ \in Seq(Event) /\ linkQ \in [Conn -> Seq(Event)]
  /\ link \in [Conn -> {"none", "open", "broken"}] /\ fwd \in [Conn -> {"none", "run", "done"}]
  /\ shown \in [Tunnels -> {"off", "connecting", "on"}]
  /\ \A p \in Procs : proc[p].todo \subseteq Tunnels /\ proc[p].conn \in Conn \cup {Nil}
                      /\ proc[p].w \in Place /\ proc[p].touched \subseteq Tunnels
                      /\ (At(p, "run") /\ proc[p].w = "service" => proc[p].conn # Nil)
  /\ conns \in 0..MaxConns

\* There is one connection to the service: whatever calls dial at the same
\* time, an open connection is the one in use or still in the hands of the
\* call that made it.  A second one would bring every event twice.
NoLeakedConnection ==
  \A c \in Conn : link[c] = "open" =>
    svc = c \/ \E p \in Procs : At(p, "adopt") /\ proc[p].conn = c

Settled ==
  /\ \A p \in Procs : At(p, "idle")
  /\ localQ = <<>> /\ \A c \in Conn : linkQ[c] = <<>>

\* When nothing is under way the window shows a tunnel as connected only if it
\* is up, and every tunnel that is up where commands go.  Excepted are events
\* that reached nobody (no connection at that time, or it broke), tunnels
\* marked by the end of a handler after an event or another handler it
\* overlapped, and what goes on behind a switch or a save (tunnels of the
\* service above all).
WindowShowsTunnels ==
  alive /\ Settled /\ ~lost /\ ~crossed /\ ~behind =>
    \A t \in Tunnels :
      /\ shown[t] = "on" => \E w \in Place : tun[w][t] = "up"
      /\ tun[Backend][t] = "up" => shown[t] = "on"

(* What the comments of the code promise and the code does not keep        *)

\* Switching the mode and saving the configuration stop every tunnel.
SwitchStopsTunnels ==
  [][\A p \in Procs : At(p, "register") /\ ~At(p, "register")'
       => \A w \in Place, t \in Tunnels : tun'[w][t] = "off"]_vars

(* Liveness                                                                *)

\* A broken connection does not stay the one in use, so the next command
\* dials again instead of failing for ever.
BrokenIsForgotten ==
  \A c \in Conn : (svc = c /\ link[c] = "broken") ~> (svc # c \/ ~alive)
=============================================================================
