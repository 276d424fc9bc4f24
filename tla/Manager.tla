------------------------------- MODULE Manager -------------------------------
(***************************************************************************)
(* vpn.Manager (src/internal/vpn/manager.go) with its callers, its clients *)
(* and their forwardEvents goroutines.                                     *)
(*                                                                         *)
(* A tunnelState is a member of State: AddTunnel and ReplaceTunnels put a  *)
(* new one into the table, and goroutines that captured the old one keep   *)
(* it.  A Client is created by each successful Start; its own life is      *)
(* reduced to what the manager can see (module TunnelClient has the rest): *)
(* "new" until Connect, "login" until there is a tunnel, the three steps   *)
(* of the TunnelSetup hook (socks5), "up", and "closed" when its channel   *)
(* is closed.  A Disconnect during "new" or "login" may be lost.           *)
(*                                                                         *)
(* Every critical section of Manager.mu is one action.  refreshPAC changes *)
(* nothing here; module Proxy has it.  m.events is read by one             *)
(* goroutine in order, so shown[id] is what it has seen last of tunnel id. *)
(* Both channels also carry the progress of the login, which is left out:  *)
(* they may be full whenever a status event comes, and then it is dropped. *)
(***************************************************************************)
EXTENDS Naturals, Sequences, FiniteSets

CONSTANTS
  Ids,         \* tunnel identifiers
  Callers,     \* goroutines that call the manager
  Ops,         \* what they call: "start", "stop", "startall", "stopall", "replace", "connect"
  Mode,        \* "tun" or "socks5"
  MaxClients,  \* bound: clients created
  MaxStates    \* bound: tunnelStates created

ASSUME IdsAssumption == IsFiniteSet(Ids) /\ Ids # {}
ASSUME OpsAssumption ==
  Ops \subseteq {"start", "stop", "startall", "stopall", "replace", "connect"}
ASSUME ModeAssumption == Mode \in {"tun", "socks5"}
ASSUME BoundAssumption ==
  MaxClients \in Nat /\ MaxStates \in Nat /\ MaxStates >= Cardinality(Ids)

State  == 1..MaxStates
Client == 1..MaxClients
Nil    == 0

VARIABLES
  table,      \* m.tunnels: the State of every id (Nil: not registered)
  st,         \* the tunnelStates
  states,     \* tunnelStates created
  cl,         \* the clients
  clients,    \* clients created
  listening,  \* clients whose SOCKS5 bridge listens on the port of their tunnel
  fwd,        \* the forwardEvents goroutine of every client
  shown,      \* last status event of every tunnel in m.events
  caller      \* the callers

vars == <<table, st, states, cl, clients, listening, fwd, shown, caller>>

\* "ended" stands for EventDisconnected and EventError, which are treated alike.
Event == {"connected", "ended"}

StateRec  == [client : Client \cup {Nil}, bridge : Client \cup {Nil},
              connected : BOOLEAN, pacRule : BOOLEAN]
ClientRec == [phase : {"unborn", "new", "login", "hook", "hookSet", "hookEmit", "up", "closed"},
              id : Ids, st : State \cup {Nil}, stop : BOOLEAN, q : Seq(Event),
              lost : BOOLEAN]    \* history: the last word was dropped by Client.emit
FwdRec    == [at : {"none", "read", "emit", "close", "done"},
              ev : Event, bridge : Client \cup {Nil},
              unheard : BOOLEAN] \* history: the last word was dropped by Manager.emit
CallerRec == [at : {"idle", "next", "add", "start", "connect", "stop", "closeBridge",
                    "disconnect", "swap"},
              op : Ops \cup {"none"}, id : Ids, todo : SUBSET Ids,
              client : Client \cup {Nil}, bridge : Client \cup {Nil}]

\* Every variable keeps to its type, and no client queue ever holds more than
\* the two status events a client can produce.
TypeOK ==
  /\ table \in [Ids -> State \cup {Nil}]
  /\ st \in [State -> StateRec]
  /\ states \in 0..MaxStates
  /\ cl \in [Client -> ClientRec]
  /\ \A c \in Client : Len(cl[c].q) <= 2
  /\ clients \in 0..MaxClients
  /\ listening \subseteq Client
  /\ fwd \in [Client -> FwdRec]
  /\ shown \in [Ids -> Event]
  /\ caller \in [Callers -> CallerRec]

NewState == [client |-> Nil, bridge |-> Nil, connected |-> FALSE, pacRule |-> FALSE]

\* An order of the ids, to number the tunnelStates made in one loop.
Rank == CHOOSE f \in [Ids -> 1..Cardinality(Ids)] : \A a, b \in Ids : f[a] = f[b] => a = b

AnyId == CHOOSE i \in Ids : TRUE
Idle  == [at |-> "idle", op |-> "none", id |-> AnyId, todo |-> {}, client |-> Nil, bridge |-> Nil]

\* The application starts with the tunnels of its configuration, the service
\* with none.
Init ==
  /\ \/ table = Rank /\ states = Cardinality(Ids)
     \/ table = [i \in Ids |-> Nil] /\ states = 0
  /\ st = [s \in State |-> NewState]
  /\ cl = [c \in Client |-> [phase |-> "unborn", id |-> AnyId, st |-> Nil,
                             stop |-> FALSE, q |-> <<>>, lost |-> FALSE]]
  /\ clients = 0
  /\ listening = {}
  /\ fwd = [c \in Client |-> [at |-> "none", ev |-> "ended", bridge |-> Nil,
                              unheard |-> FALSE]]
  /\ shown = [i \in Ids |-> "ended"]
  /\ caller = [p \in Callers |-> Idle]

Live(c) == cl[c].phase \notin {"unborn", "closed"}
At(p, l) == caller[p].at = l
Goto(p, l) == caller' = [caller EXCEPT ![p].at = l]

\* Manager.emit: a full m.events drops the event.
Report(i, e) == shown' \in {shown, [shown EXCEPT ![i] = e]}
-----------------------------------------------------------------------------
(* Calls                                                                   *)

Loops == {"startall", "stopall", "replace"}

\* A loop takes the ids in the table when it starts; the others name one id.
Call(p) ==
  /\ At(p, "idle")
  /\ \/ \E o \in Ops \cap Loops :
          caller' = [caller EXCEPT ![p].at = "next", ![p].op = o,
                                   ![p].todo = {i \in Ids : table[i] # Nil}]
     \/ \E o \in Ops \ Loops, i \in Ids :
          caller' = [caller EXCEPT ![p].op = o, ![p].id = i,
                                   ![p].at = IF o = "connect" THEN "add" ELSE o]
  /\ UNCHANGED <<table, st, states, cl, clients, listening, fwd, shown>>

\* Where a caller goes when Start or Stop has returned.
Return(r) ==
  IF r.op \in Loops THEN [r EXCEPT !.at = "next", !.id = AnyId, !.client = Nil, !.bridge = Nil]
  ELSE Idle

\* The next id of a loop, in no particular order; after the last one
\* ReplaceTunnels goes on and the others return.
LoopNext(p) ==
  /\ At(p, "next")
  /\ \/ \E i \in caller[p].todo :
          caller' = [caller EXCEPT ![p].at = IF caller[p].op = "startall" THEN "start" ELSE "stop",
                                   ![p].id = i, ![p].todo = @ \ {i}]
     \/ /\ caller[p].todo = {}
        /\ caller' = [caller EXCEPT ![p] = IF @.op = "replace" THEN [@ EXCEPT !.at = "swap"]
                                           ELSE Idle]
  /\ UNCHANGED <<table, st, states, cl, clients, listening, fwd, shown>>

\* handler.Connect of the service registers the tunnel first (AddTunnel).
AddTunnel(p) ==
  /\ At(p, "add") /\ states < MaxStates
  /\ states' = states + 1
  /\ table' = [table EXCEPT ![caller[p].id] = states + 1]
  /\ Goto(p, "start")
  /\ UNCHANGED <<st, cl, clients, listening, fwd, shown>>

\* The second half of ReplaceTunnels, after StopAll; tunnels may disappear.
SwapTunnels(p) ==
  /\ At(p, "swap") /\ states + Cardinality(Ids) <= MaxStates
  /\ states' = states + Cardinality(Ids)
  /\ \E kept \in SUBSET Ids :
       table' = [i \in Ids |-> IF i \in kept THEN states + Rank[i] ELSE Nil]
  /\ caller' = [caller EXCEPT ![p] = Idle]
  /\ UNCHANGED <<st, cl, clients, listening, fwd, shown>>
-----------------------------------------------------------------------------
(* Start                                                                   *)

StartRefused(p) ==
  /\ At(p, "start")
  /\ LET s == table[caller[p].id] IN s # Nil => st[s].client # Nil
  /\ caller' = [caller EXCEPT ![p] = Return(@)]
  /\ IF caller[p].op = "startall" THEN Report(caller[p].id, "ended") ELSE UNCHANGED shown
  /\ UNCHANGED <<table, st, states, cl, clients, listening, fwd>>

\* Faulty variant: a tunnel that is already started is started again.
StartTunnelUnchecked(p) ==
  LET i == caller[p].id  s == table[i]  c == clients + 1 IN
  /\ At(p, "start") /\ clients < MaxClients
  /\ s # Nil
  /\ clients' = c
  /\ cl' = [cl EXCEPT ![c] = [@ EXCEPT !.phase = "new", !.id = i, !.st = s]]
  /\ st' = [st EXCEPT ![s].client = c]
  /\ caller' = [caller EXCEPT ![p].at = "connect", ![p].client = c]
  /\ UNCHANGED <<table, states, listening, fwd, shown>>

StartTunnel(p) ==
  LET i == caller[p].id  s == table[i]  c == clients + 1 IN
  /\ At(p, "start") /\ clients < MaxClients
  /\ s # Nil /\ st[s].client = Nil
  /\ clients' = c
  /\ cl' = [cl EXCEPT ![c] = [@ EXCEPT !.phase = "new", !.id = i, !.st = s]]
  /\ st' = [st EXCEPT ![s].client = c]
  /\ caller' = [caller EXCEPT ![p].at = "connect", ![p].client = c]
  /\ UNCHANGED <<table, states, listening, fwd, shown>>

\* client.Connect outside the lock, then go forwardEvents.
ConnectClient(p) ==
  LET c == caller[p].client IN
  /\ At(p, "connect")
  /\ cl' = [cl EXCEPT ![c].phase = "login"]
  /\ fwd' = [fwd EXCEPT ![c].at = "read"]
  /\ caller' = [caller EXCEPT ![p] = Return(@)]
  /\ UNCHANGED <<table, st, states, clients, listening, shown>>
-----------------------------------------------------------------------------
(* Stop                                                                    *)

StopRefused(p) ==
  /\ At(p, "stop") /\ table[caller[p].id] = Nil
  /\ caller' = [caller EXCEPT ![p] = Return(@)]
  /\ UNCHANGED <<table, st, states, cl, clients, listening, fwd, shown>>

\* Faulty variant: the PAC rule stays until forwardEvents cleans up.
StopTunnelKeepsRule(p) ==
  LET s == table[caller[p].id] IN
  /\ At(p, "stop") /\ s # Nil
  /\ st' = [st EXCEPT ![s].bridge = Nil]
  /\ caller' = [caller EXCEPT ![p].at = "closeBridge",
                              ![p].client = st[s].client, ![p].bridge = st[s].bridge]
  /\ UNCHANGED <<table, states, cl, clients, listening, fwd, shown>>

StopTunnel(p) ==
  LET s == table[caller[p].id] IN
  /\ At(p, "stop") /\ s # Nil
  /\ st' = [st EXCEPT ![s].bridge = Nil, ![s].pacRule = FALSE]
  /\ caller' = [caller EXCEPT ![p].at = "closeBridge",
                              ![p].client = st[s].client, ![p].bridge = st[s].bridge]
  /\ UNCHANGED <<table, states, cl, clients, listening, fwd, shown>>

StopBridge(p) ==
  /\ At(p, "closeBridge")
  /\ listening' = listening \ {caller[p].bridge}
  /\ caller' = [caller EXCEPT ![p] = IF @.client = Nil THEN Return(@)
                                     ELSE [@ EXCEPT !.at = "disconnect"]]
  /\ UNCHANGED <<table, st, states, cl, clients, fwd, shown>>

\* client.Disconnect; before there is a tunnel it may go unnoticed.
StopClient(p) ==
  LET c == caller[p].client IN
  /\ At(p, "disconnect")
  /\ \/ cl' = [cl EXCEPT ![c].stop = TRUE]
     \/ cl[c].phase \in {"new", "login"} /\ UNCHANGED cl
  /\ caller' = [caller EXCEPT ![p] = Return(@)]
  /\ UNCHANGED <<table, st, states, clients, listening, fwd, shown>>
-----------------------------------------------------------------------------
(* The client                                                              *)

\* Client.emit: a full channel drops the event, a last word too.
Tell(c, e, ph) ==
  \/ cl' = [cl EXCEPT ![c].q = Append(@, e), ![c].phase = ph]
  \/ cl' = [cl EXCEPT ![c].lost = (ph = "closed"), ![c].phase = ph]

LoginEnds(c) ==
  /\ cl[c].phase = "login"
  /\ Tell(c, "ended", "closed")
  /\ UNCHANGED <<table, st, states, clients, listening, fwd, shown, caller>>

TunnelMade(c) ==
  /\ cl[c].phase = "login"
  /\ IF Mode = "socks5" THEN cl' = [cl EXCEPT ![c].phase = "hook"]
                        ELSE Tell(c, "connected", "up")
  /\ UNCHANGED <<table, st, states, clients, listening, fwd, shown, caller>>

\* The bridge listens on the port of the tunnel, unless another one still does.
HookListen(c) ==
  /\ cl[c].phase = "hook"
  /\ IF \E d \in listening : cl[d].id = cl[c].id
     THEN Tell(c, "ended", "closed") /\ UNCHANGED listening
     ELSE listening' = listening \cup {c} /\ cl' = [cl EXCEPT ![c].phase = "hookSet"]
  /\ UNCHANGED <<table, st, states, clients, fwd, shown, caller>>

\* The closure of Start writes into the tunnelState it captured.
HookSet(c) ==
  /\ cl[c].phase = "hookSet"
  /\ st' = [st EXCEPT ![cl[c].st].bridge = c, ![cl[c].st].pacRule = TRUE]
  /\ cl' = [cl EXCEPT ![c].phase = "hookEmit"]
  /\ UNCHANGED <<table, states, clients, listening, fwd, shown, caller>>

\* The hook reports to the manager, then run reports to the client's channel.
HookEmit(c) ==
  /\ cl[c].phase = "hookEmit"
  /\ Report(cl[c].id, "connected")
  /\ Tell(c, "connected", "up")
  /\ UNCHANGED <<table, st, states, clients, listening, fwd, caller>>

\* Disconnected by the user or by the gateway.
TunnelEnds(c) ==
  /\ cl[c].phase = "up"
  /\ Tell(c, "ended", "closed")
  /\ UNCHANGED <<table, st, states, clients, listening, fwd, shown, caller>>
-----------------------------------------------------------------------------
(* forwardEvents                                                           *)

\* An event is taken and the status of whatever is registered as id is set.
ForwardRead(c) ==
  LET s == table[cl[c].id]  e == Head(cl[c].q) IN
  /\ fwd[c].at = "read" /\ cl[c].q # <<>>
  /\ cl' = [cl EXCEPT ![c].q = Tail(@)]
  /\ fwd' = [fwd EXCEPT ![c].at = "emit", ![c].ev = e]
  /\ st' = IF s = Nil THEN st ELSE [st EXCEPT ![s].connected = (e = "connected")]
  /\ UNCHANGED <<table, states, clients, listening, shown, caller>>

\* Faulty variant: only connections are passed on.
ForwardEmitConnected(c) ==
  /\ fwd[c].at = "emit"
  /\ shown' = IF fwd[c].ev = "connected" THEN [shown EXCEPT ![cl[c].id] = fwd[c].ev] ELSE shown
  /\ fwd' = [fwd EXCEPT ![c].at = "read", ![c].ev = "ended"]
  /\ UNCHANGED <<table, st, states, cl, clients, listening, caller>>

\* A last word that meets a full m.events is never repeated.
ForwardEmit(c) ==
  /\ fwd[c].at = "emit"
  /\ \/ /\ shown' = [shown EXCEPT ![cl[c].id] = fwd[c].ev]
        /\ fwd' = [fwd EXCEPT ![c].at = "read", ![c].ev = "ended"]
     \/ /\ fwd' = [fwd EXCEPT ![c].at = "read", ![c].ev = "ended",
                               ![c].unheard = (fwd[c].ev # "connected")]
        /\ UNCHANGED shown
  /\ UNCHANGED <<table, st, states, cl, clients, listening, caller>>

\* Faulty variant: the bridge of a tunnel that fell is forgotten.
ForwardEndNoBridge(c) ==
  LET s == table[cl[c].id]  mine == s # Nil /\ st[s].client = c IN
  /\ fwd[c].at = "read" /\ cl[c].q = <<>> /\ cl[c].phase = "closed"
  /\ st' = IF mine THEN [st EXCEPT ![s] = NewState] ELSE st
  /\ fwd' = [fwd EXCEPT ![c].at = "close"]
  /\ UNCHANGED <<table, states, cl, clients, listening, shown, caller>>

\* Faulty variant: the end of an old client clears what is registered now.
ForwardEndAnyClient(c) ==
  LET s == table[cl[c].id] IN
  /\ fwd[c].at = "read" /\ cl[c].q = <<>> /\ cl[c].phase = "closed"
  /\ st' = IF s # Nil THEN [st EXCEPT ![s] = NewState] ELSE st
  /\ fwd' = [fwd EXCEPT ![c].at = "close", ![c].bridge = IF s # Nil THEN st[s].bridge ELSE Nil]
  /\ UNCHANGED <<table, states, cl, clients, listening, shown, caller>>

\* Faulty variant: the tunnelState keeps its client.
ForwardEndKeepsClient(c) ==
  LET s == table[cl[c].id]  mine == s # Nil /\ st[s].client = c IN
  /\ fwd[c].at = "read" /\ cl[c].q = <<>> /\ cl[c].phase = "closed"
  /\ st' = IF mine THEN [st EXCEPT ![s] = [NewState EXCEPT !.client = c]] ELSE st
  /\ fwd' = [fwd EXCEPT ![c].at = "close", ![c].bridge = IF mine THEN st[s].bridge ELSE Nil]
  /\ UNCHANGED <<table, states, cl, clients, listening, shown, caller>>

\* Faulty variant: the status is left to the last word of the client.
ForwardEndKeepsStatus(c) ==
  LET s == table[cl[c].id]  mine == s # Nil /\ st[s].client = c IN
  /\ fwd[c].at = "read" /\ cl[c].q = <<>> /\ cl[c].phase = "closed"
  /\ st' = IF mine THEN [st EXCEPT ![s] = [NewState EXCEPT !.connected = st[s].connected]] ELSE st
  /\ fwd' = [fwd EXCEPT ![c].at = "close", ![c].bridge = IF mine THEN st[s].bridge ELSE Nil]
  /\ UNCHANGED <<table, states, cl, clients, listening, shown, caller>>

\* The channel is closed: the tunnelState is free again, if it is still ours.
ForwardEnd(c) ==
  LET s == table[cl[c].id]  mine == s # Nil /\ st[s].client = c IN
  /\ fwd[c].at = "read" /\ cl[c].q = <<>> /\ cl[c].phase = "closed"
  /\ st' = IF mine THEN [st EXCEPT ![s] = NewState] ELSE st
  /\ fwd' = [fwd EXCEPT ![c].at = "close", ![c].bridge = IF mine THEN st[s].bridge ELSE Nil]
  /\ UNCHANGED <<table, states, cl, clients, listening, shown, caller>>

ForwardClose(c) ==
  /\ fwd[c].at = "close"
  /\ listening' = listening \ {fwd[c].bridge}
  /\ fwd' = [fwd EXCEPT ![c].at = "done", ![c].bridge = Nil]
  /\ UNCHANGED <<table, st, states, cl, clients, shown, caller>>
-----------------------------------------------------------------------------
CallStep(p) ==
  \/ LoopNext(p) \/ AddTunnel(p) \/ SwapTunnels(p)
  \/ StartRefused(p) \/ StartTunnel(p) \/ ConnectClient(p)
  \/ StopRefused(p) \/ StopTunnel(p) \/ StopBridge(p) \/ StopClient(p)

HookStep(c) == HookListen(c) \/ HookSet(c) \/ HookEmit(c)
ClientStep(c) == LoginEnds(c) \/ TunnelMade(c) \/ HookStep(c) \/ TunnelEnds(c)
ForwardStep(c) == ForwardRead(c) \/ ForwardEmit(c) \/ ForwardEnd(c) \/ ForwardClose(c)

Next ==
  \/ \E p \in Callers : Call(p) \/ CallStep(p)
  \/ \E c \in Client : ClientStep(c) \/ ForwardStep(c)

\* Goroutines run; a client that has been stopped ends (TunnelClient,
\* DisconnectTakesEffect), others live as long as user and gateway like.
Fairness ==
  /\ \A p \in Callers : WF_vars(CallStep(p))
  /\ \A c \in Client :
       /\ WF_vars(ForwardStep(c)) /\ WF_vars(HookStep(c))
       /\ WF_vars(cl[c].stop /\ (LoginEnds(c) \/ TunnelEnds(c)))

Spec == Init /\ [][Next]_vars
FairSpec == Spec /\ Fairness
-----------------------------------------------------------------------------
(* Safety                                                                  *)

\* A tunnelState never has two clients that are not finished: Start refuses,
\* and only the end of its own client makes the state free (forwardEvents).
OneClientPerState ==
  \A c, d \in Client : Live(c) /\ Live(d) /\ cl[c].st = cl[d].st => c = d

\* A PAC rule leads to a port on which the bridge of that tunnel still listens:
\* rule and bridge are dropped before the bridge is closed (Stop, forwardEvents).
RuleHasListener == \A s \in State : st[s].pacRule => st[s].bridge \in listening

\* A bridge belongs to the client of its tunnelState, so the end of that client
\* finds and closes it.
BridgeOfOwnClient ==
  \A s \in State : st[s].bridge # Nil => st[s].client = st[s].bridge /\ cl[st[s].bridge].st = s

\* Every client has finished and its forwardEvents has read its channel to the end.
AllFinished == \A c \in Client : cl[c].phase = "unborn" \/ fwd[c].at \in {"close", "done"}

\* When all clients are finished a tunnel is shown as connected only if the last
\* word of one of its clients was dropped, by the client's channel or by m.events
\* (both emits): the hook, forwardEvents and StartAll report in no other bad order.
ShownSettles ==
  AllFinished =>
    \A i \in Ids : shown[i] = "connected" =>
      \E c \in Client : cl[c].id = i /\ (cl[c].lost \/ fwd[c].unheard)

\* Status() outlives dropped words: when all clients are finished it says that a
\* tunnel is connected only if the last word that was dropped came from a client
\* of a tunnelState replaced since, whose end resets nothing (forwardEvents).
StatusSettles ==
  AllFinished =>
    \A i \in Ids : table[i] # Nil /\ st[table[i]].connected =>
      \E c \in Client : cl[c].id = i /\ cl[c].lost /\ cl[c].st # table[i]

\* A finished client whose tunnelState is still registered leaves no SOCKS5
\* listener: either forwardEvents has closed the bridge, or a Stop that took it
\* before is about to.
NoListenerLeft ==
  \A c \in Client :
    fwd[c].at = "done" /\ c \in listening /\ table[cl[c].id] = cl[c].st
      => \E p \in Callers : At(p, "closeBridge") /\ caller[p].bridge = c

(* What the comments of the code promise and the code does not keep        *)

\* A tunnel has at most one unfinished client: a second Connect is refused.
OneClientPerTunnel ==
  \A c, d \in Client : Live(c) /\ Live(d) /\ cl[c].id = cl[d].id => c = d

\* A tunnel that has ended needs no SOCKS5 bridge: its port is free again.
BridgeEndsWithTunnel ==
  \A c \in Client : fwd[c].at = "done" /\ c \in listening
    => \E p \in Callers : At(p, "closeBridge") /\ caller[p].bridge = c

(* Liveness                                                                *)

\* A client that has been stopped ends, and its tunnel can be started again.
StopFreesTunnel ==
  \A c \in Client : cl[c].stop
    ~> fwd[c].at = "done" /\ \A i \in Ids : table[i] # Nil => st[table[i]].client # c
=============================================================================
