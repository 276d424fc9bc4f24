--------------------------- MODULE Manager_proofs ---------------------------
(* Theorems about Manager: for all tunnels, callers, operations and bounds, *)
(* and both modes.                                                          *)
EXTENDS Manager, FiniteSetTheorems, FunctionTheorems, TLAPS

\* The phases of a client whose hook has stored its bridge.
Past == {"hookEmit", "up", "closed"}

\* TypeOK but for the length of the queues.
Types ==
  /\ table \in [Ids -> State \cup {Nil}]
  /\ st \in [State -> StateRec]
  /\ states \in 0..MaxStates
  /\ cl \in [Client -> ClientRec]
  /\ clients \in 0..MaxClients
  /\ listening \subseteq Client
  /\ fwd \in [Client -> FwdRec]
  /\ shown \in [Ids -> Event]
  /\ caller \in [Callers -> CallerRec]

\* A client that is up has reported one status, a closed one two at most.
Queues ==
  \A c \in Client :
    /\ cl[c].phase \notin {"up", "closed"} => Len(cl[c].q) = 0
    /\ cl[c].phase = "up" => Len(cl[c].q) <= 1
    /\ Len(cl[c].q) <= 2

\* A client that is not finished is the client of the tunnelState it captured.
Owned ==
  \A c \in Client :
    /\ c > clients => cl[c].phase = "unborn"
    /\ cl[c].phase # "unborn" => cl[c].st \in State
    /\ Live(c) => st[cl[c].st].client = c

\* Every Start that is about to connect has a new client to itself.
Joining ==
  \A p \in Callers : At(p, "connect") =>
    /\ caller[p].client \in Client
    /\ cl[caller[p].client].phase = "new"
    /\ \A q \in Callers : At(q, "connect") /\ caller[q].client = caller[p].client => q = p

\* A bridge in a tunnelState is that of its own client and listens; one that
\* somebody is about to close is in no tunnelState any more.
Bridges ==
  /\ \A s \in State : st[s].bridge # Nil =>
       /\ cl[st[s].bridge].st = s /\ st[s].client = st[s].bridge
       /\ st[s].bridge \in listening /\ cl[st[s].bridge].phase \in Past
  /\ \A s \in State : st[s].pacRule => st[s].bridge # Nil
  /\ \A p \in Callers : caller[p].bridge # Nil =>
       /\ cl[caller[p].bridge].phase \in Past
       /\ st[cl[caller[p].bridge].st].bridge # caller[p].bridge
  /\ \A d \in Client : fwd[d].bridge # Nil =>
       /\ cl[fwd[d].bridge].phase \in Past
       /\ st[cl[fwd[d].bridge].st].bridge # fwd[d].bridge
  /\ \A c \in Client : cl[c].phase = "hookSet" => c \in listening

Inv == Types /\ Queues /\ Owned /\ Joining /\ Bridges

-----------------------------------------------------------------------------
\* Every identifier has a number of its own between 1 and their number.
LEMMA RankType ==
  /\ Cardinality(Ids) \in Nat /\ Rank \in [Ids -> 1..Cardinality(Ids)]
  /\ \A a, b \in Ids : Rank[a] = Rank[b] => a = b
<1>1. Cardinality(Ids) \in Nat /\ ExistsBijection(1..Cardinality(Ids), Ids)
  BY IdsAssumption, FS_CardinalityType
<1>2. PICK g : g \in Bijection(1..Cardinality(Ids), Ids)
  BY <1>1 DEF ExistsBijection
<1>3. Inverse(g, 1..Cardinality(Ids), Ids) \in Bijection(Ids, 1..Cardinality(Ids))
  BY <1>2, Fun_BijInverse
<1>4. \E f \in [Ids -> 1..Cardinality(Ids)] : \A a, b \in Ids : f[a] = f[b] => a = b
  BY <1>3 DEF Bijection, Injection, IsInjective
<1> QED
  BY <1>1, <1>4 DEF Rank

\* A caller that has come back is a caller.
LEMMA ReturnType ==
  ASSUME NEW r \in CallerRec
  PROVE  Return(r) \in CallerRec /\ Return(r).bridge \in {r.bridge, Nil}
         /\ Return(r).at \in {"next", "idle"}
<1>1. AnyId \in Ids
  BY IdsAssumption, FS_EmptySet DEF AnyId
<1> QED
  BY <1>1 DEF Return, Idle, CallerRec, Nil

\* A manager starts with its tunnels, or with none.
LEMMA InitInv == Init => Inv
<1> SUFFICES ASSUME Init PROVE Inv
  OBVIOUS
<1>1. AnyId \in Ids
  BY IdsAssumption DEF AnyId
<1>2. Idle \in CallerRec
  BY <1>1 DEF Idle, CallerRec
<1>3. Types
  <2>1. table \in [Ids -> State \cup {Nil}] /\ states \in 0..MaxStates
    BY RankType, BoundAssumption DEF Init, State, Nil
  <2>2. st \in [State -> StateRec]
    BY DEF Init, NewState, StateRec
  <2>3. cl \in [Client -> ClientRec]
    BY <1>1 DEF Init, ClientRec
  <2>4. fwd \in [Client -> FwdRec] /\ shown \in [Ids -> Event]
    BY DEF Init, FwdRec, Event
  <2>5. clients \in 0..MaxClients /\ listening \subseteq Client
    BY BoundAssumption DEF Init
  <2>6. caller \in [Callers -> CallerRec]
    BY <1>2 DEF Init
  <2> QED
    BY <2>1, <2>2, <2>3, <2>4, <2>5, <2>6 DEF Types
<1>4. Queues
  BY DEF Init, Queues
<1>5. Owned /\ Joining
  BY DEF Init, Owned, Live, Joining, At, Idle
<1>6. Bridges
  BY DEF Init, Bridges, NewState, Idle
<1> QED
  BY <1>3, <1>4, <1>5, <1>6 DEF Inv
-----------------------------------------------------------------------------
\* What a call changes in its caller leaves a caller.
LEMMA CallerType ==
  ASSUME Types, NEW p \in Callers, NEW r \in CallerRec, caller' = [caller EXCEPT ![p] = r]
  PROVE  caller' \in [Callers -> CallerRec]
  BY DEF Types

\* What a client reports leaves a client.
LEMMA TellType ==
  ASSUME Types, NEW c \in Client, NEW e \in Event, NEW ph \in {"up", "closed"}, Tell(c, e, ph)
  PROVE  cl' \in [Client -> ClientRec]
<1> DEFINE r == [cl[c] EXCEPT !.q = Append(cl[c].q, e), !.phase = ph]
           k == [cl[c] EXCEPT !.lost = (ph = "closed"), !.phase = ph]
<1>1. cl[c] \in ClientRec /\ cl[c].q \in Seq(Event)
  BY DEF Types, ClientRec
<1>2. Append(cl[c].q, e) \in Seq(Event)
  BY <1>1
<1>3. r \in ClientRec /\ k \in ClientRec
  BY <1>1, <1>2 DEF ClientRec
<1>4. cl' = [cl EXCEPT ![c] = r] \/ cl' = [cl EXCEPT ![c] = k]
  BY DEF Tell, Types
<1> HIDE DEF r, k
<1> QED
  BY <1>3, <1>4 DEF Types

\* So does a step from one phase to another.
LEMMA PhaseType ==
  ASSUME Types, NEW c \in Client, NEW ph \in {"login", "hook", "hookSet", "hookEmit"},
         cl' = [cl EXCEPT ![c].phase = ph]
  PROVE  cl' \in [Client -> ClientRec]
<1> DEFINE r == [cl[c] EXCEPT !.phase = ph]
<1>1. r \in ClientRec
  BY DEF Types, ClientRec
<1> QED
  BY <1>1 DEF Types

\* Every step keeps the types.
LEMMA TypesStep == Types /\ [Next]_vars => Types'
<1> SUFFICES ASSUME Types, [Next]_vars PROVE Types'
  OBVIOUS
<1>r. \A p \in Callers : caller[p] \in CallerRec /\ Return(caller[p]) \in CallerRec
  BY ReturnType DEF Types
<1>i. Idle \in CallerRec
  BY IdsAssumption, FS_EmptySet DEF Idle, AnyId, CallerRec
<1>1. ASSUME NEW p \in Callers, Call(p) PROVE Types'
  <2>1. CASE \E o \in Ops \cap Loops :
          caller' = [caller EXCEPT ![p].at = "next", ![p].op = o,
                                   ![p].todo = {i \in Ids : table[i] # Nil}]
    <3>1. PICK o \in Ops \cap Loops :
          caller' = [caller EXCEPT ![p].at = "next", ![p].op = o,
                                   ![p].todo = {i \in Ids : table[i] # Nil}]
      BY <2>1
    <3> DEFINE r == [caller[p] EXCEPT !.at = "next", !.op = o, !.todo = {i \in Ids : table[i] # Nil}]
    <3>2. r \in CallerRec
      BY <1>r DEF CallerRec
    <3>3. caller' = [caller EXCEPT ![p] = r]
      BY <3>1 DEF Types
    <3> QED BY <3>2, <3>3, <1>1, CallerType DEF Types, Call
  <2>2. CASE \E o \in Ops \ Loops, i \in Ids :
          caller' = [caller EXCEPT ![p].op = o, ![p].id = i,
                                   ![p].at = IF o = "connect" THEN "add" ELSE o]
    <3>1. PICK o \in Ops \ Loops, i \in Ids :
          caller' = [caller EXCEPT ![p].op = o, ![p].id = i,
                                   ![p].at = IF o = "connect" THEN "add" ELSE o]
      BY <2>2
    <3> DEFINE r == [caller[p] EXCEPT !.op = o, !.id = i, !.at = IF o = "connect" THEN "add" ELSE o]
    <3>2. o \in {"start", "stop", "connect"}
      BY OpsAssumption DEF Loops
    <3>3. r \in CallerRec
      BY <1>r, <3>2 DEF CallerRec
    <3>4. caller' = [caller EXCEPT ![p] = r]
      BY <3>1 DEF Types
    <3> QED BY <3>3, <3>4, <1>1, CallerType DEF Types, Call
  <2> QED BY <2>1, <2>2, <1>1 DEF Call
<1>2. ASSUME NEW p \in Callers, LoopNext(p) PROVE Types'
  <2>1. ASSUME NEW i \in caller[p].todo,
          caller' = [caller EXCEPT ![p].at = IF caller[p].op = "startall" THEN "start" ELSE "stop",
                                   ![p].id = i, ![p].todo = @ \ {i}]
        PROVE Types'
    <3> DEFINE r == [caller[p] EXCEPT !.at = IF caller[p].op = "startall" THEN "start" ELSE "stop",
                                      !.id = i, !.todo = caller[p].todo \ {i}]
    <3>1. r \in CallerRec
      BY <1>r, <2>1 DEF CallerRec
    <3>2. caller' = [caller EXCEPT ![p] = r]
      BY <2>1 DEF Types
    <3> QED BY <3>1, <3>2, <1>2, CallerType DEF Types, LoopNext
  <2>2. CASE caller' = [caller EXCEPT ![p] = IF @.op = "replace" THEN [@ EXCEPT !.at = "swap"]
                                             ELSE Idle]
    <3> DEFINE r == IF caller[p].op = "replace" THEN [caller[p] EXCEPT !.at = "swap"] ELSE Idle
    <3>1. r \in CallerRec
      BY <1>r, <1>i DEF CallerRec
    <3> QED BY <2>2, <3>1, <1>2, CallerType DEF Types, LoopNext
  <2> QED BY <2>1, <2>2, <1>2 DEF LoopNext
<1>3. ASSUME NEW p \in Callers, AddTunnel(p) PROVE Types'
  <2> DEFINE r == [caller[p] EXCEPT !.at = "start"]
  <2>1. r \in CallerRec /\ caller' = [caller EXCEPT ![p] = r]
    BY <1>r, <1>3 DEF CallerRec, AddTunnel, Goto, Types
  <2>2. caller[p].id \in Ids
    BY <1>r DEF CallerRec
  <2>3. states' \in 0..MaxStates /\ table' \in [Ids -> State \cup {Nil}]
    BY <1>3, <2>2, BoundAssumption DEF AddTunnel, Types, State, Nil
  <2> QED BY <2>1, <2>3, <1>3, CallerType DEF Types, AddTunnel
<1>4. ASSUME NEW p \in Callers, SwapTunnels(p) PROVE Types'
  <2>1. caller' \in [Callers -> CallerRec]
    BY <1>i, <1>4, CallerType DEF SwapTunnels
  <2>2. \A i \in Ids : states + Rank[i] \in State
    BY <1>4, RankType, BoundAssumption DEF SwapTunnels, Types, State
  <2>3. states' \in 0..MaxStates
    BY <1>4, RankType, BoundAssumption DEF SwapTunnels, Types
  <2>4. table' \in [Ids -> State \cup {Nil}]
    BY <1>4, <2>2 DEF SwapTunnels
  <2> QED BY <2>1, <2>3, <2>4, <1>4 DEF Types, SwapTunnels
<1>5. ASSUME NEW p \in Callers, StartRefused(p) PROVE Types'
  <2>1. shown' \in [Ids -> Event]
    BY <1>5, <1>r DEF StartRefused, Report, Types, Event, CallerRec
  <2> QED BY <1>5, <1>r, <2>1, CallerType DEF Types, StartRefused
<1>6. ASSUME NEW p \in Callers, StartTunnel(p) PROVE Types'
  <2> DEFINE i == caller[p].id
             s == table[i]
             c == clients + 1
             r == [caller[p] EXCEPT !.at = "connect", !.client = c]
             k == [cl[c] EXCEPT !.phase = "new", !.id = i, !.st = s]
             t == [st[s] EXCEPT !.client = c]
  <2>1. c \in Client /\ i \in Ids /\ s \in State
    BY <1>r, <1>6, BoundAssumption DEF CallerRec, StartTunnel, Types, Client
  <2>2. r \in CallerRec /\ k \in ClientRec /\ t \in StateRec
    <3>1. cl[c] \in ClientRec /\ st[s] \in StateRec
      BY <2>1 DEF Types
    <3>2. r \in CallerRec
      BY <1>r, <2>1 DEF CallerRec
    <3>3. k \in ClientRec
      BY <2>1, <3>1 DEF ClientRec
    <3>4. t \in StateRec
      BY <2>1, <3>1 DEF StateRec
    <3> QED BY <3>2, <3>3, <3>4
  <2>3. /\ caller' = [caller EXCEPT ![p] = r] /\ cl' = [cl EXCEPT ![c] = k]
        /\ st' = [st EXCEPT ![s] = t]
    BY <1>6 DEF StartTunnel, Types
  <2>4. cl' \in [Client -> ClientRec] /\ st' \in [State -> StateRec]
    BY <2>1, <2>2, <2>3 DEF Types
  <2>5. caller' \in [Callers -> CallerRec]
    BY <2>2, <2>3, CallerType
  <2>6. clients' \in 0..MaxClients
    BY <2>1, <1>6, BoundAssumption DEF StartTunnel, Client, Types
  <2> QED BY <2>4, <2>5, <2>6, <1>6 DEF Types, StartTunnel
<1>7. ASSUME NEW p \in Callers, ConnectClient(p) PROVE Types'
  <2>1. caller' \in [Callers -> CallerRec]
    BY <1>r, <1>7, CallerType DEF ConnectClient
  <2>2. cl' \in [Client -> ClientRec]
    <3>1. CASE caller[p].client \in Client
      BY <1>7, <3>1, PhaseType DEF ConnectClient
    <3>2. CASE caller[p].client \notin Client
      BY <1>7, <3>2 DEF ConnectClient, Types
    <3> QED BY <3>1, <3>2
  <2>3. fwd' \in [Client -> FwdRec]
    BY <1>7 DEF ConnectClient, Types, FwdRec
  <2> QED BY <2>1, <2>2, <2>3, <1>7 DEF Types, ConnectClient
<1>8. ASSUME NEW p \in Callers, StopRefused(p) PROVE Types'
  BY <1>8, <1>r, CallerType DEF Types, StopRefused
<1>9. ASSUME NEW p \in Callers, StopTunnel(p) PROVE Types'
  <2> DEFINE s == table[caller[p].id]
             r == [caller[p] EXCEPT !.at = "closeBridge", !.client = st[s].client,
                                    !.bridge = st[s].bridge]
             t == [st[s] EXCEPT !.bridge = Nil, !.pacRule = FALSE]
  <2>1. s \in State
    BY <1>r, <1>9 DEF CallerRec, StopTunnel, Types
  <2>2. r \in CallerRec /\ t \in StateRec
    <3>1. st[s] \in StateRec
      BY <2>1 DEF Types
    <3>2. r \in CallerRec
      BY <1>r, <3>1 DEF CallerRec, StateRec
    <3>3. t \in StateRec
      BY <3>1 DEF StateRec
    <3> QED BY <3>2, <3>3
  <2>3. caller' = [caller EXCEPT ![p] = r] /\ st' = [st EXCEPT ![s] = t]
    BY <1>9 DEF StopTunnel, Types
  <2>4. caller' \in [Callers -> CallerRec]
    BY <2>2, <2>3, CallerType
  <2>5. st' \in [State -> StateRec]
    BY <2>1, <2>2, <2>3 DEF Types
  <2> QED BY <2>4, <2>5, <1>9 DEF Types, StopTunnel
<1>10. ASSUME NEW p \in Callers, StopBridge(p) PROVE Types'
  <2> DEFINE r == IF caller[p].client = Nil THEN Return(caller[p])
                  ELSE [caller[p] EXCEPT !.at = "disconnect"]
  <2>1. r \in CallerRec
    BY <1>r DEF CallerRec
  <2>2. caller' = [caller EXCEPT ![p] = r]
    BY <1>10 DEF StopBridge, Types
  <2> QED BY <1>10, <2>1, <2>2, CallerType DEF Types, StopBridge
<1>11. ASSUME NEW p \in Callers, StopClient(p) PROVE Types'
  <2>1. cl' \in [Client -> ClientRec]
    <3> DEFINE d == caller[p].client
               k == [cl[d] EXCEPT !.stop = TRUE]
    <3>1. d \in Client => k \in ClientRec
      BY DEF Types, ClientRec
    <3>2. cl' = cl \/ cl' = [cl EXCEPT ![d] = k]
      BY <1>11 DEF StopClient, Types
    <3> QED BY <3>1, <3>2 DEF Types
  <2> QED BY <1>11, <1>r, <2>1, CallerType DEF Types, StopClient
<1>12. ASSUME NEW c \in Client, LoginEnds(c) PROVE Types'
  BY <1>12, TellType DEF Types, LoginEnds, Event
<1>13. ASSUME NEW c \in Client, TunnelMade(c) PROVE Types'
  <2>1. CASE Mode = "socks5"
    <3>1. cl' \in [Client -> ClientRec]
      BY <1>13, <2>1, PhaseType DEF TunnelMade
    <3> QED BY <1>13, <3>1 DEF Types, TunnelMade
  <2>2. CASE Mode # "socks5"
    BY <1>13, <2>2, TellType DEF Types, TunnelMade, Event
  <2> QED BY <2>1, <2>2
<1>14. ASSUME NEW c \in Client, HookListen(c) PROVE Types'
  <2>1. CASE \E d \in listening : cl[d].id = cl[c].id
    BY <1>14, <2>1, TellType DEF Types, HookListen, Event
  <2>2. CASE ~ \E d \in listening : cl[d].id = cl[c].id
    <3>1. cl' \in [Client -> ClientRec]
      BY <1>14, <2>2, PhaseType DEF HookListen
    <3> QED BY <1>14, <2>2, <3>1 DEF Types, HookListen
  <2> QED BY <2>1, <2>2
<1>15. ASSUME NEW c \in Client, HookSet(c) PROVE Types'
  <2>1. cl' \in [Client -> ClientRec]
    BY <1>15, PhaseType DEF HookSet
  <2>2. st' \in [State -> StateRec]
    BY <1>15 DEF Types, HookSet, StateRec
  <2> QED BY <1>15, <2>1, <2>2 DEF Types, HookSet
<1>16. ASSUME NEW c \in Client, HookEmit(c) PROVE Types'
  <2>1. shown' \in [Ids -> Event]
    BY <1>16 DEF Types, HookEmit, Report, Event
  <2> QED BY <1>16, <2>1, TellType DEF Types, HookEmit, Event
<1>17. ASSUME NEW c \in Client, TunnelEnds(c) PROVE Types'
  BY <1>17, TellType DEF Types, TunnelEnds, Event
<1>18. ASSUME NEW c \in Client, ForwardRead(c) PROVE Types'
  <2>1. cl[c] \in ClientRec /\ cl[c].q \in Seq(Event) /\ cl[c].q # <<>>
    BY <1>18 DEF Types, ForwardRead, ClientRec
  <2>2. Head(cl[c].q) \in Event /\ Tail(cl[c].q) \in Seq(Event)
    BY <2>1
  <2> DEFINE k == [cl[c] EXCEPT !.q = Tail(cl[c].q)]
  <2>3. k \in ClientRec
    BY <2>1, <2>2 DEF ClientRec
  <2>4. cl' = [cl EXCEPT ![c] = k]
    BY <1>18 DEF ForwardRead, Types
  <2>5. cl' \in [Client -> ClientRec]
    BY <2>3, <2>4 DEF Types
  <2>6. fwd' \in [Client -> FwdRec]
    BY <1>18, <2>2 DEF ForwardRead, Types, FwdRec
  <2>7. st' \in [State -> StateRec]
    <3> DEFINE s == table[cl[c].id]
               t == [st[s] EXCEPT !.connected = (Head(cl[c].q) = "connected")]
    <3>1. s \in State \cup {Nil}
      BY <2>1 DEF Types, ClientRec
    <3>2. s \in State => t \in StateRec
      BY DEF Types, StateRec
    <3>3. st' = st \/ (s \in State /\ st' = [st EXCEPT ![s] = t])
      BY <1>18, <3>1 DEF ForwardRead, Types
    <3> QED BY <3>2, <3>3 DEF Types
  <2> QED BY <1>18, <2>5, <2>6, <2>7 DEF Types, ForwardRead
<1>19. ASSUME NEW c \in Client, ForwardEmit(c) PROVE Types'
  <2>1. fwd' \in [Client -> FwdRec] /\ shown' \in [Ids -> Event]
    BY <1>19 DEF ForwardEmit, Types, FwdRec, Event
  <2> QED BY <1>19, <2>1 DEF Types, ForwardEmit
<1>20. ASSUME NEW c \in Client, ForwardEnd(c) PROVE Types'
  <2> DEFINE s == table[cl[c].id]
             mine == s # Nil /\ st[s].client = c
             f == [fwd[c] EXCEPT !.at = "close", !.bridge = IF mine THEN st[s].bridge ELSE Nil]
  <2>1. s \in State \cup {Nil} /\ NewState \in StateRec
    BY DEF Types, ClientRec, NewState, StateRec
  <2>2. st' \in [State -> StateRec]
    BY <1>20, <2>1 DEF ForwardEnd, Types
  <2>3. (IF mine THEN st[s].bridge ELSE Nil) \in Client \cup {Nil}
    BY <2>1 DEF Types, StateRec
  <2>4. f \in FwdRec
    BY <2>3 DEF Types, FwdRec
  <2>5. fwd' = [fwd EXCEPT ![c] = f]
    BY <1>20 DEF ForwardEnd, Types
  <2>6. fwd' \in [Client -> FwdRec]
    BY <2>4, <2>5 DEF Types
  <2> QED BY <1>20, <2>2, <2>6 DEF Types, ForwardEnd
<1>21. ASSUME NEW c \in Client, ForwardClose(c) PROVE Types'
  <2>1. fwd' \in [Client -> FwdRec]
    BY <1>21 DEF ForwardClose, Types, FwdRec
  <2> QED BY <1>21, <2>1 DEF Types, ForwardClose
<1>22. CASE UNCHANGED vars
  BY <1>22 DEF vars, Types
<1> QED
  BY <1>1, <1>2, <1>3, <1>4, <1>5, <1>6, <1>7, <1>8, <1>9, <1>10, <1>11, <1>12,
     <1>13, <1>14, <1>15, <1>16, <1>17, <1>18, <1>19, <1>20, <1>21, <1>22
  DEF Next, CallStep, ClientStep, ForwardStep, HookStep

-----------------------------------------------------------------------------
(* What the steps do to the fields of the records.                         *)

\* A caller moves, not to "connect", and takes no bridge.
Moves(p) ==
  /\ \A q \in Callers \ {p} : caller'[q] = caller[q]
  /\ caller'[p].at # "connect"
  /\ caller'[p].bridge \in {caller[p].bridge, Nil}

Phases == {"unborn", "new", "login", "hook", "hookSet", "hookEmit", "up", "closed"}

\* A client goes to another phase.
Enters(c, ph) ==
  /\ \A d \in Client : d # c => cl'[d] = cl[d]
  /\ cl'[c].phase = ph /\ cl'[c].st = cl[c].st /\ cl'[c].id = cl[c].id

LEMMA CallerMoves ==
  ASSUME Types, NEW p \in Callers,
         \/ Call(p) \/ LoopNext(p) \/ AddTunnel(p) \/ SwapTunnels(p) \/ StartRefused(p)
         \/ ConnectClient(p) \/ StopRefused(p) \/ StopBridge(p) \/ StopClient(p)
  PROVE  Moves(p)
<1>c. caller[p] \in CallerRec /\ Idle.at # "connect" /\ Idle.bridge = Nil
  BY DEF Types, Idle
<1>r. Return(caller[p]).at # "connect" /\ Return(caller[p]).bridge \in {caller[p].bridge, Nil}
  BY <1>c, ReturnType
<1>1. CASE Call(p)
  <2>1. ASSUME NEW o \in Ops \cap Loops,
               caller' = [caller EXCEPT ![p].at = "next", ![p].op = o,
                                        ![p].todo = {i \in Ids : table[i] # Nil}]
        PROVE  Moves(p)
    BY <2>1, <1>c DEF Moves, Types, CallerRec
  <2>2. ASSUME NEW o \in Ops \ Loops, NEW i \in Ids,
               caller' = [caller EXCEPT ![p].op = o, ![p].id = i,
                                        ![p].at = IF o = "connect" THEN "add" ELSE o]
        PROVE  Moves(p)
    BY <2>2, <1>c DEF Moves, Types, CallerRec
  <2> QED BY <1>1, <2>1, <2>2 DEF Call
<1>2. CASE LoopNext(p)
  <2>1. ASSUME NEW i \in caller[p].todo,
               caller' = [caller EXCEPT
                 ![p].at = IF caller[p].op = "startall" THEN "start" ELSE "stop",
                 ![p].id = i, ![p].todo = @ \ {i}]
        PROVE  Moves(p)
    BY <2>1, <1>c DEF Moves, Types, CallerRec
  <2>2. ASSUME caller' = [caller EXCEPT ![p] = IF @.op = "replace"
                            THEN [@ EXCEPT !.at = "swap"] ELSE Idle]
        PROVE  Moves(p)
    BY <2>2, <1>c DEF Moves, Types, CallerRec
  <2> QED BY <1>2, <2>1, <2>2 DEF LoopNext
<1>3. CASE AddTunnel(p)
  BY <1>3, <1>c DEF AddTunnel, Goto, Moves, Types, CallerRec
<1>4. CASE SwapTunnels(p)
  BY <1>4, <1>c DEF SwapTunnels, Moves, Types
<1>5. CASE StartRefused(p) \/ ConnectClient(p) \/ StopRefused(p) \/ StopClient(p)
  BY <1>5, <1>r DEF StartRefused, ConnectClient, StopRefused, StopClient, Moves, Types
<1>6. CASE StopBridge(p)
  BY <1>6, <1>c, <1>r DEF StopBridge, Moves, Types, CallerRec
<1> QED
  BY <1>1, <1>2, <1>3, <1>4, <1>5, <1>6

LEMMA PhaseEnters ==
  ASSUME Types, NEW c \in Client, NEW ph, cl' = [cl EXCEPT ![c].phase = ph]
  PROVE  Enters(c, ph) /\ cl'[c].q = cl[c].q /\ cl'[c].lost = cl[c].lost
  BY DEF Types, ClientRec, Enters

LEMMA TellEnters ==
  ASSUME Types, NEW c \in Client, NEW e, NEW ph, Tell(c, e, ph)
  PROVE  /\ Enters(c, ph)
         /\ cl'[c].q = Append(cl[c].q, e) \/ (cl'[c].q = cl[c].q /\ cl'[c].lost = (ph = "closed"))
         /\ Len(cl'[c].q) \in {Len(cl[c].q), Len(cl[c].q) + 1}
<1>1. cl[c] \in ClientRec /\ cl[c].q \in Seq(Event)
  BY DEF Types, ClientRec
<1>2. Enters(c, ph)
  BY <1>1 DEF Tell, Types, ClientRec, Enters
<1>3. cl'[c].q = Append(cl[c].q, e) \/ (cl'[c].q = cl[c].q /\ cl'[c].lost = (ph = "closed"))
  BY <1>1 DEF Tell, Types, ClientRec
<1>4. Len(Append(cl[c].q, e)) = Len(cl[c].q) + 1
  BY <1>1
<1> QED
  BY <1>2, <1>3, <1>4

\* Disconnect only leaves a mark.
LEMMA StopMarks ==
  ASSUME Types, NEW p \in Callers, StopClient(p)
  PROVE  \A d \in Client : /\ cl'[d].phase = cl[d].phase /\ cl'[d].st = cl[d].st
                           /\ cl'[d].id = cl[d].id /\ cl'[d].q = cl[d].q
                           /\ cl'[d].lost = cl[d].lost
<1>1. cl' = cl \/ cl' = [cl EXCEPT ![caller[p].client].stop = TRUE]
  BY DEF StopClient
<1>2. CASE caller[p].client \in Client
  <2> DEFINE c == caller[p].client
             k == [cl[c] EXCEPT !.stop = TRUE]
  <2>1. k.phase = cl[c].phase /\ k.st = cl[c].st /\ k.id = cl[c].id /\ k.q = cl[c].q
        /\ k.lost = cl[c].lost
    BY <1>2 DEF Types, ClientRec
  <2>2. cl' = cl \/ (cl'[c] = k /\ \A d \in Client : d # c => cl'[d] = cl[d])
    BY <1>1, <1>2 DEF Types
  <2> HIDE DEF c, k
  <2> QED BY <2>1, <2>2
<1>3. CASE caller[p].client \notin Client
  BY <1>1, <1>3 DEF Types
<1> QED
  BY <1>2, <1>3

\* Start makes a client of the tunnelState that had none.
LEMMA StartMakes ==
  ASSUME Types, NEW p \in Callers, StartTunnel(p)
  PROVE  /\ \A q \in Callers \ {p} : caller'[q] = caller[q]
         /\ caller'[p].at = "connect" /\ caller'[p].bridge = caller[p].bridge
         /\ \E c \in Client, s \in State :
              /\ c = clients + 1 /\ clients' = c /\ st[s].client = Nil
              /\ caller'[p].client = c /\ s = table[caller[p].id]
              /\ \A d \in Client : d # c => cl'[d] = cl[d]
              /\ cl'[c].phase = "new" /\ cl'[c].st = s /\ cl'[c].q = cl[c].q
              /\ cl'[c].lost = cl[c].lost
              /\ \A t \in State : t # s => st'[t] = st[t]
              /\ st'[s].client = c /\ st'[s].bridge = st[s].bridge
              /\ st'[s].pacRule = st[s].pacRule /\ st'[s].connected = st[s].connected
<1> DEFINE s == table[caller[p].id]  c == clients + 1
<1>1. caller[p] \in CallerRec /\ caller[p].id \in Ids
  BY DEF Types, CallerRec
<1>2. c \in Client /\ s \in State
  BY <1>1, BoundAssumption DEF Types, StartTunnel, Client
<1>3. cl[c] \in ClientRec /\ st[s] \in StateRec
  BY <1>2 DEF Types
<1>4. /\ \A q \in Callers \ {p} : caller'[q] = caller[q]
      /\ caller'[p].at = "connect" /\ caller'[p].bridge = caller[p].bridge
      /\ caller'[p].client = c
  BY <1>1 DEF StartTunnel, Types, CallerRec
<1>5. /\ \A d \in Client : d # c => cl'[d] = cl[d]
      /\ cl'[c].phase = "new" /\ cl'[c].st = s /\ cl'[c].q = cl[c].q
      /\ cl'[c].lost = cl[c].lost
  BY <1>2, <1>3 DEF StartTunnel, Types, ClientRec
<1>6. /\ \A t \in State : t # s => st'[t] = st[t]
      /\ st'[s].client = c /\ st'[s].bridge = st[s].bridge /\ st'[s].pacRule = st[s].pacRule
      /\ st'[s].connected = st[s].connected
  BY <1>2, <1>3 DEF StartTunnel, Types, StateRec
<1>7. st[s].client = Nil /\ clients' = c
  BY DEF StartTunnel
<1>8. c = clients + 1 /\ s = table[caller[p].id]
  OBVIOUS
<1> HIDE DEF s, c
<1> QED
  BY <1>2, <1>4, <1>5, <1>6, <1>7, <1>8
-----------------------------------------------------------------------------
\* Every step keeps the queues short.
LEMMA QueuesStep == Types /\ Queues /\ Owned /\ Joining /\ [Next]_vars => Queues'
<1> SUFFICES ASSUME Types, Queues, Owned, Joining, [Next]_vars PROVE Queues'
  OBVIOUS
<1>q. \A c \in Client : Len(cl[c].q) \in Nat
  BY DEF Types, ClientRec
<1>1. ASSUME cl' = cl PROVE Queues'
  BY <1>1 DEF Queues
<1>2. ASSUME NEW p \in Callers, CallStep(p) PROVE Queues'
  <2>1. CASE StartTunnel(p)
    <3>1. PICK c \in Client :
            /\ c = clients + 1
            /\ \A d \in Client : d # c => cl'[d] = cl[d]
            /\ cl'[c].phase = "new" /\ cl'[c].q = cl[c].q
      BY <2>1, StartMakes
    <3>2. cl[c].phase = "unborn"
      BY <3>1 DEF Owned, Types
    <3> QED BY <3>1, <3>2, <1>q DEF Queues
  <2>2. CASE ConnectClient(p)
    <3>1. caller[p].client \in Client /\ cl[caller[p].client].phase = "new"
      BY <2>2 DEF ConnectClient, Joining
    <3> QED BY <2>2, <3>1, <1>q, PhaseEnters DEF ConnectClient, Queues, Enters
  <2>3. CASE StopClient(p)
    BY <2>3, StopMarks DEF Queues
  <2> QED
    BY <1>1, <1>2, <2>1, <2>2, <2>3
    DEF CallStep, LoopNext, AddTunnel, SwapTunnels, StartRefused, StopRefused, StopTunnel, StopBridge
<1>3. ASSUME NEW c \in Client, ClientStep(c) PROVE Queues'
  <2>1. CASE \E e \in Event : cl[c].phase # "up" /\ cl[c].phase # "closed" /\ Tell(c, e, "up")
    BY <2>1, <1>q, TellEnters DEF Queues, Enters
  <2>2. CASE \E e \in Event : cl[c].phase # "closed" /\ Tell(c, e, "closed")
    BY <2>2, <1>q, TellEnters DEF Queues, Enters
  <2>3. CASE \E ph \in {"hook", "hookSet", "hookEmit"} :
               cl[c].phase \notin {"up", "closed"} /\ cl' = [cl EXCEPT ![c].phase = ph]
    BY <2>3, <1>q, PhaseEnters DEF Queues, Enters
  <2> QED
    BY <1>3, <2>1, <2>2, <2>3
    DEF ClientStep, HookStep, LoginEnds, TunnelMade, HookListen, HookSet, HookEmit, TunnelEnds, Event
<1>4. ASSUME NEW c \in Client, ForwardRead(c) PROVE Queues'
  <2>1. cl[c] \in ClientRec /\ cl[c].q \in Seq(Event) /\ cl[c].q # <<>>
    BY <1>4 DEF Types, ClientRec, ForwardRead
  <2>2. Len(Tail(cl[c].q)) = Len(cl[c].q) - 1
    BY <2>1
  <2>3. /\ \A d \in Client : d # c => cl'[d] = cl[d]
        /\ cl'[c].q = Tail(cl[c].q) /\ cl'[c].phase = cl[c].phase
    BY <1>4, <2>1 DEF ForwardRead, Types, ClientRec
  <2>4. Len(cl[c].q) # 0
    BY <2>1
  <2>5. Len(cl'[c].q) \in Nat /\ Len(cl'[c].q) = Len(cl[c].q) - 1
    BY <2>1, <2>2, <2>3, <2>4, <1>q
  <2>6. /\ cl'[c].phase \in {"up", "closed"}
        /\ cl'[c].phase = "up" => Len(cl'[c].q) <= 1
        /\ Len(cl'[c].q) <= 2
    BY <2>3, <2>4, <2>5, <1>q DEF Queues
  <2> QED BY <2>3, <2>6 DEF Queues
<1> QED
  BY <1>1, <1>2, <1>3, <1>4
  DEF Next, Call, ForwardStep, ForwardEmit, ForwardEnd, ForwardClose, vars

\* Every step leaves a client that is not finished with its tunnelState.
LEMMA OwnedStep == Types /\ Owned /\ Joining /\ [Next]_vars => Owned'
<1> SUFFICES ASSUME Types, Owned, Joining, [Next]_vars PROVE Owned'
  OBVIOUS
<1>1. ASSUME cl' = cl, st' = st, clients' = clients PROVE Owned'
  BY <1>1 DEF Owned, Live
<1>2. ASSUME NEW p \in Callers, CallStep(p) PROVE Owned'
  <2>1. CASE StartTunnel(p)
    <3>1. PICK c \in Client, s \in State :
            /\ c = clients + 1 /\ clients' = c /\ st[s].client = Nil
            /\ \A d \in Client : d # c => cl'[d] = cl[d]
            /\ cl'[c].phase = "new" /\ cl'[c].st = s
            /\ \A t \in State : t # s => st'[t] = st[t]
            /\ st'[s].client = c
      BY <2>1, StartMakes
    <3>2. clients \in Nat
      BY DEF Types
    <3>3. ASSUME NEW d \in Client, d # c
          PROVE  /\ d > clients' => cl'[d].phase = "unborn"
                 /\ cl'[d].phase # "unborn" => cl'[d].st \in State
                 /\ Live(d)' => st'[cl'[d].st].client = d
      <4>1. d > clients' => d > clients
        BY <3>1, <3>2 DEF Client
      <4>2. Live(d) => cl[d].st # s
        BY <3>1 DEF Owned, Nil, Client
      <4> QED BY <3>1, <3>3, <4>1, <4>2 DEF Owned, Live
    <3>4. ~(c > clients')
      BY <3>1, <3>2 DEF Client
    <3> QED BY <3>1, <3>3, <3>4 DEF Owned, Live
  <2>2. CASE ConnectClient(p)
    <3>1. caller[p].client \in Client /\ cl[caller[p].client].phase = "new"
      BY <2>2 DEF ConnectClient, Joining
    <3> QED BY <2>2, <3>1, PhaseEnters DEF ConnectClient, Owned, Live, Enters
  <2>3. CASE StopTunnel(p)
    <3>1. \A s \in State : st'[s].client = st[s].client
      BY <2>3 DEF StopTunnel, Types, StateRec
    <3> QED BY <2>3, <3>1 DEF StopTunnel, Owned, Live
  <2>4. CASE StopClient(p)
    BY <2>4, StopMarks DEF Owned, Live, StopClient
  <2> QED
    BY <1>1, <1>2, <2>1, <2>2, <2>3, <2>4
    DEF CallStep, LoopNext, AddTunnel, SwapTunnels, StartRefused, StopRefused, StopBridge
<1>3. ASSUME NEW c \in Client, ClientStep(c) PROVE Owned'
  <2>1. \E ph \in Phases \ {"unborn", "new"} : Enters(c, ph)
    BY <1>3, PhaseEnters, TellEnters
    DEF ClientStep, HookStep, LoginEnds, TunnelMade, HookListen, HookSet, HookEmit, TunnelEnds, Phases
  <2>2. clients' = clients /\ Live(c)
    BY <1>3
    DEF ClientStep, HookStep, LoginEnds, TunnelMade, HookListen, HookSet, HookEmit, TunnelEnds, Live
  <2>3. \A s \in State : st'[s].client = st[s].client
    BY <1>3 DEF ClientStep, HookStep, LoginEnds, TunnelMade, HookListen, HookSet, HookEmit, TunnelEnds, Types, StateRec
  <2> QED BY <2>1, <2>2, <2>3 DEF Owned, Live, Enters
<1>4. ASSUME NEW c \in Client, ForwardRead(c) PROVE Owned'
  <2>1. \A s \in State : st'[s].client = st[s].client
    BY <1>4 DEF ForwardRead, Types, StateRec
  <2>2. \A d \in Client : cl'[d].phase = cl[d].phase /\ cl'[d].st = cl[d].st
    BY <1>4 DEF ForwardRead, Types, ClientRec
  <2> QED BY <1>4, <2>1, <2>2 DEF Owned, Live, ForwardRead
<1>5. ASSUME NEW c \in Client, ForwardEnd(c) PROVE Owned'
  <2>1. \A s \in State : st'[s].client = st[s].client \/ st[s].client = c
    BY <1>5 DEF ForwardEnd, Types
  <2> QED BY <1>5, <2>1 DEF Owned, Live, ForwardEnd
<1> QED
  BY <1>1, <1>2, <1>3, <1>4, <1>5
  DEF Next, Call, ForwardStep, ForwardEmit, ForwardClose, vars

\* Every step leaves a Start that is about to connect its client.
LEMMA JoiningStep == Types /\ Owned /\ Joining /\ [Next]_vars => Joining'
<1> SUFFICES ASSUME Types, Owned, Joining, [Next]_vars PROVE Joining'
  OBVIOUS
<1>1. ASSUME cl' = cl, NEW p \in Callers, Moves(p) PROVE Joining'
  BY <1>1 DEF Joining, At, Moves
<1>2. ASSUME NEW p \in Callers, Call(p) \/ CallStep(p) PROVE Joining'
  <2>1. CASE StartTunnel(p)
    <3>1. PICK c \in Client :
            /\ c = clients + 1 /\ caller'[p].client = c
            /\ \A d \in Client : d # c => cl'[d] = cl[d]
            /\ cl'[c].phase = "new"
      BY <2>1, StartMakes
    <3>2. \A q \in Callers \ {p} : caller'[q] = caller[q]
      BY <2>1, StartMakes
    <3>3. cl[c].phase = "unborn"
      BY <3>1 DEF Owned, Types
    <3>4. ASSUME NEW q \in Callers \ {p}, At(q, "connect")'
          PROVE  /\ caller'[q].client \in Client \ {c}
                 /\ cl'[caller'[q].client].phase = "new"
                 /\ At(q, "connect") /\ caller'[q] = caller[q]
      <4>1. caller'[q] = caller[q] /\ At(q, "connect")
        BY <3>2, <3>4 DEF At
      <4>2. caller[q].client \in Client /\ cl[caller[q].client].phase = "new"
        BY <4>1 DEF Joining
      <4>3. caller[q].client # c
        BY <4>2, <3>3
      <4> QED BY <3>1, <4>1, <4>2, <4>3
    <3> QED BY <3>1, <3>4 DEF Joining, At
  <2>2. CASE ConnectClient(p)
    <3>1. At(p, "connect") /\ caller[p].client \in Client
      BY <2>2 DEF ConnectClient, Joining
    <3>2. Moves(p) /\ Enters(caller[p].client, "login")
      BY <2>2, <3>1, CallerMoves, PhaseEnters DEF ConnectClient
    <3> QED BY <3>1, <3>2 DEF Joining, At, Moves, Enters
  <2>3. CASE StopTunnel(p)
    <3>1. /\ \A q \in Callers \ {p} : caller'[q] = caller[q]
          /\ caller'[p].at = "closeBridge"
      BY <2>3 DEF StopTunnel, Types, CallerRec
    <3>2. cl' = cl
      BY <2>3 DEF StopTunnel
    <3> QED BY <3>1, <3>2 DEF Joining, At
  <2>4. CASE StopClient(p)
    <3>1. Moves(p)
      BY <2>4, CallerMoves
    <3> QED BY <2>4, <3>1, StopMarks DEF Joining, At, Moves
  <2> QED
    BY <1>1, <1>2, <2>1, <2>2, <2>3, <2>4, CallerMoves
    DEF CallStep, Call, LoopNext, AddTunnel, SwapTunnels, StartRefused, StopRefused, StopBridge
<1>3. ASSUME NEW c \in Client, ClientStep(c) \/ ForwardStep(c) PROVE Joining'
  <2>1. \A d \in Client : cl[d].phase = "new" => cl'[d].phase = "new"
    <3>1. CASE ClientStep(c)
      <4>1. cl[c].phase # "new" /\ \E ph \in Phases \ {"unborn", "new"} : Enters(c, ph)
        BY <3>1, PhaseEnters, TellEnters
        DEF ClientStep, HookStep, LoginEnds, TunnelMade, HookListen, HookSet, HookEmit, TunnelEnds, Phases
      <4> QED BY <4>1 DEF Enters
    <3>2. CASE ForwardRead(c)
      BY <3>2 DEF ForwardRead, Types, ClientRec
    <3> QED BY <1>3, <3>1, <3>2 DEF ForwardStep, ForwardEmit, ForwardEnd, ForwardClose
  <2>2. caller' = caller
    BY <1>3 DEF ClientStep, HookStep, LoginEnds, TunnelMade, HookListen, HookSet, HookEmit, TunnelEnds,
                ForwardStep, ForwardRead, ForwardEmit, ForwardEnd, ForwardClose
  <2> QED BY <2>1, <2>2 DEF Joining, At
<1>4. CASE UNCHANGED vars
  BY <1>4 DEF vars, Joining, At
<1> QED
  BY <1>2, <1>3, <1>4 DEF Next

\* Every step leaves the bridges with their tunnelStates.
LEMMA BridgesStep == Types /\ Owned /\ Joining /\ Bridges /\ [Next]_vars => Bridges'
<1> SUFFICES ASSUME Types, Owned, Joining, Bridges, [Next]_vars PROVE Bridges'
  OBVIOUS
<1>b. /\ \A s \in State : st[s].bridge \in Client \cup {Nil}
      /\ \A p \in Callers : caller[p].bridge \in Client \cup {Nil}
      /\ \A d \in Client : fwd[d].bridge \in Client \cup {Nil}
  BY DEF Types, StateRec, CallerRec, FwdRec
<1>1. ASSUME st' = st, cl' = cl, listening' = listening, fwd' = fwd, NEW p \in Callers, Moves(p)
      PROVE  Bridges'
  BY <1>1 DEF Bridges, Moves
\* A client other than the three kinds of holders speak of goes on.
<1>2. ASSUME NEW c \in Client, NEW ph \in Phases, Enters(c, ph),
             cl[c].phase \in Past => ph \in Past,
             ph = "hookSet" => c \in listening',
             st' = st, listening \subseteq listening',
             \A d \in Client : fwd'[d].bridge = fwd[d].bridge,
             \A p \in Callers : caller'[p].bridge \in {caller[p].bridge, Nil}
      PROVE  Bridges'
  BY <1>2, <1>b DEF Bridges, Enters
<1>3. ASSUME NEW p \in Callers, CallStep(p) PROVE Bridges'
  <2>1. CASE StartTunnel(p)
    <3>1. PICK c \in Client, s \in State :
            /\ c = clients + 1 /\ st[s].client = Nil
            /\ \A d \in Client : d # c => cl'[d] = cl[d]
            /\ cl'[c].phase = "new"
            /\ \A t \in State : t # s => st'[t] = st[t]
            /\ st'[s].bridge = st[s].bridge /\ st'[s].pacRule = st[s].pacRule
      BY <2>1, StartMakes
    <3>2. cl[c].phase = "unborn"
      BY <3>1 DEF Owned, Types
    <3>3. st[s].bridge = Nil
      BY <3>1, <1>b DEF Bridges, Nil, Client
    <3>4. \A q \in Callers : caller'[q].bridge = caller[q].bridge
      BY <2>1, StartMakes
    <3>5. \A t \in State : st'[t].bridge = st[t].bridge /\ st'[t].pacRule = st[t].pacRule
                           /\ (st[t].bridge # Nil => st'[t].client = st[t].client)
      BY <3>1, <3>3
    <3>6. \A b \in Client : cl[b].phase \in Past => cl'[b] = cl[b] /\ b # c
      BY <3>1, <3>2 DEF Past
    <3>7. listening' = listening /\ fwd' = fwd
      BY <2>1 DEF StartTunnel
    <3>8. \A b \in Client : cl[b].phase \in Past => cl[b].st \in State
      BY DEF Owned, Past
    <3>9. \A t \in State : st'[t].bridge # Nil =>
             /\ cl'[st'[t].bridge].st = t /\ st'[t].client = st'[t].bridge
             /\ st'[t].bridge \in listening' /\ cl'[st'[t].bridge].phase \in Past
      BY <1>b, <3>5, <3>6, <3>7 DEF Bridges
    <3>10. \A b \in Client : cl[b].phase \in Past /\ st[cl[b].st].bridge # b
             => cl'[b].phase \in Past /\ st'[cl'[b].st].bridge # b
      BY <3>5, <3>6, <3>8
    <3>11. \A t \in State : st'[t].pacRule => st'[t].bridge # Nil
      BY <3>5 DEF Bridges
    <3>12. \A d \in Client : cl'[d].phase = "hookSet" => d \in listening'
      BY <3>1, <3>7 DEF Bridges
    <3> QED BY <3>4, <3>7, <3>9, <3>10, <3>11, <3>12, <1>b DEF Bridges
  <2>2. CASE ConnectClient(p)
    <3>1. caller[p].client \in Client /\ cl[caller[p].client].phase = "new"
      BY <2>2 DEF ConnectClient, Joining
    <3>2. Enters(caller[p].client, "login")
      BY <2>2, <3>1, PhaseEnters DEF ConnectClient
    <3>3. \A d \in Client : fwd'[d].bridge = fwd[d].bridge
      BY <2>2 DEF ConnectClient, Types, FwdRec
    <3>4. \A q \in Callers : caller'[q].bridge \in {caller[q].bridge, Nil}
      BY <2>2, CallerMoves DEF Moves
    <3> QED BY <2>2, <3>1, <3>2, <3>3, <3>4, <1>2 DEF ConnectClient, Phases, Past
  <2>3. CASE StopTunnel(p)
    <3> DEFINE s == table[caller[p].id]
    <3>1. s \in State
      BY <2>3 DEF StopTunnel, Types, CallerRec
    <3>2. /\ \A q \in Callers \ {p} : caller'[q] = caller[q]
          /\ caller'[p].bridge = st[s].bridge
      BY <2>3 DEF StopTunnel, Types, CallerRec
    <3>3. /\ \A t \in State : t # s => st'[t] = st[t]
          /\ st'[s].bridge = Nil /\ st'[s].pacRule = FALSE
      BY <2>3, <3>1 DEF StopTunnel, Types, StateRec
    <3>4. cl' = cl /\ listening' = listening /\ fwd' = fwd
      BY <2>3 DEF StopTunnel
    <3>5. \A b \in Client : cl[b].phase \in Past => cl[b].st \in State
      BY DEF Owned, Past
    <3> HIDE DEF s
    <3> QED BY <3>1, <3>2, <3>3, <3>4, <3>5, <1>b DEF Bridges
  <2>4. CASE StopBridge(p)
    <3>1. Moves(p) /\ listening' = listening \ {caller[p].bridge}
      BY <2>4, CallerMoves DEF StopBridge
    <3>2. st' = st /\ cl' = cl /\ fwd' = fwd
      BY <2>4 DEF StopBridge
    <3>3. \A s \in State : st[s].bridge # Nil => st[s].bridge # caller[p].bridge
      BY <1>b DEF Bridges
    <3>4. \A s \in State : st[s].bridge # Nil => st[s].bridge \in listening'
      BY <3>1, <3>3 DEF Bridges
    <3>5. ASSUME NEW d \in Client, cl[d].phase = "hookSet" PROVE d \in listening'
      <4>1. d # caller[p].bridge
        BY <3>5 DEF Bridges, Past, Nil, Client
      <4> QED BY <3>1, <3>5, <4>1 DEF Bridges
    <3>6. \A q \in Callers : caller'[q].bridge \in {caller[q].bridge, Nil}
      BY <3>1 DEF Moves
    <3> QED BY <3>2, <3>4, <3>5, <3>6 DEF Bridges
  <2>5. CASE StopClient(p)
    <3>1. Moves(p)
      BY <2>5, CallerMoves
    <3>2. \A d \in Client : cl'[d].phase = cl[d].phase /\ cl'[d].st = cl[d].st
      BY <2>5, StopMarks
    <3>3. st' = st /\ listening' = listening /\ fwd' = fwd
      BY <2>5 DEF StopClient
    <3>4. \A q \in Callers : caller'[q].bridge \in {caller[q].bridge, Nil}
      BY <3>1 DEF Moves
    <3> QED BY <3>2, <3>3, <3>4, <1>b DEF Bridges
  <2> QED
    BY <1>1, <1>3, <2>1, <2>2, <2>3, <2>4, <2>5, CallerMoves
    DEF CallStep, LoopNext, AddTunnel, SwapTunnels, StartRefused, StopRefused
<1>4. ASSUME NEW c \in Client, ClientStep(c) PROVE Bridges'
  <2>1. CASE HookSet(c)
    <3>1. Enters(c, "hookEmit") /\ cl[c].phase = "hookSet" /\ c \in listening
      BY <2>1, PhaseEnters DEF HookSet, Bridges
    <3>2. cl[c].st \in State /\ st[cl[c].st].client = c
      BY <3>1 DEF Owned, Live
    <3>3. /\ \A t \in State : t # cl[c].st => st'[t] = st[t]
          /\ st'[cl[c].st].bridge = c /\ st'[cl[c].st].client = c
      BY <2>1, <3>2 DEF HookSet, Types, StateRec
    <3>4. listening' = listening /\ fwd' = fwd /\ caller' = caller
      BY <2>1 DEF HookSet
    <3>5. \A b \in Client : cl[b].phase \in Past => b # c
      BY <3>1 DEF Past
    <3>6. \A b \in Client : cl[b].phase \in Past => cl[b].st \in State
      BY DEF Owned, Past
    <3>7. c # Nil
      BY DEF Client, Nil
    <3>8. \A d \in Client : cl'[d].st = cl[d].st
      BY <3>1 DEF Enters
    <3>9. \A b \in Client : cl[b].phase \in Past => cl'[b].phase \in Past
      BY <3>1, <3>5 DEF Enters
    <3>10. \A t \in State : st'[t].bridge # Nil =>
             /\ cl'[st'[t].bridge].st = t /\ st'[t].client = st'[t].bridge
             /\ st'[t].bridge \in listening' /\ cl'[st'[t].bridge].phase \in Past
      BY <1>b, <3>1, <3>3, <3>4, <3>8, <3>9 DEF Bridges, Enters, Past
    <3>11. \A b \in Client : cl[b].phase \in Past /\ st[cl[b].st].bridge # b
             => cl'[b].phase \in Past /\ st'[cl'[b].st].bridge # b
      BY <3>3, <3>5, <3>6, <3>8, <3>9
    <3>12. \A t \in State : st'[t].pacRule => st'[t].bridge # Nil
      BY <3>3, <3>7 DEF Bridges
    <3>13. \A d \in Client : cl'[d].phase = "hookSet" => d \in listening'
      BY <3>1, <3>4 DEF Bridges, Enters
    <3> QED BY <1>b, <3>4, <3>10, <3>11, <3>12, <3>13 DEF Bridges
  <2>2. CASE LoginEnds(c) \/ TunnelMade(c) \/ HookListen(c) \/ HookEmit(c) \/ TunnelEnds(c)
    <3>1. \E ph \in Phases : /\ Enters(c, ph) /\ (cl[c].phase \in Past => ph \in Past)
                             /\ (ph = "hookSet" => c \in listening')
      BY <2>2, PhaseEnters, TellEnters
      DEF LoginEnds, TunnelMade, HookListen, HookEmit, TunnelEnds, Phases, Past
    <3>2. st' = st /\ fwd' = fwd /\ caller' = caller /\ listening \subseteq listening'
      BY <2>2 DEF LoginEnds, TunnelMade, HookListen, HookEmit, TunnelEnds
    <3> QED BY <3>1, <3>2, <1>2
  <2> QED BY <1>4, <2>1, <2>2 DEF ClientStep, HookStep
<1>5. ASSUME NEW c \in Client, ForwardStep(c) PROVE Bridges'
  <2>1. CASE ForwardRead(c)
    <3>1. \A s \in State : /\ st'[s].bridge = st[s].bridge /\ st'[s].client = st[s].client
                           /\ st'[s].pacRule = st[s].pacRule
      BY <2>1 DEF ForwardRead, Types, StateRec
    <3>2. \A d \in Client : cl'[d].phase = cl[d].phase /\ cl'[d].st = cl[d].st
      BY <2>1 DEF ForwardRead, Types, ClientRec
    <3>3. \A d \in Client : fwd'[d].bridge = fwd[d].bridge
      BY <2>1 DEF ForwardRead, Types, FwdRec
    <3>4. \A b \in Client : cl[b].phase \in Past => cl[b].st \in State
      BY DEF Owned, Past
    <3>5. listening' = listening /\ caller' = caller
      BY <2>1 DEF ForwardRead
    <3> QED BY <1>b, <3>1, <3>2, <3>3, <3>4, <3>5 DEF Bridges
  <2>2. CASE ForwardEmit(c)
    <3>1. \A d \in Client : fwd'[d].bridge = fwd[d].bridge
      BY <2>2 DEF ForwardEmit, Types, FwdRec
    <3> QED BY <2>2, <3>1, <1>b DEF ForwardEmit, Bridges
  <2>3. CASE ForwardEnd(c)
    <3> DEFINE s == table[cl[c].id]
               mine == s # Nil /\ st[s].client = c
    <3>1. s \in State \cup {Nil}
      BY DEF Types, ClientRec
    <3>2. /\ \A d \in Client : d # c => fwd'[d] = fwd[d]
          /\ fwd'[c].bridge = IF mine THEN st[s].bridge ELSE Nil
      BY <2>3 DEF ForwardEnd, Types, FwdRec
    <3>3. cl' = cl /\ listening' = listening /\ caller' = caller
      BY <2>3 DEF ForwardEnd
    <3>4. \A b \in Client : cl[b].phase \in Past => cl[b].st \in State
      BY DEF Owned, Past
    <3>5. CASE mine
      <4>1. s \in State
        BY <3>1, <3>5
      <4>2. /\ \A t \in State : t # s => st'[t] = st[t]
            /\ st'[s].bridge = Nil /\ st'[s].pacRule = FALSE
        BY <2>3, <3>5, <4>1 DEF ForwardEnd, Types, NewState
      <4>3. fwd'[c].bridge = st[s].bridge
        BY <3>2, <3>5
      <4> HIDE DEF s, mine
      <4> QED BY <1>b, <3>2, <3>3, <3>4, <4>1, <4>2, <4>3 DEF Bridges
    <3>6. CASE ~mine
      <4>1. st' = st /\ fwd'[c].bridge = Nil
        BY <2>3, <3>2, <3>6 DEF ForwardEnd
      <4> HIDE DEF s, mine
      <4> QED BY <1>b, <3>2, <3>3, <4>1 DEF Bridges
    <3> QED BY <3>5, <3>6
  <2>4. CASE ForwardClose(c)
    <3>1. /\ \A d \in Client : d # c => fwd'[d] = fwd[d]
          /\ fwd'[c].bridge = Nil
      BY <2>4 DEF ForwardClose, Types, FwdRec
    <3>2. listening' = listening \ {fwd[c].bridge}
      BY <2>4 DEF ForwardClose
    <3>3. st' = st /\ cl' = cl /\ caller' = caller
      BY <2>4 DEF ForwardClose
    <3>4. \A s \in State : st[s].bridge # Nil => st[s].bridge # fwd[c].bridge
      BY <1>b DEF Bridges
    <3>5. \A s \in State : st[s].bridge # Nil => st[s].bridge \in listening'
      BY <3>2, <3>4 DEF Bridges
    <3>6. ASSUME NEW d \in Client, cl[d].phase = "hookSet" PROVE d \in listening'
      <4>1. d # fwd[c].bridge
        BY <3>6 DEF Bridges, Past, Nil, Client
      <4> QED BY <3>2, <3>6, <4>1 DEF Bridges
    <3> QED BY <1>b, <3>1, <3>3, <3>5, <3>6 DEF Bridges
  <2> QED BY <1>5, <2>1, <2>2, <2>3, <2>4 DEF ForwardStep
<1>6. ASSUME NEW p \in Callers, Call(p) PROVE Bridges'
  BY <1>1, <1>6, CallerMoves DEF Call
<1>7. CASE UNCHANGED vars
  BY <1>7 DEF vars, Bridges
<1> QED
  BY <1>3, <1>4, <1>5, <1>6, <1>7 DEF Next
-----------------------------------------------------------------------------
LEMMA InvHolds == Spec => []Inv
<1>1. Inv /\ [Next]_vars => Inv'
  BY TypesStep, QueuesStep, OwnedStep, JoiningStep, BridgesStep DEF Inv
<1> QED BY InitInv, <1>1, PTL DEF Spec
-----------------------------------------------------------------------------
\* Every variable has its type, and no client ever reports more than the two
\* statuses its channel has room for (client.go events, forwardEvents).
THEOREM TypeCorrect == Spec => []TypeOK
<1>1. Inv => TypeOK
  BY DEF Inv, Types, Queues, TypeOK
<1> QED BY <1>1, InvHolds, PTL

\* However many calls race, a tunnelState never has two clients that are not
\* finished (manager.go Start, forwardEvents).
THEOREM OneClientCorrect == Spec => []OneClientPerState
<1>1. Inv => OneClientPerState
  BY DEF Inv, Owned, OneClientPerState, Live
<1> QED BY <1>1, InvHolds, PTL

\* No PAC rule ever leads to a port without a listener (manager.go Stop).
THEOREM RuleCorrect == Spec => []RuleHasListener
<1>1. Inv => RuleHasListener
  BY DEF Inv, Bridges, RuleHasListener
<1> QED BY <1>1, InvHolds, PTL

\* A tunnelState only ever has the bridge of its own client (manager.go Start,
\* forwardEvents).
THEOREM BridgeCorrect == Spec => []BridgeOfOwnClient
<1>1. Inv => BridgeOfOwnClient
  BY DEF Inv, Bridges, BridgeOfOwnClient
<1> QED BY <1>1, InvHolds, PTL
-----------------------------------------------------------------------------
(* The end of a client                                                     *)

\* forwardEvents has left its loop.
Ended == {"close", "done"}

\* The phases of a client whose bridge can listen.
Listening == {"hookSet"} \cup Past

\* A new tunnelState is a later one: what is registered was made before, for one
\* id only, and what a client captured does not come back once it is replaced.
Fresh ==
  /\ \A i \in Ids : table[i] <= states
  /\ \A i, j \in Ids : table[i] = table[j] /\ table[i] # Nil => i = j
  /\ \A c \in Client : cl[c].phase # "unborn" => cl[c].st \in 1..states

\* forwardEvents serves its client from Connect to the end of its channel, and
\* until then the tunnelState is the client's; a registered one is free after.
Served ==
  /\ \A c \in Client : fwd[c].at = "none" <=> cl[c].phase \in {"unborn", "new"}
  /\ \A c \in Client : fwd[c].at \in Ended => cl[c].phase = "closed" /\ cl[c].q = <<>>
  /\ \A c \in Client : cl[c].phase # "unborn" /\ fwd[c].at \notin Ended => st[cl[c].st].client = c
  /\ \A s \in State : st[s].client # Nil =>
       cl[st[s].client].st = s /\ cl[st[s].client].phase # "unborn"
  /\ \A c \in Client : fwd[c].at \in Ended /\ table[cl[c].id] = cl[c].st
       => st[cl[c].st].client # c

\* A Stop is about to close the bridge of c.
StopCloses(c) == \E p \in Callers : At(p, "closeBridge") /\ caller[p].bridge = c

\* Somebody answers for every listener of a registered tunnelState: the hook that
\* has just opened it, the tunnelState, forwardEvents or a Stop.
Listeners ==
  \A c \in listening :
    /\ cl[c].phase \in Listening
    /\ table[cl[c].id] = cl[c].st =>
         \/ cl[c].phase = "hookSet"
         \/ st[cl[c].st].bridge = c
         \/ fwd[c].at = "close" /\ fwd[c].bridge = c
         \/ StopCloses(c)

\* c has still something to say to the manager.
Pending(c) == Live(c) \/ cl[c].q # <<>> \/ fwd[c].at = "emit"

\* The last word of a client is not "connected", unless it was dropped.
LastWord ==
  \A c \in Client :
    /\ cl[c].lost => cl[c].phase = "closed"
    /\ fwd[c].unheard => cl[c].phase # "unborn"
    /\ cl[c].phase = "closed" /\ ~cl[c].lost =>
         /\ cl[c].q # <<>> => cl[c].q[Len(cl[c].q)] # "connected"
         /\ cl[c].q = <<>> /\ fwd[c].at = "emit" => fwd[c].ev # "connected"

\* A tunnel is shown as connected only as long as a client of it will report, or
\* after the last word of one was dropped.
Shown ==
  \A i \in Ids : shown[i] = "connected" =>
    \E c \in Client : cl[c].id = i /\ (Pending(c) \/ cl[c].lost \/ fwd[c].unheard)

\* forwardEvents has not left its loop.
Reading(c) == fwd[c].at \in {"read", "emit"}

\* forwardEvents will still read the last word of c.
WillTell(c) == Reading(c) /\ ~cl[c].lost /\ (cl[c].phase # "closed" \/ cl[c].q # <<>>)

\* It will not, but the end of c resets s unless s is not the tunnelState of c.
WillReset(c, s) == cl[c].lost /\ (Reading(c) \/ cl[c].st # s)

\* Status() says that a tunnel is connected only as long as one of its clients
\* will correct it, or after one was lost whose tunnelState is registered no more.
Statuses ==
  /\ \A s \in State : s > states => ~st[s].connected
  /\ \A i \in Ids : table[i] # Nil /\ st[table[i]].connected =>
       \E c \in Client : cl[c].id = i /\ (WillTell(c) \/ WillReset(c, table[i]))

\* The inductive invariant of the end of a client, on top of Inv.
EndInv == Fresh /\ Served /\ Listeners /\ LastWord /\ Shown /\ Statuses

\* A manager without clients has nothing to end.
LEMMA EndInit == Init => EndInv
<1> SUFFICES ASSUME Init PROVE EndInv
  OBVIOUS
<1>1. \A c \in Client : cl[c].phase = "unborn" /\ cl[c].q = <<>> /\ fwd[c].at = "none"
  BY DEF Init
<1>2. Fresh
  <2>1. \A i \in Ids : table[i] <= states
    BY RankType DEF Init, Nil
  <2>2. \A i, j \in Ids : table[i] = table[j] /\ table[i] # Nil => i = j
    BY RankType DEF Init
  <2> QED BY <1>1, <2>1, <2>2 DEF Fresh
<1>3. Served
  BY <1>1 DEF Init, Served, Ended, NewState
<1>4. Listeners /\ LastWord
  BY <1>1 DEF Init, Listeners, LastWord
<1>5. Shown
  BY DEF Init, Shown
<1>6. Statuses
  <2>1. \A i \in Ids : table[i] \in State \cup {Nil}
    BY InitInv DEF Inv, Types
  <2> QED BY <2>1 DEF Init, Statuses, NewState
<1> QED
  BY <1>2, <1>3, <1>4, <1>5, <1>6 DEF EndInv

\* What is registered anew was not there before.
LEMMA TableStep ==
  ASSUME Types, Fresh, NEW p \in Callers, AddTunnel(p) \/ SwapTunnels(p)
  PROVE  /\ states <= states'
         /\ \A i \in Ids : /\ table'[i] = table[i] \/ table'[i] = Nil \/ table'[i] > states
                           /\ table'[i] <= states'
         /\ \A i, j \in Ids : table'[i] = table'[j] /\ table'[i] # Nil => i = j
<1>1. caller[p].id \in Ids /\ states \in Nat /\ \A i \in Ids : table[i] \in Nat
  BY DEF Types, CallerRec, State, Nil
<1>2. CASE AddTunnel(p)
  BY <1>1, <1>2 DEF AddTunnel, Types, Fresh
<1>3. CASE SwapTunnels(p)
  <2>1. states' = states + Cardinality(Ids)
    BY <1>3 DEF SwapTunnels
  <2>2. PICK kept \in SUBSET Ids :
          table' = [i \in Ids |-> IF i \in kept THEN states + Rank[i] ELSE Nil]
    BY <1>3 DEF SwapTunnels
  <2>3. \A i \in Ids : Rank[i] \in 1..Cardinality(Ids)
    BY RankType
  <2>4. Cardinality(Ids) \in Nat
    BY RankType
  <2>5. \A i, j \in Ids : table'[i] = table'[j] /\ table'[i] # Nil => i = j
    <3>1. ASSUME NEW i \in Ids, NEW j \in Ids, table'[i] = table'[j], table'[i] # Nil
          PROVE  Rank[i] = Rank[j]
      <4>1. i \in kept /\ j \in kept
        BY <1>1, <2>2, <2>3, <3>1 DEF Nil
      <4>2. states + Rank[i] = states + Rank[j]
        BY <2>2, <3>1, <4>1
      <4> QED BY <1>1, <2>3, <4>2
    <3> QED BY <3>1, RankType
  <2>6. /\ states <= states'
        /\ \A i \in Ids : /\ table'[i] = table[i] \/ table'[i] = Nil \/ table'[i] > states
                          /\ table'[i] <= states'
    BY <1>1, <2>1, <2>2, <2>3, <2>4 DEF Nil
  <2> QED BY <2>5, <2>6
<1> QED
  BY <1>2, <1>3

\* A step of a caller that leaves clients, bridges and forwarders alone.
LEMMA QuietKeepsEnd ==
  ASSUME Types, EndInv,
         \A c \in Client : /\ cl'[c].phase = cl[c].phase /\ cl'[c].st = cl[c].st
                           /\ cl'[c].id = cl[c].id /\ cl'[c].q = cl[c].q
                           /\ cl'[c].lost = cl[c].lost,
         \A s \in State : /\ st'[s].client = st[s].client /\ st'[s].bridge = st[s].bridge
                          /\ st'[s].connected = st[s].connected,
         fwd' = fwd, listening' = listening,
         \A i \in Ids : shown'[i] = "connected" => shown[i] = "connected",
         \A p \in Callers : At(p, "closeBridge") => caller'[p] = caller[p],
         states <= states', states' \in Nat,
         \A i \in Ids : /\ table'[i] = table[i] \/ table'[i] = Nil \/ table'[i] > states
                        /\ table'[i] <= states',
         \A i \in Ids : table'[i] \in State \cup {Nil},
         \A i, j \in Ids : table'[i] = table'[j] /\ table'[i] # Nil => i = j
  PROVE  EndInv'
<1>1. /\ \A c \in Client : cl[c].id \in Ids /\ (cl[c].phase # "unborn" => cl[c].st \in State)
      /\ listening \subseteq Client /\ states \in 0..MaxStates
      /\ \A s \in State : st[s].client \in Client \cup {Nil}
      /\ \A i \in Ids : table[i] \in Nat
  BY BoundAssumption DEF Types, ClientRec, StateRec, EndInv, Fresh, State, Nil
<1>2. Fresh'
  BY <1>1, BoundAssumption DEF EndInv, Fresh
<1>3. \A c \in Client : cl[c].phase # "unborn" /\ table'[cl[c].id] = cl[c].st
                          => table[cl[c].id] = cl[c].st
  BY <1>1, BoundAssumption DEF EndInv, Fresh, Nil
<1>4. Served'
  <2>1. \A c \in Client : fwd[c].at \in Ended => cl[c].phase # "unborn"
    BY DEF EndInv, Served
  <2> QED BY <1>1, <1>3, <2>1 DEF EndInv, Served
<1>5. Listeners'
  <2>1. \A c \in Client : StopCloses(c) => StopCloses(c)'
    BY DEF StopCloses, At
  <2>2. \A c \in listening : cl[c].phase # "unborn" /\ cl[c].st \in State
    BY <1>1 DEF EndInv, Listeners, Listening, Past
  <2> QED BY <1>1, <1>3, <2>1, <2>2 DEF EndInv, Listeners
<1>6. LastWord'
  BY DEF EndInv, LastWord
<1>7. Shown'
  BY DEF EndInv, Shown, Pending, Live
<1>8. Statuses'
  <2>1. \A s \in State : s > states' => s > states
    BY <1>1 DEF State
  <2>2. \A i \in Ids : table'[i] \in State /\ st'[table'[i]].connected => table'[i] = table[i]
    BY DEF EndInv, Statuses, Nil, State
  <2>4. \A c \in Client, s \in State :
          (WillTell(c) => WillTell(c)') /\ (WillReset(c, s) => WillReset(c, s)')
    BY DEF WillTell, WillReset, Reading
  <2> QED BY <2>1, <2>2, <2>4 DEF EndInv, Statuses
<1> QED
  BY <1>2, <1>4, <1>5, <1>6, <1>7, <1>8 DEF EndInv

\* What a client reports is the last of its queue, or dropped.
LEMMA TellLast ==
  ASSUME Types, NEW c \in Client, NEW e \in Event, Tell(c, e, "closed")
  PROVE  cl'[c].lost \/ (cl'[c].q # <<>> /\ cl'[c].q[Len(cl'[c].q)] = e)
<1>1. cl[c].q \in Seq(Event)
  BY DEF Types, ClientRec
<1>2. Append(cl[c].q, e) # <<>> /\ Len(Append(cl[c].q, e)) = Len(cl[c].q) + 1
      /\ Append(cl[c].q, e)[Len(cl[c].q) + 1] = e
  BY <1>1
<1> QED
  BY <1>2, TellEnters

\* A client that has connected has lost nothing yet.
LEMMA TellUp ==
  ASSUME Types, NEW c \in Client, NEW e \in Event, Tell(c, e, "up"), ~cl[c].lost
  PROVE  ~cl'[c].lost
  BY DEF Tell, Types, ClientRec

\* A step of a client: only it moves on, a closing one reports last that it is
\* not connected or loses that, and only its hook opens or records a bridge.
LEMMA ClientMoves ==
  ASSUME Types, LastWord, NEW c \in Client, ClientStep(c)
  PROVE  /\ cl[c].phase \in {"login", "hook", "hookSet", "hookEmit", "up"}
         /\ \A d \in Client : d # c => cl'[d] = cl[d]
         /\ cl'[c].st = cl[c].st /\ cl'[c].id = cl[c].id
         /\ cl'[c].phase \in {"hook", "hookSet", "hookEmit", "up", "closed"}
         /\ cl[c].phase \in Listening => cl'[c].phase \in Past
         /\ cl'[c].phase = "closed" /\ ~cl'[c].lost =>
              cl'[c].q # <<>> /\ cl'[c].q[Len(cl'[c].q)] # "connected"
         /\ ~cl[c].lost /\ (cl'[c].lost => cl'[c].phase = "closed")
         /\ UNCHANGED <<table, states, clients, fwd, caller>>
         /\ \A i \in Ids : shown'[i] = "connected" =>
              shown[i] = "connected" \/ (cl'[c].phase = "up" /\ i = cl[c].id)
<1> USE DEF Listening, Past
<1>1. Tell(c, "ended", "closed") =>
        /\ Enters(c, "closed")
        /\ ~cl'[c].lost => cl'[c].q # <<>> /\ cl'[c].q[Len(cl'[c].q)] # "connected"
  BY TellEnters, TellLast DEF Event
<1>2. "connected" \in Event /\ (cl[c].lost => cl[c].phase = "closed")
  BY DEF Event, LastWord
<1>3. CASE LoginEnds(c)
  BY <1>1, <1>2, <1>3 DEF LoginEnds, Enters
<1>4. CASE TunnelMade(c)
  <2>1. CASE Mode = "socks5"
    <3>1. Enters(c, "hook") /\ cl'[c].lost = cl[c].lost
      BY <1>4, <2>1, PhaseEnters DEF TunnelMade
    <3> QED BY <1>2, <1>4, <3>1 DEF TunnelMade, Enters
  <2>2. CASE Mode # "socks5"
    <3>1. ~cl[c].lost
      BY <1>2, <1>4 DEF TunnelMade
    <3>2. Enters(c, "up") /\ ~cl'[c].lost
      BY <1>2, <1>4, <2>2, <3>1, TellEnters, TellUp DEF TunnelMade
    <3> QED BY <1>4, <3>1, <3>2 DEF TunnelMade, Enters
  <2> QED BY <2>1, <2>2
<1>5. CASE HookListen(c)
  <2>1. Tell(c, "ended", "closed") \/ (Enters(c, "hookSet") /\ cl'[c].lost = cl[c].lost)
    BY <1>5, PhaseEnters DEF HookListen
  <2>2. CASE Tell(c, "ended", "closed")
    BY <1>1, <1>2, <1>5, <2>2 DEF HookListen, Enters
  <2>3. CASE Enters(c, "hookSet") /\ cl'[c].lost = cl[c].lost
    BY <1>2, <1>5, <2>3 DEF HookListen, Enters
  <2> QED BY <2>1, <2>2, <2>3
<1>6. CASE HookSet(c)
  <2>1. Enters(c, "hookEmit") /\ cl'[c].lost = cl[c].lost
    BY <1>6, PhaseEnters DEF HookSet
  <2> QED BY <1>2, <1>6, <2>1 DEF HookSet, Enters
<1>7. CASE HookEmit(c)
  <2>1. ~cl[c].lost
    BY <1>2, <1>7 DEF HookEmit
  <2>2. Enters(c, "up") /\ ~cl'[c].lost
    BY <1>2, <1>7, <2>1, TellEnters, TellUp DEF HookEmit
  <2>3. \A i \in Ids : shown'[i] = "connected" => shown[i] = "connected" \/ i = cl[c].id
    BY <1>7 DEF HookEmit, Report, Types
  <2> QED BY <1>7, <2>1, <2>2, <2>3 DEF HookEmit, Enters
<1>8. CASE TunnelEnds(c)
  BY <1>1, <1>2, <1>8 DEF TunnelEnds, Enters
<1> QED
  BY <1>3, <1>4, <1>5, <1>6, <1>7, <1>8 DEF ClientStep, HookStep

\* Every step of a client keeps the invariant of its end.
LEMMA ClientKeepsEnd ==
  ASSUME Types, Owned, Bridges, EndInv, NEW c \in Client, ClientStep(c)
  PROVE  EndInv'
<1> USE DEF EndInv
<1>1. cl[c].phase # "unborn" /\ Live(c) /\ fwd[c].at \notin Ended \cup {"none"}
  BY ClientMoves DEF EndInv, Served, Live
<1>2. cl[c].st \in State /\ st[cl[c].st].client = c
  BY <1>1 DEF Owned
<1>3. \A s \in State : st'[s].client = st[s].client
  BY DEF ClientStep, HookStep, LoginEnds, TunnelMade, HookListen, HookSet, HookEmit, TunnelEnds,
         Types, StateRec
<1>0. \A s \in State : st'[s].connected = st[s].connected
  BY DEF ClientStep, HookStep, LoginEnds, TunnelMade, HookListen, HookSet, HookEmit, TunnelEnds,
         Types, StateRec
<1>4. \A s \in State : st'[s].bridge = st[s].bridge
                          \/ (HookSet(c) /\ s = cl[c].st /\ st'[s].bridge = c)
  BY DEF ClientStep, HookStep, LoginEnds, TunnelMade, HookListen, HookSet, HookEmit, TunnelEnds,
         Types, StateRec
<1>5. listening' = listening \/ (listening' = listening \cup {c} /\ cl'[c].phase = "hookSet")
  BY PhaseEnters
  DEF ClientStep, HookStep, LoginEnds, TunnelMade, HookListen, HookSet, HookEmit, TunnelEnds,
      Enters
<1>6. Fresh'
  BY <1>1, ClientMoves DEF EndInv, Fresh
<1>7. Served'
  <2>1. \A d \in Client : cl'[d].st = cl[d].st /\ cl'[d].id = cl[d].id
                          /\ (cl'[d].phase = "unborn" <=> cl[d].phase = "unborn")
    BY <1>1, ClientMoves
  <2>2. \A d \in Client : cl[d].phase # "unborn" => cl[d].st \in State
    BY DEF Owned
  <2>3. \A s \in State : st[s].client \in Client \cup {Nil}
    BY DEF Types, StateRec
  <2>4. UNCHANGED <<fwd, table>>
    BY ClientMoves
  <2>5. \A d \in Client : fwd[d].at \in Ended => cl[d].phase # "unborn"
    BY DEF EndInv, Served
  <2>6. /\ \A d \in Client : fwd'[d].at = "none" <=> cl'[d].phase \in {"unborn", "new"}
        /\ \A d \in Client : fwd'[d].at \in Ended => cl'[d].phase = "closed" /\ cl'[d].q = <<>>
    BY <1>1, ClientMoves DEF EndInv, Served
  <2> QED BY <1>3, <2>1, <2>2, <2>3, <2>4, <2>5, <2>6 DEF EndInv, Served
<1>8. Listeners'
  <2>1. \A d \in Client : StopCloses(d) => StopCloses(d)'
    BY ClientMoves DEF StopCloses, At
  <2>2. ASSUME NEW d \in listening', d # c
        PROVE  /\ cl'[d].phase \in Listening
               /\ table'[cl'[d].id] = cl'[d].st =>
                    \/ cl'[d].phase = "hookSet"
                    \/ st'[cl'[d].st].bridge = d
                    \/ fwd'[d].at = "close" /\ fwd'[d].bridge = d
                    \/ StopCloses(d)'
    <3>1. d \in listening /\ d \in Client /\ cl'[d] = cl[d] /\ table' = table /\ fwd' = fwd
      BY <1>5, <2>2, ClientMoves DEF Types
    <3>2. cl[d].phase \in Listening
      BY <3>1 DEF EndInv, Listeners
    <3>3. cl[d].st \in State
      BY <3>1, <3>2 DEF Owned, Listening, Past
    <3>4. st[cl[d].st].bridge = d => st'[cl[d].st].bridge = d
      <4>1. d # Nil
        BY <3>1 DEF Client, Nil
      <4>2. st[cl[d].st].bridge = d => st[cl[d].st].client = d
        BY <3>3, <4>1 DEF Bridges
      <4>3. st[cl[d].st].bridge = d => cl[d].st # cl[c].st
        BY <1>2, <2>2, <4>2
      <4> QED BY <1>4, <3>3, <4>3
    <3> QED BY <2>1, <3>1, <3>2, <3>4 DEF EndInv, Listeners
  <2>3. ASSUME c \in listening'
        PROVE  /\ cl'[c].phase \in Listening
               /\ table'[cl'[c].id] = cl'[c].st =>
                    \/ cl'[c].phase = "hookSet"
                    \/ st'[cl'[c].st].bridge = c
                    \/ fwd'[c].at = "close" /\ fwd'[c].bridge = c
                    \/ StopCloses(c)'
    <3>1. CASE cl'[c].phase = "hookSet"
      BY <3>1 DEF Listening
    <3>2. CASE c \in listening /\ HookSet(c)
      <4>1. st'[cl[c].st].bridge = c
        BY <1>2, <3>2 DEF HookSet, Types, StateRec
      <4> QED BY <3>2, <4>1, ClientMoves DEF EndInv, Listeners, Listening
    <3>3. CASE c \in listening /\ ~HookSet(c) /\ cl'[c].phase # "hookSet"
      <4>1. cl[c].phase \in Listening /\ cl'[c].phase \in Past
        BY <3>3, ClientMoves DEF EndInv, Listeners
      <4>2. cl[c].phase # "hookSet"
        BY <3>3
        DEF ClientStep, HookStep, LoginEnds, TunnelMade, HookListen, HookSet, HookEmit,
            TunnelEnds
      <4>3. st'[cl[c].st].bridge = st[cl[c].st].bridge
        BY <1>2, <1>4, <3>3
      <4> QED BY <2>1, <3>3, <4>1, <4>2, <4>3, ClientMoves DEF EndInv, Listeners, Listening
    <3> QED BY <1>5, <2>3, <3>1, <3>2, <3>3
  <2>4. listening' \subseteq Client
    BY <1>5 DEF Types
  <2> QED BY <2>2, <2>3, <2>4 DEF Listeners, StopCloses, At
<1>9. LastWord'
  <2>1. \A d \in Client : d # c => cl'[d] = cl[d] /\ fwd'[d] = fwd[d]
    BY ClientMoves
  <2>2. cl'[c].phase = "closed" /\ ~cl'[c].lost
          => cl'[c].q # <<>> /\ cl'[c].q[Len(cl'[c].q)] # "connected"
    BY ClientMoves
  <2>3. (cl'[c].lost => cl'[c].phase = "closed") /\ cl'[c].phase # "unborn"
    BY ClientMoves
  <2> QED BY <2>1, <2>2, <2>3 DEF LastWord
<1>10. Shown'
  <2>1. \A d \in Client :
          Pending(d) \/ cl[d].lost \/ fwd[d].unheard
            => Pending(d)' \/ cl'[d].lost \/ fwd'[d].unheard
    BY ClientMoves DEF Pending, Live
  <2>2. \A d \in Client : cl'[d].id = cl[d].id
    BY ClientMoves
  <2>3. cl'[c].phase = "up" => Pending(c)'
    BY DEF Pending, Live
  <2> QED BY <2>1, <2>2, <2>3, ClientMoves DEF Shown
<1>11. Statuses'
  <2>1. /\ \A d \in Client : cl'[d].st = cl[d].st /\ cl'[d].id = cl[d].id
        /\ UNCHANGED <<table, states, fwd>>
    BY ClientMoves
  <2>2. Reading(c)
    BY <1>1 DEF Types, FwdRec, Reading, Ended
  <2>3. \A d \in Client, s \in State :
          WillTell(d) \/ WillReset(d, s) => WillTell(d)' \/ WillReset(d, s)'
    <3>1. WillTell(c)' \/ cl'[c].lost
      BY <2>1, <2>2, ClientMoves DEF WillTell, Reading
    <3> QED BY <2>1, <2>2, <3>1, ClientMoves DEF WillTell, WillReset, Reading
  <2>4. \A i \in Ids : table[i] \in State \cup {Nil}
    BY DEF Types
  <2> QED BY <1>0, <2>1, <2>3, <2>4 DEF Statuses
<1> QED
  BY <1>6, <1>7, <1>8, <1>9, <1>10, <1>11

\* Start gives a free tunnelState to a client of its own.
LEMMA StartKeepsEnd ==
  ASSUME Types, Queues, Owned, EndInv, NEW p \in Callers, StartTunnel(p)
  PROVE  EndInv'
<1>1. PICK c \in Client, s \in State :
        /\ c = clients + 1 /\ st[s].client = Nil /\ s = table[caller[p].id]
        /\ \A d \in Client : d # c => cl'[d] = cl[d]
        /\ cl'[c].phase = "new" /\ cl'[c].st = s /\ cl'[c].q = cl[c].q
        /\ cl'[c].lost = cl[c].lost
        /\ \A t \in State : t # s => st'[t] = st[t]
        /\ st'[s].client = c /\ st'[s].bridge = st[s].bridge
        /\ st'[s].connected = st[s].connected
  BY StartMakes
<1>2. cl[c].phase = "unborn" /\ c \notin listening /\ fwd[c].at = "none"
  <2>1. cl[c].phase = "unborn"
    BY <1>1 DEF Owned, Types
  <2> QED BY <2>1 DEF EndInv, Listeners, Listening, Past, Served
<1>3. UNCHANGED <<table, states, listening, fwd, shown>>
  BY DEF StartTunnel
<1>4. /\ caller[p].id \in Ids /\ \A d \in Client : d # Nil
      /\ \A d \in Client : cl[d].phase # "unborn" => cl[d].st \in State
      /\ \A q \in Callers \ {p} : caller'[q] = caller[q]
  BY StartMakes DEF Types, CallerRec, Client, Nil, Owned
<1>5. Fresh'
  BY <1>1, <1>3, <1>4 DEF EndInv, Fresh, State
<1>6. Served'
  <2>1. /\ \A d \in Client : fwd[d].at = "none" <=> cl'[d].phase \in {"unborn", "new"}
        /\ \A d \in Client : fwd[d].at \in Ended => cl'[d].phase = "closed" /\ cl'[d].q = <<>>
    BY <1>1, <1>2 DEF EndInv, Served, Ended
  <2>2. \A d \in Client : cl'[d].phase # "unborn" /\ fwd[d].at \notin Ended
          => st'[cl'[d].st].client = d
    <3>1. ASSUME NEW d \in Client, d # c, cl[d].phase # "unborn", fwd[d].at \notin Ended
          PROVE  cl[d].st \in State \ {s} /\ st[cl[d].st].client = d
      BY <1>1, <1>4, <3>1 DEF EndInv, Served
    <3> QED BY <1>1, <3>1
  <2>3. \A t \in State : st'[t].client # Nil =>
          cl'[st'[t].client].st = t /\ cl'[st'[t].client].phase # "unborn"
    <3>1. \A t \in State : st[t].client \in Client \cup {Nil}
      BY DEF Types, StateRec
    <3>2. \A t \in State : st[t].client # Nil => st[t].client # c
      BY <1>2 DEF EndInv, Served
    <3>3. ASSUME NEW t \in State, t # s, st'[t].client # Nil
          PROVE  cl'[st'[t].client].st = t /\ cl'[st'[t].client].phase # "unborn"
      <4>1. st'[t].client = st[t].client /\ st[t].client \in Client /\ st[t].client # c
        BY <1>1, <3>1, <3>2, <3>3
      <4>2. cl[st[t].client].st = t /\ cl[st[t].client].phase # "unborn"
        BY <3>3, <4>1 DEF EndInv, Served
      <4>3. cl'[st[t].client] = cl[st[t].client]
        BY <1>1, <4>1
      <4> QED BY <4>1, <4>2, <4>3
    <3> QED BY <1>1, <3>3
  <2>4. \A d \in Client : fwd[d].at \in Ended /\ table[cl'[d].id] = cl'[d].st
          => st'[cl'[d].st].client # d
    <3>1. \A d \in Client : fwd[d].at \in Ended => d # c /\ cl[d].phase # "unborn"
      BY <1>2 DEF EndInv, Served, Ended
    <3> QED BY <1>1, <1>4, <3>1 DEF EndInv, Served
  <2> QED BY <1>3, <2>1, <2>2, <2>3, <2>4 DEF Served
<1>7. Listeners'
  <2>1. \A d \in Client : StopCloses(d) => StopCloses(d)'
    <3>1. \A q \in Callers : At(q, "closeBridge") => caller'[q] = caller[q]
      BY <1>4 DEF At, StartTunnel
    <3> QED BY <3>1 DEF StopCloses, At
  <2>2. \A d \in listening : d \in Client /\ cl'[d] = cl[d] /\ cl[d].st \in State
    BY <1>1, <1>2, <1>4 DEF Types, EndInv, Listeners, Listening, Past
  <2>3. \A t \in State : st'[t].bridge = st[t].bridge
    BY <1>1
  <2> QED BY <1>3, <2>1, <2>2, <2>3 DEF EndInv, Listeners
<1>8. LastWord'
  BY <1>1, <1>2, <1>3 DEF EndInv, LastWord
<1>9. Shown'
  <2>1. \A d \in Client : Pending(d) => Pending(d)' /\ (d = c \/ cl'[d].id = cl[d].id)
    BY <1>1, <1>2, <1>3 DEF Pending, Live
  <2>2. ~Pending(c)
    <3>1. cl[c].q \in Seq(Event) /\ Len(cl[c].q) = 0
      BY <1>2 DEF Types, ClientRec, Queues
    <3>2. cl[c].q = <<>>
      BY <3>1
    <3> QED BY <1>2, <3>2 DEF Pending, Live
  <2>3. ~cl[c].lost /\ ~fwd[c].unheard
    BY <1>2 DEF EndInv, LastWord
  <2> QED BY <1>1, <1>3, <2>1, <2>2, <2>3 DEF EndInv, Shown
<1>10. Statuses'
  <2>1. ~WillTell(c) /\ ~cl[c].lost
    BY <1>2 DEF EndInv, LastWord, WillTell, Reading
  <2>2. \A d \in Client, t \in State : WillTell(d) \/ WillReset(d, t)
          => d # c /\ (WillTell(d)' \/ WillReset(d, t)')
    BY <1>1, <1>3, <2>1 DEF WillTell, WillReset, Reading
  <2>3. \A i \in Ids : table[i] \in State \cup {Nil}
    BY DEF Types
  <2>4. \A t \in State : st'[t].connected = st[t].connected
    BY <1>1
  <2> QED BY <1>1, <1>3, <2>2, <2>3, <2>4 DEF EndInv, Statuses
<1> QED
  BY <1>5, <1>6, <1>7, <1>8, <1>9, <1>10 DEF EndInv

\* Connect starts the forwardEvents of its client.
LEMMA ConnectKeepsEnd ==
  ASSUME Types, Owned, Joining, EndInv, NEW p \in Callers, ConnectClient(p)
  PROVE  EndInv'
<1> DEFINE c == caller[p].client
<1>1. c \in Client /\ cl[c].phase = "new"
  BY DEF ConnectClient, Joining
<1>2. Enters(c, "login") /\ cl'[c].q = cl[c].q /\ cl'[c].lost = cl[c].lost
  BY <1>1, PhaseEnters DEF ConnectClient
<1>3. /\ \A d \in Client : d # c => fwd'[d] = fwd[d]
      /\ fwd'[c].at = "read" /\ fwd[c].at = "none" /\ fwd'[c].unheard = fwd[c].unheard
  BY <1>1 DEF ConnectClient, Types, FwdRec, EndInv, Served
<1>4. UNCHANGED <<table, st, states, listening, shown>>
  BY DEF ConnectClient
<1>5. \A q \in Callers : At(q, "closeBridge") => caller'[q] = caller[q]
  BY CallerMoves DEF Moves, At, ConnectClient
<1> HIDE DEF c
<1>6. Fresh'
  BY <1>1, <1>2, <1>4 DEF EndInv, Fresh, Enters
<1>7. Served'
  <2>1. \A s \in State : st[s].client \in Client \cup {Nil}
    BY DEF Types, StateRec
  <2> QED BY <1>1, <1>2, <1>3, <1>4, <2>1 DEF EndInv, Served, Enters, Ended
<1>8. Listeners'
  <2>1. \A d \in Client : StopCloses(d) => StopCloses(d)'
    BY <1>5 DEF StopCloses, At
  <2>2. \A d \in listening : d \in Client /\ d # c
    BY <1>1 DEF Types, EndInv, Listeners, Listening, Past
  <2> QED BY <1>2, <1>3, <1>4, <2>1, <2>2 DEF EndInv, Listeners, Enters
<1>9. LastWord'
  BY <1>1, <1>2, <1>3 DEF EndInv, LastWord, Enters
<1>10. Shown'
  <2>1. \A d \in Client : Pending(d) \/ cl[d].lost \/ fwd[d].unheard
          => (Pending(d)' \/ cl'[d].lost \/ fwd'[d].unheard) /\ cl'[d].id = cl[d].id
    BY <1>1, <1>2, <1>3 DEF Pending, Live, Enters
  <2> QED BY <1>4, <2>1 DEF EndInv, Shown
<1>11. Statuses'
  <2>1. \A d \in Client, s \in State : WillTell(d) \/ WillReset(d, s)
          => (WillTell(d)' \/ WillReset(d, s)') /\ cl'[d].id = cl[d].id
    BY <1>1, <1>2, <1>3 DEF WillTell, WillReset, Reading, Enters
  <2>2. \A i \in Ids : table[i] \in State \cup {Nil}
    BY DEF Types
  <2> QED BY <1>4, <2>1, <2>2 DEF EndInv, Statuses
<1> QED
  BY <1>6, <1>7, <1>8, <1>9, <1>10, <1>11 DEF EndInv

\* Stop takes the bridge out of the tunnelState and answers for it until it is
\* closed.
LEMMA StopKeepsEnd ==
  ASSUME Types, Bridges, EndInv, NEW p \in Callers, StopTunnel(p) \/ StopBridge(p)
  PROVE  EndInv'
<1>1. UNCHANGED <<table, states, cl, fwd, shown>>
  BY DEF StopTunnel, StopBridge
<1>2. \A s \in State : st'[s].client = st[s].client /\ st'[s].connected = st[s].connected
  BY DEF StopTunnel, StopBridge, Types, StateRec
<1>3. Fresh'
  BY <1>1 DEF EndInv, Fresh
<1>4. Served'
  <2>1. \A d \in Client : cl[d].phase # "unborn" => cl[d].st \in State
    BY BoundAssumption DEF EndInv, Fresh, Types, State
  <2>2. \A d \in Client : fwd[d].at \in Ended => cl[d].phase # "unborn"
    BY DEF EndInv, Served
  <2> QED BY <1>1, <1>2, <2>1, <2>2 DEF EndInv, Served
<1>5. LastWord' /\ Shown'
  BY <1>1 DEF EndInv, LastWord, Shown, Pending, Live
<1>6. Listeners'
  <2>1. \A d \in listening : d \in Client /\ cl[d].st \in State /\ d # Nil
    <3>1. \A d \in listening : d \in Client /\ cl[d].phase # "unborn"
      BY DEF Types, EndInv, Listeners, Listening, Past
    <3> QED BY <3>1, BoundAssumption DEF EndInv, Fresh, Types, State, Client, Nil
  <2>2. CASE StopTunnel(p)
    <3> DEFINE s == table[caller[p].id]
    <3>1. s \in State
      BY <2>2 DEF StopTunnel, Types, CallerRec
    <3>2. /\ \A q \in Callers \ {p} : caller'[q] = caller[q]
          /\ caller'[p].bridge = st[s].bridge /\ caller'[p].at = "closeBridge"
          /\ caller[p].at = "stop"
      BY <2>2 DEF StopTunnel, Types, CallerRec, At
    <3>3. \A t \in State : t # s => st'[t] = st[t]
      BY <2>2, <3>1 DEF StopTunnel, Types
    <3>4. listening' = listening
      BY <2>2 DEF StopTunnel
    <3> HIDE DEF s
    <3>5. \A d \in Client : StopCloses(d) => StopCloses(d)'
      BY <3>2 DEF StopCloses, At
    <3>6. \A d \in listening : st[cl[d].st].bridge = d
            => st'[cl[d].st].bridge = d \/ StopCloses(d)'
      <4>1. ASSUME NEW d \in listening, st[cl[d].st].bridge = d, cl[d].st = s
            PROVE  StopCloses(d)'
        <5>1. At(p, "closeBridge")' /\ caller'[p].bridge = d
          BY <3>2, <4>1 DEF At
        <5> QED BY <5>1 DEF StopCloses
      <4>2. ASSUME NEW d \in listening, st[cl[d].st].bridge = d, cl[d].st # s
            PROVE  st'[cl[d].st].bridge = d
        BY <2>1, <3>3, <4>2
      <4> QED BY <4>1, <4>2
    <3> QED BY <1>1, <2>1, <3>4, <3>5, <3>6 DEF EndInv, Listeners
  <2>3. CASE StopBridge(p)
    <3>1. Moves(p) /\ listening' = listening \ {caller[p].bridge} /\ st' = st
      BY <2>3, CallerMoves DEF StopBridge
    <3>2. ASSUME NEW d \in listening', StopCloses(d)
          PROVE  StopCloses(d)'
      <4>1. PICK q \in Callers : At(q, "closeBridge") /\ caller[q].bridge = d
        BY <3>2 DEF StopCloses
      <4>2. q # p
        BY <3>1, <4>1
      <4>3. At(q, "closeBridge")' /\ caller'[q].bridge = d
        BY <3>1, <4>1, <4>2 DEF At, Moves
      <4> QED BY <4>3 DEF StopCloses
    <3> QED BY <1>1, <3>1, <3>2 DEF EndInv, Listeners
  <2> QED BY <2>2, <2>3
<1>7. Statuses'
  <2>1. \A i \in Ids : table[i] \in State \cup {Nil}
    BY DEF Types
  <2> QED BY <1>1, <1>2, <2>1 DEF EndInv, Statuses, WillTell, WillReset, Reading
<1> QED
  BY <1>3, <1>4, <1>5, <1>6, <1>7 DEF EndInv

\* Taking the oldest of several events leaves the last one the last.
LEMMA TailLast ==
  ASSUME NEW q \in Seq(Event), q # <<>>, Tail(q) # <<>>
  PROVE  Tail(q)[Len(Tail(q))] = q[Len(q)]
<1> DEFINE n == Len(q) - 1
<1>1. Tail(q) \in Seq(Event) /\ Len(Tail(q)) = n /\ Len(q) \in Nat
  OBVIOUS
<1>2. n # 0
  BY <1>1
<1>3. n \in 1..Len(q) - 1
  BY <1>1, <1>2
<1>4. Tail(q)[n] = q[n + 1]
  BY <1>1, <1>3
<1>5. n + 1 = Len(q)
  BY <1>1
<1> QED
  BY <1>1, <1>4, <1>5

\* forwardEvents takes an event and passes it on.
LEMMA ReadKeepsEnd ==
  ASSUME Types, Owned, EndInv, NEW c \in Client, ForwardRead(c) \/ ForwardEmit(c)
  PROVE  EndInv'
<1>1. UNCHANGED <<table, states, listening, caller>>
  BY DEF ForwardRead, ForwardEmit
<1>2. \A s \in State : st'[s].client = st[s].client /\ st'[s].bridge = st[s].bridge
  <2>1. CASE ForwardRead(c)
    BY <2>1 DEF ForwardRead, Types, StateRec
  <2>2. CASE ForwardEmit(c)
    BY <2>2 DEF ForwardEmit
  <2> QED BY <2>1, <2>2
<1>3. \A d \in Client : /\ cl'[d].phase = cl[d].phase /\ cl'[d].st = cl[d].st
                        /\ cl'[d].id = cl[d].id /\ cl'[d].lost = cl[d].lost
  <2>1. CASE ForwardRead(c)
    BY <2>1 DEF ForwardRead, Types, ClientRec
  <2>2. CASE ForwardEmit(c)
    BY <2>2 DEF ForwardEmit
  <2> QED BY <2>1, <2>2
<1>4. \A d \in Client : d # c => cl'[d] = cl[d] /\ fwd'[d] = fwd[d]
  BY DEF ForwardRead, ForwardEmit, Types
<1>5. fwd[c].at \in {"read", "emit"} /\ fwd'[c].at \in {"read", "emit"}
  BY DEF ForwardRead, ForwardEmit, Types, FwdRec
<1>6. \A d \in Client : cl[d].phase # "unborn" => cl[d].st \in State
  BY DEF Owned
<1>7. Fresh'
  BY <1>1, <1>3 DEF EndInv, Fresh
<1>8. Served'
  <2>1. \A s \in State : st[s].client \in Client \cup {Nil}
    BY DEF Types, StateRec
  <2>2. /\ \A d \in Client : fwd'[d].at = "none" <=> cl'[d].phase \in {"unborn", "new"}
        /\ \A d \in Client : fwd'[d].at \in Ended => cl'[d].phase = "closed" /\ cl'[d].q = <<>>
    BY <1>3, <1>4, <1>5 DEF EndInv, Served, Ended
  <2>3. \A d \in Client : fwd'[d].at \in Ended <=> fwd[d].at \in Ended
    BY <1>4, <1>5 DEF Ended
  <2>4. \A d \in Client : fwd[d].at \in Ended => cl[d].phase # "unborn"
    BY DEF EndInv, Served
  <2> QED BY <1>1, <1>2, <1>3, <1>6, <2>1, <2>2, <2>3, <2>4 DEF EndInv, Served
<1>9. Listeners'
  <2>1. \A d \in listening : d \in Client /\ cl[d].st \in State
    BY <1>6 DEF Types, EndInv, Listeners, Listening, Past
  <2>2. \A d \in Client : fwd[d].at = "close" => fwd'[d] = fwd[d]
    BY <1>4, <1>5
  <2> QED BY <1>1, <1>2, <1>3, <2>1, <2>2 DEF EndInv, Listeners, StopCloses, At
<1>10. CASE ForwardRead(c)
  <2>1. cl[c] \in ClientRec /\ cl[c].q \in Seq(Event) /\ cl[c].q # <<>>
    BY <1>10 DEF Types, ClientRec, ForwardRead
  <2>2. /\ cl'[c].q = Tail(cl[c].q) /\ shown' = shown /\ fwd'[c].unheard = fwd[c].unheard
        /\ fwd'[c].at = "emit" /\ fwd'[c].ev = Head(cl[c].q)
    BY <1>10, <2>1 DEF ForwardRead, Types, ClientRec, FwdRec
  <2>3. cl[c].phase # "unborn"
    BY <1>5 DEF EndInv, Served
  <2>4. Tail(cl[c].q) = <<>> => Head(cl[c].q) = cl[c].q[Len(cl[c].q)]
    <3>1. Len(Tail(cl[c].q)) = Len(cl[c].q) - 1 /\ Len(cl[c].q) \in Nat
      BY <2>1
    <3>2. ASSUME Tail(cl[c].q) = <<>> PROVE Len(cl[c].q) = 1
      <4>1. \A t : t = <<>> => Len(t) = 0
        OBVIOUS
      <4>2. Len(Tail(cl[c].q)) = 0
        BY <3>2, <4>1, Zenon
      <4> QED BY <3>1, <4>2
    <3>3. Head(cl[c].q) = cl[c].q[1]
      BY <2>1
    <3> QED BY <3>2, <3>3
  <2>5. cl[c].phase = "closed" /\ ~cl[c].lost => cl[c].q[Len(cl[c].q)] # "connected"
    BY <2>1 DEF EndInv, LastWord
  <2>6. LastWord'
    <3>1. Tail(cl[c].q) # <<>> => Tail(cl[c].q)[Len(Tail(cl[c].q))] = cl[c].q[Len(cl[c].q)]
      BY <2>1, TailLast
    <3>2. cl'[c].phase = "closed" /\ ~cl'[c].lost =>
            /\ cl'[c].q # <<>> => cl'[c].q[Len(cl'[c].q)] # "connected"
            /\ cl'[c].q = <<>> /\ fwd'[c].at = "emit" => fwd'[c].ev # "connected"
      BY <1>3, <2>2, <2>4, <2>5, <3>1
    <3> QED BY <1>3, <1>4, <2>3, <3>2 DEF EndInv, LastWord
  <2>7. Shown'
    <3>1. \A d \in Client : Pending(d) \/ cl[d].lost \/ fwd[d].unheard
            => Pending(d)' \/ cl'[d].lost \/ fwd'[d].unheard
      BY <1>3, <1>4, <2>2 DEF Pending, Live
    <3> QED BY <1>3, <2>2, <3>1 DEF EndInv, Shown
  <2>8. Statuses'
    <3> DEFINE s == table[cl[c].id]
    <3>1. cl[c].id \in Ids /\ s \in State \cup {Nil} /\ (s # Nil => s <= states)
      BY <2>1 DEF Types, ClientRec, EndInv, Fresh
    <3>2. \A t \in State : t # s => st'[t].connected = st[t].connected
      BY <1>10 DEF ForwardRead, Types
    <3>3. s # Nil => (st'[s].connected <=> Head(cl[c].q) = "connected")
      BY <1>10, <3>1 DEF ForwardRead, Types, StateRec
    <3> HIDE DEF s
    <3>4. ~ (\E t \in State : t > states' /\ st'[t].connected)
      BY <1>1, <3>1, <3>2 DEF EndInv, Statuses, Types, State, Nil
    <3>5. \A d \in Client, t \in State : d # c /\ (WillTell(d) \/ WillReset(d, t))
            => WillTell(d)' \/ WillReset(d, t)'
      BY <1>4 DEF WillTell, WillReset, Reading
    <3>6. cl'[c].lost => \A t \in State : WillReset(c, t)'
      BY <1>5 DEF WillReset, Reading
    <3>7. Head(cl[c].q) = "connected" => WillTell(c)' \/ cl'[c].lost
      BY <1>3, <1>5, <2>2, <2>4, <2>5 DEF WillTell, Reading
    <3>8. ASSUME NEW i \in Ids, table'[i] # Nil, st'[table'[i]].connected
          PROVE  \E d \in Client :
                   /\ cl'[d].id = i
                   /\ \/ WillTell(d)'
                      \/ cl'[d].lost /\ (Reading(d)' \/ cl'[d].st # table'[i])
      <4>1. table'[i] = table[i] /\ table[i] \in State
        BY <1>1, <3>8 DEF Types
      <4>2. CASE i = cl[c].id
        <5>1. Head(cl[c].q) = "connected"
          BY <1>1, <3>1, <3>3, <3>8, <4>1, <4>2 DEF s
        <5> QED BY <1>3, <3>6, <3>7, <4>1, <4>2, <5>1 DEF WillReset
      <4>3. CASE i # cl[c].id /\ table[i] = s
        BY <3>1, <3>8, <4>1, <4>3 DEF EndInv, Fresh, s
      <4>4. CASE i # cl[c].id /\ table[i] # s
        <5>1. PICK d \in Client : cl[d].id = i /\ (WillTell(d) \/ WillReset(d, table[i]))
          BY <3>2, <3>8, <4>1, <4>4 DEF EndInv, Statuses
        <5> QED BY <1>3, <3>5, <4>1, <4>4, <5>1 DEF WillReset
      <4> QED BY <4>2, <4>3, <4>4
    <3> QED BY <3>4, <3>8 DEF Statuses, WillReset
  <2> QED BY <1>7, <1>8, <1>9, <2>6, <2>7, <2>8 DEF EndInv
<1>11. CASE ForwardEmit(c)
  <2>1. /\ cl' = cl /\ st' = st /\ fwd[c].at = "emit" /\ fwd'[c].at = "read"
        /\ \A i \in Ids : i # cl[c].id => shown'[i] = shown[i]
        /\ cl[c].id \in Ids /\ cl[c].phase # "unborn"
    BY <1>11 DEF ForwardEmit, Types, ClientRec, FwdRec, EndInv, Served
  <2>2. \/ shown'[cl[c].id] = fwd[c].ev /\ fwd'[c].unheard = fwd[c].unheard
        \/ shown' = shown /\ fwd'[c].unheard = (fwd[c].ev # "connected")
    BY <1>11, <2>1 DEF ForwardEmit, Types, FwdRec
  <2>3. LastWord'
    BY <1>4, <2>1 DEF EndInv, LastWord
  <2>4. Shown'
    <3>1. \A d \in Client : d # c /\ (Pending(d) \/ cl[d].lost \/ fwd[d].unheard)
            => Pending(d)' \/ cl'[d].lost \/ fwd'[d].unheard
      BY <1>4, <2>1 DEF Pending, Live
    <3>2. fwd[c].ev = "connected" => Pending(c)' \/ cl'[c].lost
      BY <2>1 DEF EndInv, LastWord, Pending, Live
    <3>3. ASSUME NEW i \in Ids, shown'[i] = "connected"
          PROVE  \E d \in Client : cl'[d].id = i /\ (Pending(d)' \/ cl'[d].lost \/ fwd'[d].unheard)
      <4>1. CASE i = cl[c].id /\ fwd[c].ev = "connected"
        BY <2>1, <3>2, <4>1
      <4>2. CASE i = cl[c].id /\ fwd[c].ev # "connected"
        BY <2>1, <2>2, <3>3, <4>2
      <4>3. CASE i # cl[c].id
        BY <2>1, <3>1, <3>3, <4>3 DEF EndInv, Shown
      <4> QED BY <4>1, <4>2, <4>3
    <3> QED BY <3>3 DEF Shown, Pending, Live
  <2>5. Statuses'
    <3>1. \A d \in Client : Reading(d)' <=> Reading(d)
      BY <1>4, <1>5 DEF Reading
    <3> QED BY <1>1, <2>1, <3>1 DEF EndInv, Statuses, WillTell, WillReset
  <2> QED BY <1>7, <1>8, <1>9, <2>3, <2>4, <2>5 DEF EndInv
<1> QED
  BY <1>10, <1>11

\* At the end of its channel forwardEvents frees the tunnelState of its client,
\* if that is still the registered one, and answers for its bridge.
LEMMA EndKeepsEnd ==
  ASSUME Types, Owned, Bridges, EndInv, NEW c \in Client, ForwardEnd(c)
  PROVE  EndInv'
<1> DEFINE s == table[cl[c].id]
           mine == s # Nil /\ st[s].client = c
<1>1. UNCHANGED <<table, states, cl, listening, shown, caller>>
  BY DEF ForwardEnd
<1>2. /\ fwd[c].at = "read" /\ cl[c].q = <<>> /\ cl[c].phase = "closed"
      /\ \A d \in Client : d # c => fwd'[d] = fwd[d]
      /\ fwd'[c].at = "close" /\ fwd'[c].bridge = IF mine THEN st[s].bridge ELSE Nil
      /\ fwd'[c].unheard = fwd[c].unheard
  BY DEF ForwardEnd, Types, FwdRec
<1>3. s \in State \cup {Nil} /\ cl[c].st \in State /\ st[cl[c].st].client = c
  BY <1>2 DEF Types, ClientRec, EndInv, Served, Owned, Ended
<1>4. c # Nil /\ \A t \in State : st[t].client \in Client \cup {Nil}
  BY DEF Types, StateRec, Client, Nil
<1>5. mine => s = cl[c].st /\ s \in State
  BY <1>3, <1>4 DEF EndInv, Served
<1>6. s = cl[c].st => mine
  BY <1>3 DEF State, Nil
<1>7. \A t \in State : t # cl[c].st \/ ~mine => st'[t] = st[t]
  BY <1>5 DEF ForwardEnd, Types
<1>8. mine => st'[cl[c].st].client = Nil /\ ~st'[cl[c].st].connected
  BY <1>5 DEF ForwardEnd, Types, NewState
<1>9. fwd'[c].bridge = IF mine THEN st[cl[c].st].bridge ELSE Nil
  BY <1>2, <1>5
<1>10. \A d \in Client : cl[d].phase # "unborn" => cl[d].st \in State
  BY DEF Owned
<1>11. s = table[cl[c].id]
  OBVIOUS
<1> HIDE DEF s, mine
<1>12. Fresh'
  BY <1>1 DEF EndInv, Fresh
<1>13. Served'
  <2>1. /\ \A d \in Client : fwd'[d].at = "none" <=> cl'[d].phase \in {"unborn", "new"}
        /\ \A d \in Client : fwd'[d].at \in Ended => cl'[d].phase = "closed" /\ cl'[d].q = <<>>
    BY <1>1, <1>2 DEF EndInv, Served, Ended
  <2>2. \A d \in Client : cl[d].phase # "unborn" /\ fwd'[d].at \notin Ended
          => st'[cl[d].st].client = d
    <3>1. ASSUME NEW d \in Client, cl[d].phase # "unborn", fwd'[d].at \notin Ended
          PROVE  st'[cl[d].st].client = d
      <4>1. d # c /\ fwd[d].at \notin Ended
        BY <1>2, <3>1 DEF Ended
      <4>2. st[cl[d].st].client = d /\ cl[d].st \in State
        BY <1>10, <3>1, <4>1 DEF EndInv, Served
      <4>3. cl[d].st # cl[c].st
        BY <1>3, <4>1, <4>2
      <4> QED BY <1>7, <4>2, <4>3
    <3> QED BY <3>1
  <2>3. \A t \in State : st'[t].client # Nil => st'[t].client = st[t].client
    BY <1>7, <1>8
  <2>4. \A t \in State : st'[t].client # Nil =>
          cl[st'[t].client].st = t /\ cl[st'[t].client].phase # "unborn"
    BY <2>3 DEF EndInv, Served
  <2>5. ASSUME NEW d \in Client, fwd'[d].at \in Ended, table[cl[d].id] = cl[d].st
        PROVE  st'[cl[d].st].client # d
    <3>1. CASE d = c
      BY <1>4, <1>6, <1>8, <1>11, <2>5, <3>1
    <3>2. CASE d # c
      <4>1. fwd[d].at \in Ended /\ cl[d].phase # "unborn" /\ d # Nil
        BY <1>2, <2>5, <3>2 DEF EndInv, Served, Client, Nil
      <4>2. st[cl[d].st].client # d /\ cl[d].st \in State
        BY <1>10, <2>5, <4>1 DEF EndInv, Served
      <4> QED BY <2>3, <4>1, <4>2
    <3> QED BY <3>1, <3>2
  <2> QED BY <1>1, <2>1, <2>2, <2>4, <2>5 DEF Served
<1>14. Listeners'
  <2>1. ASSUME NEW d \in listening, table[cl[d].id] = cl[d].st, st[cl[d].st].bridge = d
        PROVE  \/ st'[cl[d].st].bridge = d
               \/ fwd'[d].at = "close" /\ fwd'[d].bridge = d
    <3>1. d \in Client /\ cl[d].st \in State /\ d # Nil
      BY <1>10 DEF Types, EndInv, Listeners, Listening, Past, Client, Nil
    <3>2. st[cl[d].st].client = d
      BY <2>1, <3>1 DEF Bridges
    <3>3. CASE cl[d].st = cl[c].st /\ mine
      BY <1>2, <1>3, <1>9, <2>1, <3>2, <3>3
    <3>4. CASE ~(cl[d].st = cl[c].st /\ mine)
      BY <1>7, <2>1, <3>1, <3>4
    <3> QED BY <3>3, <3>4
  <2>2. \A d \in Client : fwd[d].at = "close" => fwd'[d] = fwd[d]
    BY <1>2
  <2>3. listening \subseteq Client
    BY DEF Types
  <2> QED BY <1>1, <2>1, <2>2, <2>3 DEF EndInv, Listeners, StopCloses, At
<1>15. LastWord' /\ Shown'
  BY <1>1, <1>2 DEF EndInv, LastWord, Shown, Pending, Live
<1>16. Statuses'
  <2>1. \A t \in State : st'[t].connected => st[t].connected /\ ~(mine /\ t = cl[c].st)
    BY <1>3, <1>7, <1>8
  <2>2. ASSUME NEW i \in Ids, table[i] # Nil, st'[table[i]].connected
        PROVE  \E d \in Client : cl[d].id = i /\ (WillTell(d)' \/ WillReset(d, table[i])')
    <3>1. table[i] \in State
      BY <2>2 DEF Types
    <3>2. PICK d \in Client : cl[d].id = i /\ (WillTell(d) \/ WillReset(d, table[i]))
      BY <2>1, <2>2, <3>1 DEF EndInv, Statuses
    <3>3. CASE d # c
      BY <1>1, <1>2, <3>2, <3>3 DEF WillTell, WillReset, Reading
    <3>4. CASE d = c
      <4>1. cl[c].lost /\ s = table[i]
        BY <1>2, <1>11, <3>2, <3>4 DEF WillTell, WillReset
      <4>2. cl[c].st # table[i]
        BY <1>6, <2>1, <2>2, <3>1, <4>1
      <4> QED BY <1>1, <3>2, <3>4, <4>1, <4>2 DEF WillReset
    <3> QED BY <3>3, <3>4
  <2> QED BY <1>1, <2>1, <2>2 DEF EndInv, Statuses, WillTell, WillReset, Reading
<1> QED
  BY <1>12, <1>13, <1>14, <1>15, <1>16 DEF EndInv

\* forwardEvents closes the bridge it took.
LEMMA CloseKeepsEnd ==
  ASSUME Types, EndInv, NEW c \in Client, ForwardClose(c)
  PROVE  EndInv'
<1>1. UNCHANGED <<table, st, states, cl, shown, caller>>
  BY DEF ForwardClose
<1>2. /\ fwd[c].at = "close" /\ fwd'[c].at = "done"
      /\ \A d \in Client : d # c => fwd'[d] = fwd[d]
      /\ fwd'[c].unheard = fwd[c].unheard /\ listening' = listening \ {fwd[c].bridge}
  BY DEF ForwardClose, Types, FwdRec
<1>3. Fresh'
  BY <1>1 DEF EndInv, Fresh
<1>4. Served'
  BY <1>1, <1>2 DEF EndInv, Served, Ended
<1>5. Listeners'
  <2>1. listening \subseteq Client
    BY DEF Types
  <2> QED BY <1>1, <1>2, <2>1 DEF EndInv, Listeners, StopCloses, At
<1>6. LastWord' /\ Shown'
  BY <1>1, <1>2 DEF EndInv, LastWord, Shown, Pending, Live
<1>7. Statuses'
  <2>1. \A d \in Client : Reading(d)' <=> Reading(d)
    BY <1>2 DEF Reading
  <2> QED BY <1>1, <2>1 DEF EndInv, Statuses, WillTell, WillReset
<1> QED
  BY <1>3, <1>4, <1>5, <1>6, <1>7 DEF EndInv

\* Every step keeps the invariant of the end of a client.
LEMMA EndStep == Inv /\ EndInv /\ [Next]_vars => EndInv'
<1> SUFFICES ASSUME Inv, EndInv, [Next]_vars PROVE EndInv'
  OBVIOUS
<1>t. Types /\ Queues /\ Owned /\ Joining /\ Bridges /\ Types'
  BY TypesStep DEF Inv
<1>n. /\ states \in Nat /\ states' \in Nat /\ \A i \in Ids : table[i] <= states
      /\ \A i, j \in Ids : table[i] = table[j] /\ table[i] # Nil => i = j
  BY <1>t DEF Types, EndInv, Fresh
<1>1. ASSUME NEW p \in Callers,
             \/ Call(p) \/ LoopNext(p) \/ AddTunnel(p) \/ SwapTunnels(p) \/ StartRefused(p)
             \/ StopRefused(p) \/ StopClient(p)
      PROVE  EndInv'
  <2>1. \A c \in Client : /\ cl'[c].phase = cl[c].phase /\ cl'[c].st = cl[c].st
                          /\ cl'[c].id = cl[c].id /\ cl'[c].q = cl[c].q
                          /\ cl'[c].lost = cl[c].lost
    BY <1>1, <1>t, StopMarks
    DEF Call, LoopNext, AddTunnel, SwapTunnels, StartRefused, StopRefused
  <2>2. st' = st /\ fwd' = fwd /\ listening' = listening
    BY <1>1
    DEF Call, LoopNext, AddTunnel, SwapTunnels, StartRefused, StopRefused, StopClient
  <2>3. \A i \in Ids : shown'[i] = "connected" => shown[i] = "connected"
    BY <1>1, <1>t
    DEF Call, LoopNext, AddTunnel, SwapTunnels, StartRefused, StopRefused, StopClient, Report,
        Types
  <2>4. \A q \in Callers : At(q, "closeBridge") => caller'[q] = caller[q]
    <3>1. Moves(p)
      BY <1>1, <1>t, CallerMoves
    <3>2. ~At(p, "closeBridge")
      BY <1>1
      DEF Call, LoopNext, AddTunnel, SwapTunnels, StartRefused, StopRefused, StopClient, At
    <3> QED BY <3>1, <3>2 DEF Moves
  <2>5. /\ states <= states'
        /\ \A i \in Ids : /\ table'[i] = table[i] \/ table'[i] = Nil \/ table'[i] > states
                          /\ table'[i] <= states'
        /\ \A i, j \in Ids : table'[i] = table'[j] /\ table'[i] # Nil => i = j
    <3>1. CASE AddTunnel(p) \/ SwapTunnels(p)
      BY <1>t, <3>1, TableStep DEF EndInv
    <3>2. CASE UNCHANGED <<table, states>>
      BY <1>n, <3>2
    <3> QED
      BY <1>1, <3>1, <3>2 DEF Call, LoopNext, StartRefused, StopRefused, StopClient
  <2>6. \A i \in Ids : table'[i] \in State \cup {Nil}
    BY <1>t DEF Types
  <2> QED BY <1>n, <1>t, <2>1, <2>2, <2>3, <2>4, <2>5, <2>6, QuietKeepsEnd
<1>2. ASSUME NEW p \in Callers,
             StartTunnel(p) \/ ConnectClient(p) \/ StopTunnel(p) \/ StopBridge(p)
      PROVE  EndInv'
  BY <1>2, <1>t, StartKeepsEnd, ConnectKeepsEnd, StopKeepsEnd
<1>3. ASSUME NEW c \in Client, ClientStep(c) \/ ForwardStep(c) PROVE EndInv'
  BY <1>3, <1>t, ClientKeepsEnd, ReadKeepsEnd, EndKeepsEnd, CloseKeepsEnd DEF ForwardStep
<1>4. CASE UNCHANGED vars
  <2>1. \A i \in Ids : table'[i] \in State \cup {Nil}
    BY <1>t DEF Types
  <2> QED BY <1>4, <1>n, <1>t, <2>1, QuietKeepsEnd DEF vars
<1> QED
  BY <1>1, <1>2, <1>3, <1>4 DEF Next, CallStep

\* A client that has finished has nothing more to say, whatever it lost.
LEMMA Finished ==
  ASSUME Inv, EndInv, AllFinished, NEW c \in Client
  PROVE  ~Pending(c) /\ ~Reading(c)
<1>1. cl[c].q \in Seq(Event)
  BY DEF Inv, Types, ClientRec
<1>2. CASE cl[c].phase = "unborn"
  <2>1. Len(cl[c].q) = 0 /\ fwd[c].at = "none"
    BY <1>2 DEF Inv, Queues, EndInv, Served
  <2>2. cl[c].q = <<>>
    BY <1>1, <2>1
  <2> QED BY <1>2, <2>1, <2>2 DEF Pending, Live, Reading
<1>3. CASE fwd[c].at \in {"close", "done"}
  BY <1>3 DEF EndInv, Served, Ended, Pending, Live, Reading
<1> QED
  BY <1>2, <1>3 DEF AllFinished

\* When all clients are finished a tunnel is shown as connected only if the last
\* word of one of its clients was dropped on its way to the frontend, in whatever
\* order hooks, forwardEvents and StartAll report (both emits, manager.go Start).
THEOREM ShownCorrect == Spec => []ShownSettles
<1>1. Inv /\ EndInv => ShownSettles
  BY Finished DEF ShownSettles, EndInv, Shown
<1> QED BY <1>1, InvHolds, EndInit, EndStep, PTL DEF Spec

\* When all clients are finished Status() calls a tunnel connected only if a client
\* of a tunnelState replaced since lost its last word: every other lost word is
\* made up for by the end of forwardEvents (manager.go forwardEvents).
THEOREM StatusCorrect == Spec => []StatusSettles
<1>1. Inv /\ EndInv => StatusSettles
  BY Finished DEF StatusSettles, EndInv, Statuses, WillTell, WillReset
<1> QED BY <1>1, InvHolds, EndInit, EndStep, PTL DEF Spec

\* A finished client whose tunnelState is still registered leaves no listener that
\* nobody is about to close (manager.go Stop, forwardEvents).
THEOREM ListenerCorrect == Spec => []NoListenerLeft
<1>1. Inv /\ EndInv => NoListenerLeft
  <2> SUFFICES ASSUME Inv, EndInv, NEW c \in Client, fwd[c].at = "done", c \in listening,
                      table[cl[c].id] = cl[c].st
               PROVE  StopCloses(c)
    BY DEF NoListenerLeft, StopCloses
  <2>1. cl[c].phase = "closed" /\ st[cl[c].st].client # c
    BY DEF EndInv, Served, Ended
  <2>2. cl[c].st \in State /\ c # Nil
    BY <2>1 DEF Inv, Owned, Client, Nil
  <2>3. st[cl[c].st].bridge # c
    BY <2>1, <2>2 DEF Inv, Bridges
  <2> QED BY <2>1, <2>3 DEF EndInv, Listeners
<1> QED BY <1>1, InvHolds, EndInit, EndStep, PTL DEF Spec
=============================================================================
