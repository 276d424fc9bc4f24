----------------------------- MODULE App_proofs -----------------------------
(* Theorems about App: for all tunnels, handlers, commands and bounds.     *)
EXTENDS App, FiniteSetTheorems, TLAPS

Label == {"idle", "choose", "client", "dial", "adopt", "absent", "run", "end",
          "switch", "register", "quit"}
Op    == {"", "status", "connect", "disconnect", "connectAll", "disconnectAll",
          "switch", "save", "quit"}

Caller == [at : Label, op : Op, todo : SUBSET Tunnels, w : Place,
           conn : Conn \cup {Nil}, ok : BOOLEAN, touched : SUBSET Tunnels]

\* A handler whose command runs at the service, or about to adopt, has a connection.
Joined == \A p \in Procs :
  (At(p, "run") /\ proc[p].w = "service") \/ At(p, "adopt") => proc[p].conn # Nil

\* TypeOK, the type of the handlers, and that one about to adopt has a connection.
Types == /\ TypeOK /\ proc \in [Procs -> Caller]
         /\ \A p \in Procs : At(p, "adopt") => proc[p].conn # Nil

\* Connections are numbered as they are dialled; a later one does not exist.
Dialled ==
  /\ svc <= conns
  /\ \A c \in Conn : link[c] = "open" => c <= conns

\* A connection in the hands of a call is not yet the one in use, and belongs
\* to that call alone.
InHand ==
  \A p \in Procs : At(p, "adopt") =>
    /\ proc[p].conn \in 1..conns /\ proc[p].conn # svc
    /\ \A q \in Procs : At(q, "adopt") /\ proc[q].conn = proc[p].conn => q = p

LinkInv == Dialled /\ InHand /\ NoLeakedConnection
-----------------------------------------------------------------------------
(* Types                                                                   *)

\* What happens at a manager are events, and stay events in the queues.
LEMMA EmitTypes ==
  ASSUME Types, NEW w \in Place, NEW es \in Seq(Event), Emit(w, es)
  PROVE  localQ' \in Seq(Event) /\ linkQ' \in [Conn -> Seq(Event)] /\ lost' \in BOOLEAN
<1>0. \A s \in Seq(Event) : s \o es \in Seq(Event)
  OBVIOUS
<1>1. localQ' \in Seq(Event)
  BY <1>0 DEF Emit, Types, TypeOK
<1>2. linkQ' \in [Conn -> Seq(Event)]
  <2>1. linkQ \in [Conn -> Seq(Event)]
    BY DEF Types, TypeOK
  <2>2. \/ linkQ' = linkQ
        \/ linkQ' = [c \in Conn |-> IF c \in Listening THEN linkQ[c] \o es ELSE linkQ[c]]
    BY DEF Emit
  <2> QED
    BY <1>0, <2>1, <2>2
<1>3. lost \in BOOLEAN
  BY DEF Types, TypeOK
<1>4. lost' \in BOOLEAN
  <2>1. CASE w = "local"
    BY <2>1, <1>3 DEF Emit
  <2>2. CASE w # "local"
    BY <2>2 DEF Emit
  <2> QED
    BY <2>1, <2>2
<1> QED
  BY <1>1, <1>2, <1>4

\* Stopping tunnels tells of tunnels: they can be put into an order, as there
\* are finitely many.
LEMMA StopTypes ==
  ASSUME Types, NEW w \in Place, NEW ts \in SUBSET Tunnels, StopAt(w, ts)
  PROVE  /\ localQ' \in Seq(Event) /\ linkQ' \in [Conn -> Seq(Event)] /\ lost' \in BOOLEAN
         /\ tun' \in [Place -> [Tunnels -> {"off", "starting", "up"}]]
<1> DEFINE on == {t \in ts : tun[w][t] # "off"}
           n == Cardinality(on)
           Orders(f) == f \in [1..n -> on] /\ \A t \in on : \E i \in DOMAIN f : f[i] = t
           order == CHOOSE f \in [1..n -> on] : \A t \in on : \E i \in DOMAIN f : f[i] = t
           es == [i \in 1..n |-> Ev(order[i], "disconnected")]
<1>1. IsFiniteSet(on)
  BY TunnelsAssumption, FS_Subset
<1>2. n \in Nat /\ ExistsBijection(1..n, on)
  BY <1>1, FS_CardinalityType
<1>3. \E f \in [1..n -> on] : \A t \in on : \E i \in DOMAIN f : f[i] = t
  BY <1>2 DEF ExistsBijection, Bijection, Surjection
<1>4. order \in [1..n -> on]
  BY <1>3
<1>5. on \subseteq Tunnels
  OBVIOUS
<1> HIDE DEF order, on, n
<1>6. es \in Seq(Event)
  BY <1>2, <1>4, <1>5 DEF Ev, Event
<1>7. /\ tun' = [tun EXCEPT ![w] = [t \in Tunnels |-> IF t \in on THEN "off" ELSE @[t]]]
      /\ Emit(w, es)
  BY DEF StopAt, order, on, n
<1>8. localQ' \in Seq(Event) /\ linkQ' \in [Conn -> Seq(Event)] /\ lost' \in BOOLEAN
  BY <1>6, <1>7, EmitTypes
<1>9. tun' \in [Place -> [Tunnels -> {"off", "starting", "up"}]]
  BY <1>7 DEF Types, TypeOK
<1> QED
  BY <1>8, <1>9

\* A handler that has not begun.
LEMMA IdleType == Idle \in Caller /\ Idle.at = "idle" /\ Idle.conn = Nil
<1>1. Idle.at = "idle" /\ Idle.conn = Nil
  BY DEF Idle
<1>2. {} \in SUBSET Tunnels /\ "local" \in Place /\ Nil \in Conn \cup {Nil} /\ TRUE \in BOOLEAN
  BY DEF Place
<1>3. Idle \in Caller
  BY <1>2 DEF Idle, Caller, Label, Op
<1> QED
  BY <1>1, <1>3

\* At the start everything has its type: one handler asks for the status.
LEMMA InitTypes == Init => Types
<1> SUFFICES ASSUME Init PROVE Types
  OBVIOUS
<1> DEFINE First == [Idle EXCEPT !.at = "choose", !.op = "status", !.todo = Tunnels]
<1>0. Idle \in Caller /\ First \in Caller /\ Idle.at = "idle" /\ First.at = "choose"
  BY IdleType DEF Caller, Label, Op
<1>1. proc \in [Procs -> Caller] /\ \A p \in Procs : proc[p].at \in {"idle", "choose"}
  <2>1. PICK u \in Window : proc = [q \in Procs |-> IF q = u THEN First ELSE Idle]
    BY DEF Init
  <2> HIDE DEF First
  <2> QED
    BY <1>0, <2>1
<1>2. \A p \in Procs : ~At(p, "run") /\ ~At(p, "adopt")
  BY <1>1 DEF At
<1>3. TypeOK
  <2>1. {admin, available, alive, running, lost, crossed, behind} \subseteq BOOLEAN
    BY DEF Init
  <2>2. /\ mode \in {"tun", "socks5"} /\ svc \in Conn \cup {Nil}
        /\ tun \in [Place -> [Tunnels -> {"off", "starting", "up"}]]
        /\ localQ \in Seq(Event) /\ linkQ \in [Conn -> Seq(Event)]
        /\ link \in [Conn -> {"none", "open", "broken"}] /\ fwd \in [Conn -> {"none", "run", "done"}]
        /\ shown \in [Tunnels -> {"off", "connecting", "on"}]
        /\ conns \in 0..MaxConns
    BY BoundAssumption DEF Init, Conn
  <2> QED
    BY <1>1, <1>2, <2>1, <2>2 DEF TypeOK, Caller
<1> QED
  BY <1>1, <1>2, <1>3 DEF Types

\* A handler that notes what has been marked stays where it is.
LEMMA TouchTypes ==
  ASSUME Types, NEW ts \in SUBSET Tunnels
  PROVE  /\ Touch(ts) \in [Procs -> Caller]
         /\ \A p \in Procs : /\ Touch(ts)[p].at = proc[p].at /\ Touch(ts)[p].w = proc[p].w
                             /\ Touch(ts)[p].conn = proc[p].conn
<1>1. \A p \in Procs : proc[p] \in Caller
  BY DEF Types
<1> QED
  BY <1>1 DEF Touch, Caller

\* The window handles an event: it marks its tunnel and no handler moves.
LEMMA HandleTypes ==
  ASSUME Types, NEW e \in Event, Handle(e)
  PROVE  /\ shown' \in [Tunnels -> {"off", "connecting", "on"}]
         /\ proc' \in [Procs -> Caller]
         /\ \A p \in Procs : /\ proc'[p].at = proc[p].at /\ proc'[p].w = proc[p].w
                             /\ proc'[p].conn = proc[p].conn
<1>1. e.t \in Tunnels
  BY DEF Event
<1>2. shown' \in [Tunnels -> {"off", "connecting", "on"}]
  BY <1>1 DEF Handle, Types, TypeOK
<1>3. proc' = Touch({e.t})
  BY DEF Handle
<1> QED
  BY <1>1, <1>2, <1>3, TouchTypes

\* A handler that moves on keeps its type, and uses a connection when its
\* command runs at the service.
LEMMA MoveTypes ==
  ASSUME Types, NEW p \in Procs, NEW r \in Caller, proc' = [proc EXCEPT ![p] = r],
         (r.at = "run" /\ r.w = "service") \/ r.at = "adopt" => r.conn # Nil
  PROVE  /\ proc' \in [Procs -> Caller]
         /\ Joined'
<1>1. proc \in [Procs -> Caller]
  BY DEF Types
<1>2. \A q \in Procs : proc'[q] = IF q = p THEN r ELSE proc[q]
  BY <1>1
<1>3. Joined
  BY DEF Types, TypeOK, Joined
<1> QED
  BY <1>1, <1>2, <1>3 DEF At, Joined

\* So does one that ends a step and marks tunnels, which the others note.
LEMMA MarkTypes ==
  ASSUME Types, NEW p \in Procs, NEW r \in Caller, NEW ts \in SUBSET Tunnels,
         proc' = [Touch(ts) EXCEPT ![p] = r],
         (r.at = "run" /\ r.w = "service") \/ r.at = "adopt" => r.conn # Nil
  PROVE  /\ proc' \in [Procs -> Caller]
         /\ Joined'
<1>1. Touch(ts) \in [Procs -> Caller]
  BY TouchTypes
<1>2. \A q \in Procs : proc'[q] = IF q = p THEN r ELSE Touch(ts)[q]
  BY <1>1
<1>3. Joined
  BY DEF Types, TypeOK, Joined
<1> QED
  BY <1>1, <1>2, <1>3, TouchTypes DEF At, Joined

\* No command, event or break leaves the types.
LEMMA StepTypes == Types /\ [Next]_vars => Types'
<1> SUFFICES ASSUME Types, [Next]_vars PROVE Types'
  OBVIOUS
<1> USE DEF Nil
<1>t. TypeOK /\ proc \in [Procs -> Caller]
  BY DEF Types
<1>i. Idle \in Caller /\ Idle.at = "idle"
  BY IdleType
<1>c. \A p \in Procs : proc[p] \in Caller
  BY <1>t
\* What is left to show when the handlers keep their types.
<1>q. ASSUME proc' \in [Procs -> Caller],
             Joined'
      PROVE  \A p \in Procs :
               /\ proc'[p].todo \subseteq Tunnels /\ proc'[p].conn \in Conn \cup {Nil}
               /\ proc'[p].w \in Place /\ proc'[p].touched \subseteq Tunnels
               /\ (At(p, "run")' /\ proc'[p].w = "service" => proc'[p].conn # Nil)
               /\ (At(p, "adopt")' => proc'[p].conn # Nil)
  BY <1>q DEF Caller, Joined
<1>n. ASSUME NEW p \in Procs, NEW o \in Op, NEW ts \in SUBSET Tunnels, NEW l \in Label \ {"run", "adopt"},
             Begin(p, o, ts, l)
      PROVE  /\ proc' \in [Procs -> Caller]
             /\ Joined'
  <2> DEFINE r == [Idle EXCEPT !.at = l, !.op = o, !.todo = ts]
  <2>1. r \in Caller /\ r.at = l
    BY <1>n, <1>i DEF Caller
  <2>2. proc' = [proc EXCEPT ![p] = r]
    BY <1>n DEF Begin
  <2> HIDE DEF r
  <2> QED
    BY <1>n, <2>1, <2>2, MoveTypes
<1>g. ASSUME NEW p \in Procs, NEW l \in Label \ {"run", "adopt"}, Goto(p, l)
      PROVE  /\ proc' \in [Procs -> Caller]
             /\ Joined'
  <2> DEFINE r == [proc[p] EXCEPT !.at = l]
  <2>1. r \in Caller /\ r.at = l
    BY <1>c DEF Caller
  <2>2. proc' = [proc EXCEPT ![p] = r]
    BY <1>g DEF Goto
  <2> HIDE DEF r
  <2> QED
    BY <1>g, <2>1, <2>2, MoveTypes
<1>k. /\ \A p \in Procs : At(p, "run") /\ proc[p].w = "service" => proc[p].conn # Nil
      /\ tun \in [Place -> [Tunnels -> {"off", "starting", "up"}]]
      /\ localQ \in Seq(Event) /\ linkQ \in [Conn -> Seq(Event)]
      /\ svc \in Conn \cup {Nil} /\ conns \in 0..MaxConns
  BY <1>t DEF TypeOK
<1>1. ASSUME NEW p \in Procs, Click(p) PROVE Types'
  <2>1. CASE Toggle(p)
    <3>1. PICK t \in Tunnels :
            IF shown[t] = "off"
            THEN shown' = [shown EXCEPT ![t] = "connecting"] /\ Begin(p, "connect", {t}, "choose")
            ELSE Begin(p, "disconnect", {t}, "choose") /\ UNCHANGED shown
      BY <2>1 DEF Toggle
    <3>2. \E o \in Op : Begin(p, o, {t}, "choose")
      BY <3>1 DEF Op
    <3>3. shown' \in [Tunnels -> {"off", "connecting", "on"}]
      BY <3>1, <1>t DEF TypeOK
    <3> QED
      BY <3>2, <3>3, <1>n, <1>q, <1>t, <1>1 DEF Click, Label, Types, TypeOK, appVars, linkVars
  <2>2. CASE ConnectAll(p)
    <3>1. shown' \in [Tunnels -> {"off", "connecting", "on"}]
      BY <2>2, <1>t DEF ConnectAll, TypeOK
    <3> QED
      BY <2>2, <3>1, <1>n, <1>q, <1>t, <1>1 DEF Click, ConnectAll, Label, Op, Types, TypeOK, appVars, linkVars
  <2>3. CASE DisconnectAll(p)
    BY <2>3, <1>n, <1>q, <1>t, <1>1 DEF Click, DisconnectAll, Label, Op, Types, TypeOK, appVars, linkVars
  <2>4. CASE Leave(p) /\ UNCHANGED shown
    <3>1. \E o \in Op, l \in Label \ {"run", "adopt"} : Begin(p, o, {}, l)
      BY <2>4 DEF Leave, Op, Label
    <3> QED
      BY <2>4, <3>1, <1>n, <1>q, <1>t, <1>1 DEF Click, Types, TypeOK, appVars, linkVars
  <2> QED
    BY <1>1, <2>1, <2>2, <2>3, <2>4 DEF Click
<1>2. ASSUME NEW p \in Procs, Choose(p) PROVE Types'
  <2> DEFINE r == [proc[p] EXCEPT !.w = Backend, !.at = IF Backend = "service" THEN "client" ELSE "run"]
  <2>1. r \in Caller /\ r.at # "adopt" /\ ~(r.at = "run" /\ r.w = "service")
    BY <1>c DEF Caller, Backend, Label, Place
  <2>2. proc' = [proc EXCEPT ![p] = r]
    BY <1>2 DEF Choose
  <2> HIDE DEF r
  <2> QED
    BY <2>1, <2>2, MoveTypes, <1>q, <1>t, <1>2 DEF Choose, Types, TypeOK, appVars, linkVars
<1>3. ASSUME NEW p \in Procs, ServiceClient(p) PROVE Types'
  <2>1. CASE svc # Nil
    <3> DEFINE r == [proc[p] EXCEPT !.at = "run", !.conn = svc]
    <3>1. r \in Caller /\ r.conn # Nil
      BY <2>1, <1>c, <1>k DEF Caller, Label
    <3>2. proc' = [proc EXCEPT ![p] = r]
      BY <1>3, <2>1 DEF ServiceClient
    <3> HIDE DEF r
    <3> QED
      BY <3>1, <3>2, MoveTypes, <1>q, <1>t, <1>3 DEF ServiceClient, Types, TypeOK, appVars, linkVars
  <2>2. CASE svc = Nil
    BY <2>2, <1>g, <1>q, <1>t, <1>3 DEF ServiceClient, Label, Types, TypeOK, appVars, linkVars
  <2> QED
    BY <2>1, <2>2
<1>4. ASSUME NEW p \in Procs, Dial(p) PROVE Types'
  <2>1. CASE running /\ conns < MaxConns /\ conns' = conns + 1
             /\ link' = [link EXCEPT ![conns + 1] = "open"]
             /\ proc' = [proc EXCEPT ![p].at = "adopt", ![p].conn = conns + 1]
    <3> DEFINE r == [proc[p] EXCEPT !.at = "adopt", !.conn = conns + 1]
    <3>0. conns + 1 \in Conn /\ conns + 1 \in 0..MaxConns /\ conns + 1 # Nil
      BY <2>1, <1>k, BoundAssumption DEF Conn
    <3>1. r \in Caller /\ r.conn # Nil
      BY <3>0, <1>c DEF Caller, Label
    <3>2. proc' = [proc EXCEPT ![p] = r]
      BY <2>1
    <3>3. link' \in [Conn -> {"none", "open", "broken"}] /\ conns' \in 0..MaxConns
      BY <3>0, <2>1, <1>t DEF TypeOK
    <3> HIDE DEF r
    <3> QED
      BY <3>1, <3>2, <3>3, MoveTypes, <1>q, <1>t, <1>4 DEF Dial, Types, TypeOK, appVars
  <2>2. CASE ~running /\ Goto(p, "absent") /\ UNCHANGED <<link, conns>>
    BY <2>2, <1>g, <1>q, <1>t, <1>4 DEF Dial, Label, Types, TypeOK, appVars
  <2> QED
    BY <1>4, <2>1, <2>2 DEF Dial
<1>5. ASSUME NEW p \in Procs, Adopt(p) PROVE Types'
  <2>1. proc[p].conn \in Conn \cup {Nil}
    BY <1>c DEF Caller
  <2>2. CASE svc # Nil
    <3> DEFINE r == [proc[p] EXCEPT !.at = "run", !.conn = svc]
    <3>1. r \in Caller /\ r.conn # Nil
      BY <2>2, <1>c, <1>k DEF Caller, Label
    <3>2. proc' = [proc EXCEPT ![p] = r]
      BY <1>5, <2>2 DEF Adopt
    <3>3. link' \in [Conn -> {"none", "open", "broken"}]
      BY <2>2, <1>t, <1>5 DEF Adopt, TypeOK
    <3> HIDE DEF r
    <3> QED
      BY <2>2, <3>1, <3>2, <3>3, MoveTypes, <1>q, <1>t, <1>5 DEF Adopt, Types, TypeOK
  <2>3. CASE svc = Nil
    <3> DEFINE c == proc[p].conn
               r == [proc[p] EXCEPT !.at = "run"]
    <3>0. c \in Conn
      BY <1>5, <2>1, <1>t DEF Adopt, Types
    <3>1. r \in Caller /\ r.conn # Nil
      BY <3>0, <1>c DEF Caller, Label, Conn
    <3>2. proc' = [proc EXCEPT ![p] = r]
      BY <1>5, <2>3 DEF Adopt, Goto
    <3>3. svc' = c /\ available' = TRUE /\ fwd' = [fwd EXCEPT ![c] = "run"] /\ link' = link
      BY <1>5, <2>3 DEF Adopt
    <3>4. fwd' \in [Conn -> {"none", "run", "done"}]
      BY <3>0, <3>3, <1>t DEF TypeOK
    <3> HIDE DEF r, c
    <3> QED
      BY <3>0, <3>1, <3>2, <3>3, <3>4, MoveTypes, <1>q, <1>t, <1>5 DEF Adopt, Types, TypeOK
  <2> QED
    BY <2>2, <2>3
<1>6. ASSUME NEW p \in Procs, Absent(p) PROVE Types'
  <2> DEFINE r == [proc[p] EXCEPT !.at = "end", !.ok = FALSE]
  <2>1. r \in Caller /\ r.at = "end"
    BY <1>c DEF Caller, Label
  <2>2. proc' = [proc EXCEPT ![p] = r]
    BY <1>6 DEF Absent
  <2> HIDE DEF r
  <2> QED
    BY <2>1, <2>2, MoveTypes, <1>q, <1>t, <1>6 DEF Absent, Types, TypeOK, linkVars
<1>7. ASSUME NEW p \in Procs, RunCut(p) PROVE Types'
  <2> DEFINE r == [proc[p] EXCEPT !.at = "end", !.ok = FALSE]
  <2>1. r \in Caller /\ r.at = "end"
    BY <1>c DEF Caller, Label
  <2>2. proc' = [proc EXCEPT ![p] = r]
    BY <1>7 DEF RunCut
  <2> HIDE DEF r
  <2> QED
    BY <2>1, <2>2, MoveTypes, <1>q, <1>t, <1>7 DEF RunCut, Types, TypeOK, appVars, linkVars
<1>8. ASSUME NEW p \in Procs, Run(p) PROVE Types'
  <2> DEFINE w == proc[p].w
  <2>0. w \in Place /\ proc[p].todo \in SUBSET Tunnels
    BY <1>c DEF Caller
  <2>b. crossed \in BOOLEAN /\ lost \in BOOLEAN
    BY <1>t DEF TypeOK
  <2>c. crossed' \in BOOLEAN
    <3>1. crossed' = (crossed \/ (proc[p].op \in {"connect", "connectAll"} /\ BusyElsewhere(w)))
      BY <1>8 DEF Run
    <3> QED
      BY <3>1, Zenon
  <2>1. CASE /\ proc[p].op \in {"connect", "connectAll"}
             /\ \E t \in Due(proc[p].todo) :
                  /\ IF tun[w][t] = "off"
                     THEN /\ starts < MaxStarts /\ starts' = starts + 1
                          /\ tun' = [tun EXCEPT ![w][t] = "starting"]
                     ELSE UNCHANGED <<tun, starts>>
                  /\ proc' = [proc EXCEPT ![p].at = "end", ![p].ok = (tun[w][t] = "off")]
             /\ UNCHANGED <<localQ, linkQ, lost>>
    <3>1. PICK t \in Due(proc[p].todo) :
            /\ IF tun[w][t] = "off"
               THEN tun' = [tun EXCEPT ![w][t] = "starting"]
               ELSE UNCHANGED tun
            /\ proc' = [proc EXCEPT ![p].at = "end", ![p].ok = (tun[w][t] = "off")]
      BY <2>1
    <3>0. t \in Tunnels
      BY <3>1, <2>0 DEF Due
    <3>2. tun' \in [Place -> [Tunnels -> {"off", "starting", "up"}]]
      <4>1. CASE tun[w][t] = "off"
        <5>1. tun' = [tun EXCEPT ![w][t] = "starting"] /\ w \in Place
          BY <4>1, <3>1, <2>0
        <5> HIDE DEF w
        <5> QED
          BY <5>1, <3>0, <1>k
      <4>2. CASE tun[w][t] # "off"
        BY <4>2, <3>1, <1>k
      <4> QED
        BY <4>1, <4>2
    <3> DEFINE b == tun[w][t] = "off"
               r == [proc[p] EXCEPT !.at = "end", !.ok = b]
    <3>3. b \in BOOLEAN
      OBVIOUS
    <3>4. proc' = [proc EXCEPT ![p] = r]
      BY <3>1
    <3> HIDE DEF b
    <3>5. r \in Caller /\ r.at = "end"
      BY <3>3, <1>c DEF Caller, Label
    <3> HIDE DEF r
    <3>6. proc' \in [Procs -> Caller] /\ Joined'
      BY <3>4, <3>5, MoveTypes
    <3> QED
      BY <2>1, <2>b, <2>c, <3>2, <3>6, <1>q, <1>t, <1>8 DEF Run, Types, TypeOK, appVars
  <2>2. CASE /\ proc[p].op = "disconnect" /\ StopAt(w, proc[p].todo)
             /\ Goto(p, "end") /\ UNCHANGED starts
    BY <2>2, <2>0, <2>c, StopTypes, <1>g, <1>q, <1>t, <1>8 DEF Run, Types, TypeOK, appVars, Label
  <2>3. CASE /\ proc[p].op = "disconnectAll" /\ StopAt(w, Tunnels)
             /\ Goto(p, "end") /\ UNCHANGED starts
    BY <2>3, <2>0, <2>c, StopTypes, <1>g, <1>q, <1>t, <1>8 DEF Run, Types, TypeOK, appVars, Label
  <2>4. CASE /\ proc[p].op = "status"
             /\ \E t \in Due(proc[p].todo) :
                  proc' = [proc EXCEPT ![p].at = "end", ![p].ok = (tun[w][t] = "up")]
             /\ UNCHANGED <<tun, localQ, linkQ, lost, starts>>
    <3>1. PICK t \in Due(proc[p].todo) : proc' = [proc EXCEPT ![p].at = "end", ![p].ok = (tun[w][t] = "up")]
      BY <2>4
    <3> DEFINE b == tun[w][t] = "up"
               r == [proc[p] EXCEPT !.at = "end", !.ok = b]
    <3>3. b \in BOOLEAN
      OBVIOUS
    <3>4. proc' = [proc EXCEPT ![p] = r]
      BY <3>1
    <3> HIDE DEF b
    <3>5. r \in Caller /\ r.at = "end"
      BY <3>3, <1>c DEF Caller, Label
    <3> HIDE DEF r
    <3>6. proc' \in [Procs -> Caller] /\ Joined'
      BY <3>4, <3>5, MoveTypes
    <3> QED
      BY <2>4, <2>c, <3>6, <1>q, <1>t, <1>8 DEF Run, Types, TypeOK, appVars
  <2> QED
    BY <1>8, <2>1, <2>2, <2>3, <2>4 DEF Run
<1>9. ASSUME NEW p \in Procs, End(p) PROVE Types'
  <2> DEFINE r == proc[p]
             Marked(t, ok) == CASE r.op \in {"connect", "disconnect"} -> IF ok THEN shown[t] ELSE "off"
                                [] r.op = "status" -> IF ok THEN "on" ELSE shown[t]
                                [] OTHER -> shown[t]
             Rest(t) == [r EXCEPT !.at = CASE r.op = "status" -> "choose"
                                           [] r.w = "service" -> "client"
                                           [] OTHER -> "run",
                                  !.todo = @ \ {t}, !.conn = Nil, !.ok = TRUE]
  <2>0. r \in Caller
    BY <1>c
  <2>1. PICK ok \in {r.ok} \cup (IF Cut(p) THEN {FALSE} ELSE {}),
             t \in IF r.todo = {} THEN Tunnels ELSE Due(r.todo) :
          /\ shown' = [shown EXCEPT ![t] = Marked(t, ok)]
          /\ crossed' = (crossed \/ (Marked(t, ok) # shown[t] /\ t \in r.touched))
          /\ lost' = (lost \/ (~ok /\ Cut(p)))
          /\ proc' = [Touch(IF Marked(t, ok) = shown[t] THEN {} ELSE {t})
                      EXCEPT ![p] = IF r.todo \ {t} = {} THEN Idle ELSE Rest(t)]
    BY <1>9 DEF End
  <2>2. t \in Tunnels
    BY <2>0, <2>1 DEF Caller, Due
  <2>3. Marked(t, ok) \in {"off", "connecting", "on"}
    BY <2>2, <1>t DEF TypeOK
  <2>4. shown' \in [Tunnels -> {"off", "connecting", "on"}]
    BY <2>1, <2>2, <2>3, <1>t DEF TypeOK
  <2>5. crossed' \in BOOLEAN /\ lost' \in BOOLEAN
    BY <2>1, Zenon
  <2>6. Rest(t) \in Caller /\ Rest(t).at # "adopt" /\ ~(Rest(t).at = "run" /\ Rest(t).w = "service")
    BY <2>0 DEF Caller, Label
  <2>7. proc' \in [Procs -> Caller] /\ Joined'
    <3> DEFINE n == IF r.todo \ {t} = {} THEN Idle ELSE Rest(t)
    <3>1. n \in Caller /\ n.at # "adopt" /\ ~(n.at = "run" /\ n.w = "service")
      BY <2>6, <1>i
    <3>2. PICK ts \in SUBSET Tunnels : proc' = [Touch(ts) EXCEPT ![p] = n]
      BY <2>1, <2>2
    <3> HIDE DEF n
    <3> QED
      BY <3>1, <3>2, MarkTypes
  <2> QED
    BY <2>4, <2>5, <2>7, <1>q, <1>t, <1>9 DEF End, Types, TypeOK, appVars, linkVars
<1>10. ASSUME NEW p \in Procs, SwitchMode(p) PROVE Types'
  BY <1>10, <1>g, <1>q, <1>t DEF SwitchMode, Types, TypeOK, linkVars, Label
<1>11. ASSUME NEW p \in Procs, Register(p) PROVE Types'
  <2>1. crossed' \in BOOLEAN /\ behind' \in BOOLEAN
    BY <1>11, Zenon DEF Register
  <2>2. shown' \in [Tunnels -> {"off", "connecting", "on"}]
    BY <1>11 DEF Register
  <2>3. proc' \in [Procs -> Caller] /\ Joined'
    BY <1>11, <1>i, MoveTypes DEF Register
  <2>4. "local" \in Place
    BY DEF Place
  <2> QED
    BY <2>1, <2>2, <2>3, <2>4, StopTypes, <1>q, <1>t, <1>11 DEF Register, Types, TypeOK, appVars
<1>12. ASSUME NEW p \in Procs, Quit(p) PROVE Types'
  <2>1. tun' \in [Place -> [Tunnels -> {"off", "starting", "up"}]]
    BY <1>12, <1>k DEF Quit
  <2>2. link' \in [Conn -> {"none", "open", "broken"}]
    BY <1>12, <1>t DEF Quit, TypeOK
  <2>3. proc' \in [Procs -> Caller] /\ Joined'
    BY <1>12, <1>i, MoveTypes DEF Quit
  <2> QED
    BY <2>1, <2>2, <2>3, <1>q, <1>t, <1>12 DEF Quit, Types, TypeOK
<1>13. ASSUME NEW w \in Place, NEW t \in Tunnels, TunnelChanges(w, t) PROVE Types'
  <2>1. PICK v \in {"off", "up"}, x \in {"connected", "disconnected", "error"} :
          tun' = [tun EXCEPT ![w][t] = v] /\ Emit(w, <<Ev(t, x)>>)
    BY <1>13 DEF TunnelChanges
  <2>2. <<Ev(t, x)>> \in Seq(Event)
    BY DEF Ev, Event
  <2>3. localQ' \in Seq(Event) /\ linkQ' \in [Conn -> Seq(Event)] /\ lost' \in BOOLEAN
    BY <2>1, <2>2, EmitTypes
  <2>4. tun' \in [Place -> [Tunnels -> {"off", "starting", "up"}]]
    BY <2>1, <1>k
  <2>5. proc' = proc /\ Joined
    BY <1>13 DEF TunnelChanges, Types, TypeOK, Joined
  <2> QED
    BY <2>3, <2>4, <2>5, <1>t, <1>13 DEF TunnelChanges, Types, TypeOK, appVars, Joined, At
<1>j. ASSUME UNCHANGED proc
      PROVE  proc' \in [Procs -> Caller] /\ Joined'
  BY <1>j DEF Types, TypeOK, Joined, At
<1>14. CASE ServiceStops
  <2>1. lost' \in BOOLEAN
    BY <1>14, Zenon DEF ServiceStops
  <2>2. tun' \in [Place -> [Tunnels -> {"off", "starting", "up"}]]
    BY <1>14, <1>k DEF ServiceStops
  <2>3. link' \in [Conn -> {"none", "open", "broken"}]
    BY <1>14, <1>t DEF ServiceStops, TypeOK
  <2> QED
    BY <2>1, <2>2, <2>3, <1>j, <1>q, <1>t, <1>14 DEF ServiceStops, Types, TypeOK, appVars
<1>15. CASE ServiceStarts
  BY <1>15, <1>j, <1>q, <1>t DEF ServiceStarts, Types, TypeOK, appVars, linkVars
<1>16. ASSUME NEW c \in Conn, Break(c) PROVE Types'
  <2>1. PICK k \in 0..Len(linkQ[c]) :
          /\ linkQ' = [linkQ EXCEPT ![c] = SubSeq(@, 1, k)]
          /\ lost' = (lost \/ k < Len(linkQ[c]) \/ \E t \in Tunnels : tun["service"][t] # "off")
    BY <1>16 DEF Break
  <2>2. lost' \in BOOLEAN
    BY <2>1, Zenon
  <2>3. linkQ' \in [Conn -> Seq(Event)]
    <3>1. \A s \in Seq(Event) : \A j \in 0..Len(s) : SubSeq(s, 1, j) \in Seq(Event)
      OBVIOUS
    <3>2. linkQ[c] \in Seq(Event)
      BY <1>k
    <3> QED
      BY <2>1, <3>1, <3>2, <1>k
  <2>4. link' \in [Conn -> {"none", "open", "broken"}]
    BY <1>16, <1>t DEF Break, TypeOK
  <2> QED
    BY <2>2, <2>3, <2>4, <1>j, <1>q, <1>t, <1>16 DEF Break, Types, TypeOK, appVars
<1>h. ASSUME NEW e \in Event, Handle(e)
      PROVE  /\ shown' \in [Tunnels -> {"off", "connecting", "on"}]
             /\ proc' \in [Procs -> Caller] /\ Joined'
  <2>1. Joined
    BY DEF Types, TypeOK, Joined
  <2> QED
    BY <1>h, <2>1, HandleTypes DEF Joined, At
<1>e. \A s \in Seq(Event) : s # <<>> => Head(s) \in Event /\ Tail(s) \in Seq(Event)
  OBVIOUS
<1>17. CASE LocalEvent
  <2>1. Head(localQ) \in Event /\ localQ' \in Seq(Event)
    BY <1>17, <1>k, <1>e DEF LocalEvent
  <2> QED
    BY <2>1, <1>h, <1>q, <1>t, <1>17 DEF LocalEvent, Types, TypeOK, appVars, linkVars
<1>18. ASSUME NEW c \in Conn, ServiceEvent(c) PROVE Types'
  <2>1. Head(linkQ[c]) \in Event /\ linkQ' \in [Conn -> Seq(Event)]
    BY <1>18, <1>k, <1>e DEF ServiceEvent
  <2> QED
    BY <2>1, <1>h, <1>q, <1>t, <1>18 DEF ServiceEvent, Types, TypeOK, appVars
<1>19. ASSUME NEW c \in Conn, ServiceGone(c) PROVE Types'
  <2>1. fwd' \in [Conn -> {"none", "run", "done"}]
    BY <1>19, <1>t DEF ServiceGone, TypeOK
  <2>2. svc' \in Conn \cup {Nil} /\ available' \in BOOLEAN
    BY <1>19, <1>t DEF ServiceGone, TypeOK
  <2> QED
    BY <2>1, <2>2, <1>j, <1>q, <1>t, <1>19 DEF ServiceGone, Types, TypeOK
<1>20. CASE UNCHANGED vars
  BY <1>20, <1>j, <1>q, <1>t DEF vars, Types, TypeOK, appVars, linkVars, boundVars
<1> QED
  BY <1>1, <1>2, <1>3, <1>4, <1>5, <1>6, <1>7, <1>8, <1>9, <1>10, <1>11, <1>12, <1>13, <1>14,
     <1>15, <1>16, <1>17, <1>18, <1>19, <1>20 DEF Next, Handler

\* A command finds tunnels, connections, events and handlers of the kinds they
\* are declared to be, and one that runs at the service has a connection.
THEOREM TypeCorrect == Spec => []TypeOK
<1>1. Init => Types
  BY InitTypes
<1>2. Types /\ [Next]_vars => Types'
  BY StepTypes
<1>3. Types => TypeOK
  BY DEF Types
<1> QED
  BY <1>1, <1>2, <1>3, PTL DEF Spec
-----------------------------------------------------------------------------
(* The connection to the service                                           *)

\* At the start there is no connection.
LEMMA InitLink == Init => LinkInv
<1> SUFFICES ASSUME Init PROVE LinkInv
  OBVIOUS
<1>1. \A c \in Conn : link[c] # "open"
  BY DEF Init
<1>2. \A p \in Procs : ~At(p, "adopt")
  <2> DEFINE First == [Idle EXCEPT !.at = "choose", !.op = "status", !.todo = Tunnels]
  <2>1. Idle.at = "idle" /\ First.at = "choose"
    BY DEF Idle
  <2>2. PICK u \in Window : proc = [q \in Procs |-> IF q = u THEN First ELSE Idle]
    BY DEF Init
  <2> HIDE DEF First
  <2> QED
    BY <2>1, <2>2 DEF At
<1>3. svc <= conns
  BY DEF Init, Nil
<1> QED
  BY <1>1, <1>2, <1>3 DEF LinkInv, Dialled, InHand, NoLeakedConnection

\* Whatever opens no connection, and neither takes one in use nor hands one
\* from call to call, leaves the one connection.
LEMMA QuietKeepsLink ==
  ASSUME LinkInv, UNCHANGED <<svc, conns>>,
         \A c \in Conn : link'[c] = "open" => link[c] = "open",
         \A p \in Procs : At(p, "adopt")' <=> At(p, "adopt"),
         \A p \in Procs : At(p, "adopt") => proc'[p].conn = proc[p].conn
  PROVE  LinkInv'
<1>1. Dialled'
  BY DEF LinkInv, Dialled
<1>2. InHand'
  BY DEF LinkInv, InHand
<1>3. NoLeakedConnection'
  BY DEF LinkInv, NoLeakedConnection
<1> QED
  BY <1>1, <1>2, <1>3 DEF LinkInv

\* So does a handler that moves on from and to other places.
LEMMA MoveKeepsLink ==
  ASSUME Types, LinkInv, UNCHANGED <<svc, conns>>,
         \A c \in Conn : link'[c] = "open" => link[c] = "open",
         NEW p \in Procs, NEW r, proc' = [proc EXCEPT ![p] = r], r.at # "adopt", ~At(p, "adopt")
  PROVE  LinkInv'
<1>1. \A q \in Procs : proc'[q] = IF q = p THEN r ELSE proc[q]
  BY DEF Types
<1> QED
  BY <1>1, QuietKeepsLink DEF At

\* A connection is made by a call that has it in hand until it is adopted or closed.
LEMMA StepLink == Types /\ LinkInv /\ [Next]_vars => LinkInv'
<1> SUFFICES ASSUME Types, LinkInv, [Next]_vars PROVE LinkInv'
  OBVIOUS
<1>t. /\ proc \in [Procs -> Caller] /\ link \in [Conn -> {"none", "open", "broken"}]
      /\ svc \in Conn \cup {Nil} /\ conns \in 0..MaxConns
  BY DEF Types, TypeOK
<1>c. \A p \in Procs : proc[p] \in Caller
  BY <1>t
<1>i. Idle.at = "idle"
  BY IdleType
<1>g. ASSUME NEW p \in Procs, NEW l, Goto(p, l), l # "adopt", ~At(p, "adopt"),
             UNCHANGED <<svc, conns, link>>
      PROVE  LinkInv'
  <2> DEFINE r == [proc[p] EXCEPT !.at = l]
  <2>1. r.at = l /\ proc' = [proc EXCEPT ![p] = r]
    BY <1>g, <1>c DEF Goto, Caller
  <2> HIDE DEF r
  <2> QED
    BY <1>g, <2>1, MoveKeepsLink
<1>1. ASSUME NEW p \in Procs, Click(p) PROVE LinkInv'
  <2>0. \E o, ts : \E l \in {"choose", "switch", "register", "quit"} : Begin(p, o, ts, l)
    <3>1. CASE Toggle(p)
      BY <3>1 DEF Toggle
    <3>2. CASE ConnectAll(p)
      BY <3>2 DEF ConnectAll
    <3>3. CASE DisconnectAll(p)
      BY <3>3 DEF DisconnectAll
    <3>4. CASE Leave(p)
      BY <3>4 DEF Leave
    <3> QED
      BY <1>1, <3>1, <3>2, <3>3, <3>4 DEF Click
  <2>1. PICK o, ts : \E l \in {"choose", "switch", "register", "quit"} : Begin(p, o, ts, l)
    BY <2>0
  <2>4. PICK l \in {"choose", "switch", "register", "quit"} : Begin(p, o, ts, l)
    BY <2>1
  <2> DEFINE r == [Idle EXCEPT !.at = l, !.op = o, !.todo = ts]
  <2>2. r.at = l /\ proc' = [proc EXCEPT ![p] = r]
    BY <2>4 DEF Begin, Idle
  <2>3. ~At(p, "adopt") /\ UNCHANGED <<svc, conns, link>>
    BY <1>1 DEF Click, At, appVars, linkVars
  <2> HIDE DEF r
  <2> QED
    BY <2>2, <2>3, MoveKeepsLink
<1>2. ASSUME NEW p \in Procs, Choose(p) PROVE LinkInv'
  <2> DEFINE r == [proc[p] EXCEPT !.w = Backend, !.at = IF Backend = "service" THEN "client" ELSE "run"]
  <2>1. r.at # "adopt"
    BY <1>c DEF Caller
  <2>2. proc' = [proc EXCEPT ![p] = r] /\ ~At(p, "adopt") /\ UNCHANGED <<svc, conns, link>>
    BY <1>2 DEF Choose, At, appVars, linkVars
  <2> HIDE DEF r
  <2> QED
    BY <2>1, <2>2, MoveKeepsLink
<1>3. ASSUME NEW p \in Procs, ServiceClient(p) PROVE LinkInv'
  <2> DEFINE r == [proc[p] EXCEPT !.at = "run", !.conn = svc]
  <2>1. r.at = "run"
    BY <1>c DEF Caller
  <2>2. ~At(p, "adopt") /\ UNCHANGED <<svc, conns, link>>
    BY <1>3 DEF ServiceClient, At, appVars, linkVars
  <2>3. proc' = [proc EXCEPT ![p] = r] \/ Goto(p, "dial")
    BY <1>3 DEF ServiceClient
  <2> HIDE DEF r
  <2> QED
    BY <2>1, <2>2, <2>3, MoveKeepsLink, <1>g
<1>4. ASSUME NEW p \in Procs, Dial(p) PROVE LinkInv'
  <2>1. CASE /\ conns < MaxConns /\ conns' = conns + 1
             /\ link' = [link EXCEPT ![conns + 1] = "open"]
             /\ proc' = [proc EXCEPT ![p].at = "adopt", ![p].conn = conns + 1]
    <3> DEFINE r == [proc[p] EXCEPT !.at = "adopt", !.conn = conns + 1]
    <3>0. conns + 1 \in Conn /\ conns \in Nat
      BY <2>1, <1>t, BoundAssumption DEF Conn
    <3>1. r.at = "adopt" /\ r.conn = conns + 1
      BY <1>c DEF Caller
    <3>2. \A q \in Procs : proc'[q] = IF q = p THEN r ELSE proc[q]
      BY <2>1, <1>t
    <3>3. svc' = svc /\ ~At(p, "adopt")
      BY <1>4 DEF Dial, appVars, At
    <3>4. \A c \in Conn : link'[c] = "open" => c = conns + 1 \/ link[c] = "open"
      BY <2>1, <1>t
    <3> HIDE DEF r
    <3>5. Dialled'
      BY <2>1, <3>0, <3>3, <3>4, <1>t DEF LinkInv, Dialled, Conn, Nil
    <3>6. InHand'
      BY <2>1, <3>0, <3>1, <3>2, <3>3, <1>t DEF LinkInv, InHand, Dialled, At, Conn, Nil
    <3>7. NoLeakedConnection'
      BY <3>1, <3>2, <3>3, <3>4 DEF LinkInv, NoLeakedConnection, At
    <3> QED
      BY <3>5, <3>6, <3>7 DEF LinkInv
  <2>2. CASE Goto(p, "absent") /\ UNCHANGED <<link, conns>>
    BY <2>2, <1>4, <1>g DEF Dial, At, appVars
  <2> QED
    BY <1>4, <2>1, <2>2 DEF Dial
<1>5. ASSUME NEW p \in Procs, Adopt(p) PROVE LinkInv'
  <2> DEFINE c == proc[p].conn
  <2>0. /\ At(p, "adopt") /\ c \in 1..conns /\ c \in Conn /\ c # svc /\ conns \in Nat
        /\ conns' = conns
        /\ \A q \in Procs : At(q, "adopt") /\ proc[q].conn = c => q = p
    BY <1>5, <1>t, BoundAssumption DEF Adopt, LinkInv, InHand, Conn
  <2>1. CASE svc # Nil
    <3> DEFINE r == [proc[p] EXCEPT !.at = "run", !.conn = svc]
    <3>1. r.at = "run"
      BY <1>c DEF Caller
    <3>2. link' = [link EXCEPT ![c] = "broken"] /\ svc' = svc /\ proc' = [proc EXCEPT ![p] = r]
      BY <1>5, <2>1 DEF Adopt
    <3>3. \A q \in Procs : proc'[q] = IF q = p THEN r ELSE proc[q]
      BY <3>2, <1>t
    <3>4. \A d \in Conn : link'[d] = "open" => link[d] = "open" /\ d # c
      BY <3>2, <2>0, <1>t
    <3> HIDE DEF r
    <3>5. Dialled'
      BY <2>0, <3>2, <3>4 DEF LinkInv, Dialled
    <3>6. InHand'
      BY <2>0, <3>1, <3>2, <3>3 DEF LinkInv, InHand, At
    <3>7. NoLeakedConnection'
      BY <3>2, <3>3, <3>4 DEF LinkInv, NoLeakedConnection, At
    <3> QED
      BY <3>5, <3>6, <3>7 DEF LinkInv
  <2>2. CASE svc = Nil
    <3> DEFINE r == [proc[p] EXCEPT !.at = "run"]
    <3>1. r.at = "run"
      BY <1>c DEF Caller
    <3>2. link' = link /\ svc' = c /\ proc' = [proc EXCEPT ![p] = r]
      BY <1>5, <2>2 DEF Adopt, Goto
    <3>3. \A q \in Procs : proc'[q] = IF q = p THEN r ELSE proc[q]
      BY <3>2, <1>t
    <3> HIDE DEF r, c
    <3>5. Dialled'
      BY <2>0, <3>2 DEF LinkInv, Dialled
    <3>6. InHand'
      BY <2>0, <3>1, <3>2, <3>3 DEF LinkInv, InHand, At, c
    <3>7. NoLeakedConnection'
      BY <2>2, <2>0, <3>2, <3>3 DEF LinkInv, NoLeakedConnection, At, c, Nil, Conn
    <3> QED
      BY <3>5, <3>6, <3>7 DEF LinkInv
  <2> QED
    BY <2>1, <2>2
\* A handler that goes to the end of its command, or ends.
<1>m. ASSUME NEW p \in Procs, NEW r, r.at # "adopt", ~At(p, "adopt"), proc' = [proc EXCEPT ![p] = r],
             UNCHANGED <<svc, conns, link>>
      PROVE  LinkInv'
  BY <1>m, MoveKeepsLink
<1>f. ASSUME NEW p \in Procs, NEW b, proc' = [proc EXCEPT ![p].at = "end", ![p].ok = b], ~At(p, "adopt"),
             UNCHANGED <<svc, conns, link>>
      PROVE  LinkInv'
  <2> DEFINE r == [proc[p] EXCEPT !.at = "end", !.ok = b]
  <2>1. r.at = "end"
    BY <1>c DEF Caller
  <2> HIDE DEF r
  <2>2. proc' = [proc EXCEPT ![p] = r]
    BY <1>f DEF r
  <2> QED
    BY <2>1, <2>2, <1>f, <1>m
<1>6. ASSUME NEW p \in Procs, Absent(p) \/ RunCut(p) PROVE LinkInv'
  BY <1>6, <1>f DEF Absent, RunCut, At, appVars, linkVars
<1>7. ASSUME NEW p \in Procs, Run(p) PROVE LinkInv'
  <2>1. Goto(p, "end") \/ \E b : proc' = [proc EXCEPT ![p].at = "end", ![p].ok = b]
    BY <1>7 DEF Run
  <2>2. ~At(p, "adopt") /\ UNCHANGED <<svc, conns, link>>
    BY <1>7 DEF Run, At, appVars
  <2> QED
    BY <2>1, <2>2, <1>f, <1>g
<1>8. ASSUME NEW p \in Procs, End(p) PROVE LinkInv'
  <2> DEFINE r == proc[p]
             Rest(t) == [r EXCEPT !.at = CASE r.op = "status" -> "choose"
                                           [] r.w = "service" -> "client"
                                           [] OTHER -> "run",
                                  !.todo = @ \ {t}, !.conn = Nil, !.ok = TRUE]
  <2>1. PICK t \in Tunnels, ts \in SUBSET Tunnels :
          proc' = [Touch(ts) EXCEPT ![p] = IF r.todo \ {t} = {} THEN Idle ELSE Rest(t)]
    <3> DEFINE Marked(t, ok) == CASE r.op \in {"connect", "disconnect"} -> IF ok THEN shown[t] ELSE "off"
                                  [] r.op = "status" -> IF ok THEN "on" ELSE shown[t]
                                  [] OTHER -> shown[t]
    <3>1. PICK ok \in {r.ok} \cup (IF Cut(p) THEN {FALSE} ELSE {}),
               t \in IF r.todo = {} THEN Tunnels ELSE Due(r.todo) :
            /\ shown' = [shown EXCEPT ![t] = Marked(t, ok)]
            /\ crossed' = (crossed \/ (Marked(t, ok) # shown[t] /\ t \in r.touched))
            /\ lost' = (lost \/ (~ok /\ Cut(p)))
            /\ proc' = [Touch(IF Marked(t, ok) = shown[t] THEN {} ELSE {t})
                        EXCEPT ![p] = IF r.todo \ {t} = {} THEN Idle ELSE Rest(t)]
      BY <1>8 DEF End
    <3>2. t \in Tunnels
      BY <3>1, <1>c DEF Caller, Due
    <3> HIDE DEF Marked
    <3> QED
      BY <3>1, <3>2
  <2> DEFINE n == IF r.todo \ {t} = {} THEN Idle ELSE Rest(t)
  <2>2. Rest(t).at # "adopt"
    BY <1>c DEF Caller
  <2>3. n.at # "adopt" /\ proc' = [Touch(ts) EXCEPT ![p] = n]
    BY <2>1, <2>2, <1>i
  <2>4. ~At(p, "adopt") /\ UNCHANGED <<svc, conns, link>>
    BY <1>8 DEF End, At, appVars, linkVars
  <2> HIDE DEF n
  <2>5. \A q \in Procs : proc'[q] = IF q = p THEN n ELSE Touch(ts)[q]
    BY <2>3, TouchTypes
  <2> QED
    BY <2>3, <2>4, <2>5, TouchTypes, QuietKeepsLink DEF At
<1>9. ASSUME NEW p \in Procs, SwitchMode(p) \/ Register(p) PROVE LinkInv'
  <2>1. Goto(p, "register") \/ proc' = [proc EXCEPT ![p] = Idle]
    BY <1>9 DEF SwitchMode, Register
  <2>2. ~At(p, "adopt") /\ UNCHANGED <<svc, conns, link>>
    BY <1>9 DEF SwitchMode, Register, At, appVars, linkVars
  <2> QED
    BY <2>1, <2>2, <1>g, <1>m, <1>i
<1>10. ASSUME NEW p \in Procs, Quit(p) PROVE LinkInv'
  <2>1. \A c \in Conn : link'[c] = "open" => link[c] = "open"
    BY <1>10 DEF Quit
  <2>2. /\ proc' = [proc EXCEPT ![p] = Idle] /\ ~At(p, "adopt") /\ UNCHANGED <<svc, conns>>
    BY <1>10 DEF Quit, At
  <2> QED
    BY <2>1, <2>2, <1>i, MoveKeepsLink
\* What the managers do leaves the handlers where they are.
<1>u. ASSUME UNCHANGED <<svc, conns, proc>>, \A c \in Conn : link'[c] = "open" => link[c] = "open"
      PROVE  LinkInv'
  BY <1>u, QuietKeepsLink DEF At
<1>11. ASSUME NEW w \in Place, NEW t \in Tunnels, TunnelChanges(w, t) PROVE LinkInv'
  BY <1>11, <1>u DEF TunnelChanges, appVars
<1>12. CASE ServiceStops \/ ServiceStarts
  BY <1>12, <1>u DEF ServiceStops, ServiceStarts, appVars, linkVars
<1>13. ASSUME NEW c \in Conn, Break(c) PROVE LinkInv'
  BY <1>13, <1>t, <1>u DEF Break, appVars
<1>14. ASSUME NEW e \in Event, Handle(e), UNCHANGED <<svc, conns, link>> PROVE LinkInv'
  <2>1. \A p \in Procs : proc'[p].at = proc[p].at /\ proc'[p].conn = proc[p].conn
    BY <1>14, TouchTypes DEF Handle, Event
  <2> QED
    BY <1>14, <2>1, QuietKeepsLink DEF At
<1>e. \A s \in Seq(Event) : s # <<>> => Head(s) \in Event
  OBVIOUS
<1>15. CASE LocalEvent
  <2>1. Head(localQ) \in Event
    BY <1>15, <1>e DEF LocalEvent, Types, TypeOK
  <2> QED
    BY <1>15, <2>1, <1>14 DEF LocalEvent, appVars, linkVars
<1>16. ASSUME NEW c \in Conn, ServiceEvent(c) PROVE LinkInv'
  <2>1. Head(linkQ[c]) \in Event
    BY <1>16, <1>e DEF ServiceEvent, Types, TypeOK
  <2> QED
    BY <1>16, <2>1, <1>14 DEF ServiceEvent, appVars
<1>17. ASSUME NEW c \in Conn, ServiceGone(c) PROVE LinkInv'
  <2>1. link[c] = "broken" /\ UNCHANGED <<link, conns, proc>> /\ (svc' = svc \/ (svc = c /\ svc' = Nil))
    BY <1>17 DEF ServiceGone
  <2>2. Dialled'
    BY <2>1, <1>t, BoundAssumption DEF LinkInv, Dialled, Nil
  <2>3. InHand'
    BY <2>1, <1>t DEF LinkInv, InHand, At, Nil
  <2>4. NoLeakedConnection'
    BY <2>1 DEF LinkInv, NoLeakedConnection, At
  <2> QED
    BY <2>2, <2>3, <2>4 DEF LinkInv
<1>18. CASE UNCHANGED vars
  BY <1>18, <1>u DEF vars, appVars, linkVars
<1> QED
  BY <1>1, <1>2, <1>3, <1>4, <1>5, <1>6, <1>7, <1>8, <1>9, <1>10, <1>11, <1>12, <1>13,
     <1>15, <1>16, <1>17, <1>18 DEF Next, Handler

\* However many calls dial the service at the same time, an open connection is
\* the one in use or in the hands of the call that is about to adopt or close
\* it: every event of the service reaches the window over one connection.
THEOREM ConnectionCorrect == Spec => []NoLeakedConnection
<1>1. Init => Types /\ LinkInv
  BY InitTypes, InitLink
<1>2. Types /\ LinkInv /\ [Next]_vars => Types' /\ LinkInv'
  BY StepTypes, StepLink
<1>3. LinkInv => NoLeakedConnection
  BY DEF LinkInv
<1> QED
  BY <1>1, <1>2, <1>3, PTL DEF Spec
-----------------------------------------------------------------------------
(* What the window shows                                                   *)

\* The last event of t in q says whether t is up.
Tells(q, t, up) ==
  \A i \in 1..Len(q) : q[i].t = t /\ (\A j \in (i + 1)..Len(q) : q[j].t # t) => (q[i].type = "connected" <=> up)

\* An event of t waits in q.
Waits(q, t) == \E i \in 1..Len(q) : q[i].t = t

\* An event of t is on its way to the window.
Pending(t) == Waits(localQ, t) \/ (svc # Nil /\ Waits(linkQ[svc], t))

Off(w) == \A t \in Tunnels : tun[w][t] = "off"

\* Connections whose events the window gets, now or when a call adopts them.
Ours(c) == svc = c \/ \E p \in Procs : At(p, "adopt") /\ proc[p].conn = c

\* Connections and calls: forwardServiceEvents reads the connection in use and
\* no other, calls use none but those adopted, and an idle handler is as new.
Wired ==
  /\ \A c \in Conn : c > conns => link[c] = "none" /\ fwd[c] = "none" /\ linkQ[c] = <<>>
  /\ \A c \in Conn : fwd[c] = "run" <=> svc = c
  /\ \A c \in Conn : fwd[c] = "done" => link[c] = "broken"
  /\ \A p \in Procs : At(p, "adopt") => fwd[proc[p].conn] = "none" /\ link[proc[p].conn] # "none"
  /\ \A p \in Procs : proc[p].conn # Nil /\ ~At(p, "adopt") => fwd[proc[p].conn] # "none"
  /\ \A p \in Procs : ~proc[p].ok => At(p, "end")
  /\ \A p \in Procs : At(p, "idle") => proc[p] = Idle

\* Nothing has happened that the window cannot know of.
Good == alive /\ ~lost /\ ~crossed /\ ~behind

\* Tunnels of the service run only while the connection in use is open, but for
\* those an earlier application has left, of which the window knows nothing.
Heard ==
  /\ svc # Nil => available /\ (link[svc] = "open" \/ Off("service"))
  /\ svc = Nil => \A t \in Tunnels : tun["service"][t] # "starting"
  /\ svc = Nil /\ ~Off("service") =>
       /\ available /\ \A c \in Conn : fwd[c] = "none" /\ link[c] # "broken"
       /\ \A t \in Tunnels : shown[t] # "on"

\* The events that wait end with what is the case.
Told ==
  \A t \in Tunnels :
    /\ Tells(localQ, t, tun["local"][t] = "up")
    /\ \A c \in Conn : Ours(c) => Tells(linkQ[c], t, link[c] = "open" /\ tun["service"][t] = "up")

\* One of the managers has neither tunnels nor news of them.
Apart ==
  \/ Off("local") /\ localQ = <<>>
  \/ Off("service") /\ \A c \in Conn : linkQ[c] = <<>>

\* A tunnel t of w is up, unless an event of it is on its way to the window.
Known(w, t) ==
  \/ tun[w][t] = "up"
  \/ w = "local" /\ Waits(localQ, t)
  \/ w = "service" /\ svc # Nil /\ Waits(linkQ[svc], t)

\* What the end of a handler marks is so: it marks one of its own tunnels, a
\* disconnect fails only with its connection, a tunnel whose connect is under
\* way is not shown as connected, and one found connected is, unless an event
\* has come or is to come.
RightMark(r) ==
  /\ r.op \in {"connect", "status"} => r.todo # {} \/ Tunnels = {}
  /\ r.op = "disconnect" /\ ~r.ok => r.conn # Nil /\ link[r.conn] # "open"
  /\ \A t \in r.todo \ r.touched :
       /\ r.op = "connect" => shown[t] # "on"
       /\ r.op = "status" /\ r.at = "end" /\ r.ok /\ t \in Due(r.todo) =>
            Known(r.w, t) /\ (r.w = "service" => r.conn # Nil)

Marks == \A p \in Procs : RightMark(proc[p])

\* The window is still to learn from p whether t is connected.
Asking(p, t) ==
  /\ proc[p].op = "status" /\ t \in proc[p].todo
  /\ \/ At(p, "choose")
     \/ proc[p].w = "service" /\ (At(p, "end") /\ t \in Due(proc[p].todo) => proc[p].ok \/ Cut(p))

\* What the window shows is so, unless an event is on its way.  Tunnels an earlier
\* application has left it does not show before it has asked for them, and
\* not at all as long as commands go to the own manager.
Shows ==
  \A t \in Tunnels :
    /\ shown[t] = "on" => Pending(t) \/ \E w \in Place : tun[w][t] = "up"
    /\ tun["local"][t] = "up" => Pending(t) \/ shown[t] = "on"
    /\ tun["service"][t] = "up" =>
         \/ Pending(t) \/ shown[t] = "on" \/ mode = "socks5"
         \/ \E p \in Procs : At(p, "register") \/ Asking(p, t)

Sound == Heard /\ Told /\ Apart /\ Marks /\ Shows

WindowInv == Wired /\ (Good => Sound)
-----------------------------------------------------------------------------
\* No event waits in an empty queue.
LEMMA EmptyTells ==
  ASSUME NEW t, NEW up
  PROVE  Tells(<<>>, t, up) /\ ~Waits(<<>>, t)
BY DEF Tells, Waits

\* An event waits in a queue if it did before, or has been added.
LEMMA ConcatWaits ==
  ASSUME NEW q \in Seq(Event), NEW es \in Seq(Event), NEW t
  PROVE  Waits(q \o es, t) <=> Waits(q, t) \/ Waits(es, t)
<1>1. /\ Len(q \o es) = Len(q) + Len(es) /\ Len(q) \in Nat /\ Len(es) \in Nat
      /\ \A i \in 1..Len(q) : (q \o es)[i] = q[i]
      /\ \A i \in 1..Len(es) : (q \o es)[Len(q) + i] = es[i]
  OBVIOUS
<1>2. ASSUME Waits(q \o es, t) PROVE Waits(q, t) \/ Waits(es, t)
  <2>1. PICK i \in 1..Len(q \o es) : (q \o es)[i].t = t
    BY <1>2 DEF Waits
  <2>2. CASE i <= Len(q)
    BY <2>1, <2>2, <1>1 DEF Waits
  <2>3. CASE i > Len(q)
    <3>1. i - Len(q) \in 1..Len(es) /\ Len(q) + (i - Len(q)) = i
      BY <2>3, <1>1
    <3> QED
      BY <2>1, <3>1, <1>1 DEF Waits
  <2> QED
    BY <2>2, <2>3, <1>1
<1>3. ASSUME Waits(q, t) PROVE Waits(q \o es, t)
  <2>1. PICK i \in 1..Len(q) : q[i].t = t
    BY <1>3 DEF Waits
  <2>2. i \in 1..Len(q \o es) /\ (q \o es)[i].t = t
    BY <2>1, <1>1
  <2> QED
    BY <2>2 DEF Waits
<1>4. ASSUME Waits(es, t) PROVE Waits(q \o es, t)
  <2>1. PICK i \in 1..Len(es) : es[i].t = t
    BY <1>4 DEF Waits
  <2>2. Len(q) + i \in 1..Len(q \o es) /\ (q \o es)[Len(q) + i].t = t
    BY <2>1, <1>1
  <2> QED
    BY <2>2 DEF Waits
<1> QED
  BY <1>2, <1>3, <1>4

\* What the added events tell of a tunnel counts; if they do not, what the
\* earlier ones tell.
LEMMA ConcatTells ==
  ASSUME NEW q \in Seq(Event), NEW es \in Seq(Event), NEW t, NEW up,
         Waits(es, t) => Tells(es, t, up),
         ~Waits(es, t) => Tells(q, t, up)
  PROVE  Tells(q \o es, t, up)
<1>1. /\ Len(q \o es) = Len(q) + Len(es) /\ Len(q) \in Nat /\ Len(es) \in Nat
      /\ \A i \in 1..Len(q) : (q \o es)[i] = q[i]
      /\ \A i \in 1..Len(es) : (q \o es)[Len(q) + i] = es[i]
  OBVIOUS
<1> SUFFICES ASSUME NEW i \in 1..Len(q \o es), (q \o es)[i].t = t,
                    \A j \in (i + 1)..Len(q \o es) : (q \o es)[j].t # t
             PROVE  (q \o es)[i].type = "connected" <=> up
  BY DEF Tells
<1>2. CASE i > Len(q)
  <2> DEFINE k == i - Len(q)
  <2>1. k \in 1..Len(es) /\ Len(q) + k = i
    BY <1>2, <1>1
  <2>2. (q \o es)[i] = es[k]
    BY <2>1, <1>1
  <2>3. \A j \in (k + 1)..Len(es) : es[j].t # t
    <3> TAKE j \in (k + 1)..Len(es)
    <3>1. Len(q) + j \in (i + 1)..Len(q \o es) /\ j \in 1..Len(es)
      BY <2>1, <1>1
    <3> QED
      BY <3>1, <1>1
  <2>4. Waits(es, t) /\ es[k].t = t
    BY <2>1, <2>2 DEF Waits
  <2> QED
    BY <2>1, <2>2, <2>3, <2>4 DEF Tells
<1>3. CASE i <= Len(q)
  <2>1. ~Waits(es, t)
    <3> SUFFICES ASSUME NEW j \in 1..Len(es), es[j].t = t PROVE FALSE
      BY DEF Waits
    <3>1. Len(q) + j \in (i + 1)..Len(q \o es)
      BY <1>3, <1>1
    <3> QED
      BY <3>1, <1>1
  <2>2. i \in 1..Len(q) /\ (q \o es)[i] = q[i]
    BY <1>3, <1>1
  <2>3. \A j \in (i + 1)..Len(q) : q[j].t # t
    <3> TAKE j \in (i + 1)..Len(q)
    <3>1. j \in (i + 1)..Len(q \o es) /\ j \in 1..Len(q)
      BY <1>1, <2>2
    <3> QED
      BY <3>1, <1>1
  <2> QED
    BY <2>1, <2>2, <2>3 DEF Tells
<1> QED
  BY <1>1, <1>2, <1>3

\* An event is taken from a queue: another of its tunnel waits, or it told how
\* the tunnel is.
LEMMA HeadTells ==
  ASSUME NEW q \in Seq(Event), q # <<>>, NEW t, NEW up, Tells(q, t, up)
  PROVE  /\ Tells(Tail(q), t, up)
         /\ Waits(q, t) <=> Head(q).t = t \/ Waits(Tail(q), t)
         /\ Head(q).t = t /\ ~Waits(Tail(q), t) => (Head(q).type = "connected" <=> up)
<1>1. /\ Len(q) \in Nat \ {0} /\ Len(Tail(q)) = Len(q) - 1 /\ Head(q) = q[1]
      /\ \A i \in 1..Len(Tail(q)) : Tail(q)[i] = q[i + 1]
  OBVIOUS
<1>2. Tells(Tail(q), t, up)
  <2> SUFFICES ASSUME NEW i \in 1..Len(Tail(q)), Tail(q)[i].t = t,
                      \A j \in (i + 1)..Len(Tail(q)) : Tail(q)[j].t # t
               PROVE  Tail(q)[i].type = "connected" <=> up
    BY DEF Tells
  <2>1. i + 1 \in 1..Len(q) /\ q[i + 1] = Tail(q)[i]
    BY <1>1
  <2>2. \A j \in (i + 1 + 1)..Len(q) : q[j].t # t
    <3> TAKE j \in (i + 1 + 1)..Len(q)
    <3>1. j - 1 \in (i + 1)..Len(Tail(q)) /\ j - 1 \in 1..Len(Tail(q)) /\ (j - 1) + 1 = j
      BY <1>1
    <3> QED
      BY <3>1, <1>1
  <2> QED
    BY <2>1, <2>2 DEF Tells
<1>3. Waits(q, t) <=> Head(q).t = t \/ Waits(Tail(q), t)
  <2>1. ASSUME NEW i \in 1..Len(q), q[i].t = t, i # 1 PROVE Waits(Tail(q), t)
    <3>1. i - 1 \in 1..Len(Tail(q)) /\ (i - 1) + 1 = i
      BY <2>1, <1>1
    <3> QED
      BY <2>1, <3>1, <1>1 DEF Waits
  <2>2. ASSUME NEW i \in 1..Len(Tail(q)), Tail(q)[i].t = t PROVE Waits(q, t)
    <3>1. i + 1 \in 1..Len(q) /\ q[i + 1].t = t
      BY <2>2, <1>1
    <3> QED
      BY <3>1 DEF Waits
  <2>3. Head(q).t = t => Waits(q, t)
    BY <1>1 DEF Waits
  <2> QED
    BY <2>1, <2>2, <2>3, <1>1 DEF Waits
<1>4. ASSUME Head(q).t = t, ~Waits(Tail(q), t) PROVE Head(q).type = "connected" <=> up
  <2>1. \A j \in (1 + 1)..Len(q) : q[j].t # t
    <3> TAKE j \in (1 + 1)..Len(q)
    <3>1. j - 1 \in 1..Len(Tail(q)) /\ (j - 1) + 1 = j
      BY <1>1
    <3> QED
      BY <1>4, <3>1, <1>1 DEF Waits
  <2>2. 1 \in 1..Len(q) /\ q[1].t = t
    BY <1>1, <1>4
  <2> QED
    BY <2>1, <2>2, <1>1 DEF Tells
<1> QED
  BY <1>2, <1>3, <1>4
-----------------------------------------------------------------------------
(* What happens at a manager                                               *)

\* At w the events es happen: a tunnel they tell of ran, and is what the last
\* of them says; the others stay as they are.
Happens(w, es) ==
  /\ es \in Seq(Event) /\ Emit(w, es)
  /\ \A v \in Place \ {w} : tun'[v] = tun[v]
  /\ \A t \in Tunnels :
       IF Waits(es, t)
       THEN tun[w][t] # "off" /\ tun'[w][t] # "starting" /\ Tells(es, t, tun'[w][t] = "up")
       ELSE tun'[w][t] = tun[w][t]

\* Stopped tunnels that ran are told of as disconnected.
LEMMA StopHappens ==
  ASSUME Types, NEW w \in Place, NEW ts \in SUBSET Tunnels, StopAt(w, ts)
  PROVE  /\ \E es : Happens(w, es)
         /\ \A t \in Tunnels : tun'[w][t] = IF t \in ts THEN "off" ELSE tun[w][t]
<1> DEFINE on == {t \in ts : tun[w][t] # "off"}
           n == Cardinality(on)
           order == CHOOSE f \in [1..n -> on] : \A t \in on : \E i \in DOMAIN f : f[i] = t
           es == [i \in 1..n |-> Ev(order[i], "disconnected")]
<1>1. IsFiniteSet(on)
  BY TunnelsAssumption, FS_Subset
<1>2. n \in Nat /\ ExistsBijection(1..n, on)
  BY <1>1, FS_CardinalityType
<1>3. \E f \in [1..n -> on] : \A t \in on : \E i \in DOMAIN f : f[i] = t
  BY <1>2 DEF ExistsBijection, Bijection, Surjection
<1>4. order \in [1..n -> on] /\ \A t \in on : \E i \in 1..n : order[i] = t
  BY <1>3
<1>5. on \subseteq Tunnels /\ \A t \in ts : t \in on <=> tun[w][t] # "off"
  OBVIOUS
<1>6. /\ tun' = [tun EXCEPT ![w] = [t \in Tunnels |-> IF t \in on THEN "off" ELSE @[t]]]
      /\ Emit(w, es)
  BY DEF StopAt
<1>o. \A t \in Tunnels : t \in on => t \in ts
  OBVIOUS
<1> HIDE DEF order, on, n
<1>7. es \in Seq(Event) /\ Len(es) = n /\ \A i \in 1..n : es[i].t = order[i] /\ es[i].type = "disconnected"
  BY <1>2, <1>4, <1>5 DEF Ev, Event
<1> HIDE DEF es
<1>8. \A t \in Tunnels : Waits(es, t) <=> t \in on
  BY <1>4, <1>7, <1>2 DEF Waits
<1>9. \A t \in Tunnels : Tells(es, t, FALSE)
  BY <1>7 DEF Tells
<1>10. /\ \A v \in Place \ {w} : tun'[v] = tun[v]
       /\ \A t \in Tunnels : tun'[w][t] = IF t \in on THEN "off" ELSE tun[w][t]
  BY <1>6 DEF Types, TypeOK
<1>11. ASSUME NEW t \in Tunnels
       PROVE  IF Waits(es, t)
              THEN tun[w][t] # "off" /\ tun'[w][t] # "starting" /\ Tells(es, t, tun'[w][t] = "up")
              ELSE tun'[w][t] = tun[w][t]
  <2>1. CASE t \in on
    <3>1. tun'[w][t] = "off" /\ tun[w][t] # "off"
      BY <2>1, <1>10, <1>5, <1>o
    <3>2. Tells(es, t, tun'[w][t] = "up")
      BY <3>1, <1>9 DEF Tells
    <3> QED
      BY <2>1, <3>1, <3>2, <1>8
  <2>2. CASE t \notin on
    BY <2>2, <1>8, <1>10
  <2> QED
    BY <2>1, <2>2
<1>12. Happens(w, es)
  BY <1>6, <1>7, <1>10, <1>11 DEF Happens
<1>13. \A t \in Tunnels : tun'[w][t] = IF t \in ts THEN "off" ELSE tun[w][t]
  BY <1>10, <1>5, <1>o
<1> QED
  BY <1>12, <1>13

\* So is a tunnel that comes up, fails or falls, as what it becomes.
LEMMA ChangeHappens ==
  ASSUME Types, NEW w \in Place, NEW u \in Tunnels, TunnelChanges(w, u)
  PROVE  \E es : Happens(w, es)
<1>t. tun \in [Place -> [Tunnels -> {"off", "starting", "up"}]]
  BY DEF Types, TypeOK
<1>1. PICK v \in {"off", "up"}, k \in {"connected", "disconnected", "error"} :
         /\ tun[w][u] # "off" /\ (k = "connected" <=> v = "up")
         /\ tun' = [tun EXCEPT ![w][u] = v] /\ Emit(w, <<Ev(u, k)>>)
  BY DEF TunnelChanges
<1> DEFINE es == <<Ev(u, k)>>
<1>2. es \in Seq(Event) /\ Len(es) = 1 /\ es[1].t = u /\ es[1].type = k
  BY DEF Ev, Event
<1>3. Emit(w, es)
  BY <1>1
<1> HIDE DEF es
<1>4. \A t \in Tunnels : Waits(es, t) <=> t = u
  BY <1>2 DEF Waits
<1>5. tun'[w][u] = v /\ \A t \in Tunnels \ {u} : tun'[w][t] = tun[w][t]
  BY <1>1, <1>t
<1>6. \A x \in Place \ {w} : tun'[x] = tun[x]
  BY <1>1, <1>t
<1>7. Tells(es, u, tun'[w][u] = "up")
  BY <1>1, <1>2, <1>5 DEF Tells
<1> QED
  BY <1>1, <1>2, <1>3, <1>4, <1>5, <1>6, <1>7 DEF Happens
-----------------------------------------------------------------------------
(* Connections and calls                                                   *)

\* A handler that notes marked tunnels keeps all else.
LEMMA TouchKeeps ==
  ASSUME Types, NEW ts \in SUBSET Tunnels, NEW p \in Procs
  PROVE  /\ \A f \in {"at", "op", "todo", "w", "conn", "ok"} : Touch(ts)[p][f] = proc[p][f]
         /\ Touch(ts)[p].touched = IF At(p, "idle") THEN proc[p].touched ELSE proc[p].touched \cup ts
         /\ At(p, "idle") => Touch(ts)[p] = proc[p]
<1>1. proc[p] \in Caller
  BY DEF Types
<1> QED
  BY <1>1 DEF Touch, Caller, At

\* q is where it was, with the same command and connection.
Stays(q) ==
  /\ proc'[q].at = proc[q].at /\ proc'[q].op = proc[q].op /\ proc'[q].todo = proc[q].todo
  /\ proc'[q].w = proc[q].w /\ proc'[q].conn = proc[q].conn /\ proc'[q].ok = proc[q].ok
  /\ proc[q].touched \subseteq proc'[q].touched
  /\ At(q, "idle") => proc'[q] = proc[q]

\* So it stays where it is, and an idle one notes nothing.
LEMMA TouchStays ==
  ASSUME Types, NEW ts \in SUBSET Tunnels, NEW q \in Procs, proc'[q] = Touch(ts)[q]
  PROVE  Stays(q) /\ (~At(q, "idle") => ts \subseteq proc'[q].touched)
<1>1. /\ Touch(ts)[q].at = proc[q].at /\ Touch(ts)[q].op = proc[q].op /\ Touch(ts)[q].todo = proc[q].todo
      /\ Touch(ts)[q].w = proc[q].w /\ Touch(ts)[q].conn = proc[q].conn /\ Touch(ts)[q].ok = proc[q].ok
  BY DEF Types, Caller, Touch, At
<1> QED
  BY <1>1, TouchKeeps DEF Stays

\* When one handler moves the others stay.
LEMMA MoveStays ==
  ASSUME Types, NEW p \in Procs, NEW r, proc' = [proc EXCEPT ![p] = r]
  PROVE  proc'[p] = r /\ \A q \in Procs \ {p} : proc'[q] = proc[q] /\ Stays(q)
BY DEF Types, Stays

\* A handler that moves to r, or none, while connections only break.
LEMMA WiredMove ==
  ASSUME Types, Wired, UNCHANGED <<conns, fwd, svc>>,
         \A c \in Conn : /\ link'[c] = link[c] \/ (link[c] = "open" /\ link'[c] = "broken")
                         /\ c > conns => linkQ'[c] = linkQ[c],
         NEW p \in Procs, NEW r, proc'[p] = r, \A q \in Procs \ {p} : Stays(q),
         r.at # "adopt" \/ Stays(p), r.conn # Nil => r.at = "adopt" \/ fwd[r.conn] # "none",
         ~r.ok => r.at = "end", r.at = "idle" => r = Idle
  PROVE  Wired'
<1>0. \A c \in Conn : /\ c > conns => link[c] = "none" /\ fwd[c] = "none" /\ linkQ[c] = <<>>
                      /\ (fwd[c] = "run" <=> svc = c) /\ (fwd[c] = "done" => link[c] = "broken")
  BY DEF Wired
<1>u. conns' = conns /\ fwd' = fwd /\ svc' = svc
  OBVIOUS
<1>1. \A c \in Conn : c > conns' => link'[c] = "none" /\ fwd'[c] = "none" /\ linkQ'[c] = <<>>
  BY <1>0, <1>u
<1>2. \A c \in Conn : (fwd'[c] = "run" <=> svc' = c) /\ (fwd'[c] = "done" => link'[c] = "broken")
  BY <1>0, <1>u
<1>j. \A q \in Procs : At(q, "adopt") => proc[q].conn \in Conn
  BY DEF Types, Caller
<1>k. \A q \in Procs : At(q, "adopt")' => At(q, "adopt") /\ proc'[q].conn = proc[q].conn
  BY DEF Stays, At
<1>3. \A q \in Procs : At(q, "adopt")' => fwd'[proc'[q].conn] = "none" /\ link'[proc'[q].conn] # "none"
  BY <1>j, <1>k DEF Wired
<1>4. \A q \in Procs : proc'[q].conn # Nil /\ ~At(q, "adopt")' => fwd'[proc'[q].conn] # "none"
  BY DEF Wired, Stays, At
<1>5. \A q \in Procs : ~proc'[q].ok => At(q, "end")'
  BY DEF Wired, Stays, At
<1>6. \A q \in Procs : At(q, "idle")' => proc'[q] = Idle
  BY DEF Wired, Stays, At
<1> QED
  BY <1>1, <1>2, <1>3, <1>4, <1>5, <1>6 DEF Wired, Nil

\* No handler moves, and connections only break.
LEMMA WiredStay ==
  ASSUME Types, Wired, UNCHANGED <<conns, fwd, svc>>,
         \A c \in Conn : /\ link'[c] = link[c] \/ (link[c] = "open" /\ link'[c] = "broken")
                         /\ c > conns => linkQ'[c] = linkQ[c],
         \A q \in Procs : Stays(q)
  PROVE  Wired'
<1>1. CASE Procs = {}
  BY <1>1 DEF Wired
<1>2. CASE Procs # {}
  <2>1. PICK p \in Procs : TRUE
    BY <1>2
  <2>2. proc[p].conn # Nil => At(p, "adopt") \/ fwd[proc[p].conn] # "none"
    BY DEF Wired
  <2>3. /\ ~proc[p].ok => proc[p].at = "end"
        /\ proc[p].at = "idle" => proc[p] = Idle
    BY DEF Wired, At
  <2>4. /\ proc'[p].at = "idle" => proc'[p] = Idle
        /\ ~proc'[p].ok => proc'[p].at = "end"
        /\ proc'[p].conn # Nil => proc'[p].at = "adopt" \/ fwd[proc'[p].conn] # "none"
        /\ Stays(p)
    BY <2>2, <2>3 DEF Stays, At
  <2> QED
    BY <2>4, WiredMove
<1> QED
  BY <1>1, <1>2

\* Events are added to connections that are open.
LEMMA EmitWires ==
  ASSUME Types, NEW w \in Place, NEW es, Emit(w, es), NEW c \in Conn, link[c] # "open"
  PROVE  linkQ'[c] = linkQ[c]
BY DEF Emit, Listening, Types, TypeOK

\* The wiring outlives every step.
LEMMA StepWired == Types /\ LinkInv /\ Wired /\ [Next]_vars => Wired'
<1> SUFFICES ASSUME Types, LinkInv, Wired, [Next]_vars PROVE Wired'
  OBVIOUS
<1>t. /\ proc \in [Procs -> Caller] /\ link \in [Conn -> {"none", "open", "broken"}]
      /\ svc \in Conn \cup {Nil} /\ conns \in 0..MaxConns /\ linkQ \in [Conn -> Seq(Event)]
      /\ fwd \in [Conn -> {"none", "run", "done"}]
  BY DEF Types, TypeOK
<1>c. \A p \in Procs : proc[p] \in Caller
  BY <1>t
<1>z. \A c \in Conn : c > conns => link[c] = "none"
  BY DEF Wired
<1>i. Idle.at = "idle" /\ Idle.conn = Nil /\ Idle.ok
  BY DEF Idle
<1>n. \A p \in Procs : proc[p].conn # Nil /\ ~At(p, "adopt") => fwd[proc[p].conn] # "none"
  BY DEF Wired
\* A handler p moves from elsewhere than adopt to a place of its own.
<1>m. ASSUME NEW p \in Procs, NEW r, proc' = [proc EXCEPT ![p] = r], UNCHANGED <<conns, fwd, svc>>,
             \A c \in Conn : /\ link'[c] = link[c] \/ (link[c] = "open" /\ link'[c] = "broken")
                             /\ c > conns => linkQ'[c] = linkQ[c],
             ~At(p, "adopt"), r.at \notin {"adopt", "idle"} \/ r = Idle, r.ok \/ r.at = "end",
             r.conn \in {Nil, proc[p].conn, svc}
      PROVE  Wired'
  <2>1. proc'[p] = r /\ \A q \in Procs \ {p} : Stays(q)
    BY <1>m, MoveStays
  <2>2. r.conn # Nil => fwd[r.conn] # "none"
    <3>1. svc # Nil => fwd[svc] = "run"
      BY <1>t DEF Wired
    <3> QED
      BY <3>1, <1>m, <1>n
  <2> QED
    BY <1>m, <2>1, <2>2, <1>i, WiredMove
<1>1. ASSUME NEW p \in Procs, Click(p) PROVE Wired'
  <2>0. \E o, ts : \E l \in {"choose", "switch", "register", "quit"} : Begin(p, o, ts, l)
    <3>1. CASE Toggle(p)
      BY <3>1 DEF Toggle
    <3>2. CASE ConnectAll(p)
      BY <3>2 DEF ConnectAll
    <3>3. CASE DisconnectAll(p)
      BY <3>3 DEF DisconnectAll
    <3>4. CASE Leave(p)
      BY <3>4 DEF Leave
    <3> QED
      BY <1>1, <3>1, <3>2, <3>3, <3>4 DEF Click
  <2>1. PICK o, ts : \E l \in {"choose", "switch", "register", "quit"} : Begin(p, o, ts, l)
    BY <2>0
  <2>2. PICK l \in {"choose", "switch", "register", "quit"} : Begin(p, o, ts, l)
    BY <2>1
  <2> DEFINE r == [Idle EXCEPT !.at = l, !.op = o, !.todo = ts]
  <2>3. r.at = l /\ r.conn = Nil /\ r.ok /\ proc' = [proc EXCEPT ![p] = r]
    BY <2>2 DEF Begin, Idle
  <2>4. ~At(p, "adopt") /\ UNCHANGED <<svc, conns, fwd, link, linkQ>>
    BY <1>1 DEF Click, At, appVars, linkVars
  <2> HIDE DEF r
  <2> QED
    BY <2>3, <2>4, <1>m
<1>2. ASSUME NEW p \in Procs, Choose(p) PROVE Wired'
  <2> DEFINE r == [proc[p] EXCEPT !.w = Backend, !.at = IF Backend = "service" THEN "client" ELSE "run"]
  <2>1. r.at \in {"client", "run"} /\ r.conn = proc[p].conn /\ r.ok = proc[p].ok
    BY <1>c DEF Caller
  <2>2. proc' = [proc EXCEPT ![p] = r] /\ At(p, "choose") /\ UNCHANGED <<svc, conns, fwd, link, linkQ>>
    BY <1>2 DEF Choose, appVars, linkVars
  <2>3. proc[p].ok
    BY <2>2 DEF Wired, At
  <2> HIDE DEF r
  <2> QED
    BY <2>1, <2>2, <2>3, <1>m DEF At
<1>3. ASSUME NEW p \in Procs, ServiceClient(p) PROVE Wired'
  <2>0. At(p, "client") /\ UNCHANGED <<svc, conns, fwd, link, linkQ>>
    BY <1>3 DEF ServiceClient, appVars, linkVars
  <2>1. \E r : /\ proc' = [proc EXCEPT ![p] = r]
               /\ r.at \in {"run", "dial"} /\ r.conn \in {proc[p].conn, svc} /\ r.ok = proc[p].ok
    <3> DEFINE r == [proc[p] EXCEPT !.at = "run", !.conn = svc]
               d == [proc[p] EXCEPT !.at = "dial"]
    <3>1. r.at = "run" /\ r.conn = svc /\ r.ok = proc[p].ok
      BY <1>c DEF Caller
    <3>2. d.at = "dial" /\ d.conn = proc[p].conn /\ d.ok = proc[p].ok
      BY <1>c DEF Caller
    <3>3. proc' = [proc EXCEPT ![p] = r] \/ proc' = [proc EXCEPT ![p] = d]
      BY <1>3 DEF ServiceClient, Goto
    <3> HIDE DEF r, d
    <3> QED
      BY <3>1, <3>2, <3>3
  <2>3. proc[p].ok
    BY <2>0 DEF Wired, At
  <2> QED
    BY <2>0, <2>1, <2>3, <1>m DEF At
<1>4. ASSUME NEW p \in Procs, Dial(p) PROVE Wired'
  <2>0. At(p, "dial") /\ UNCHANGED <<svc, fwd, linkQ>>
    BY <1>4 DEF Dial, appVars
  <2>p. proc[p].ok
    BY <2>0 DEF Wired, At
  <2>1. CASE /\ conns < MaxConns /\ conns' = conns + 1
             /\ link' = [link EXCEPT ![conns + 1] = "open"]
             /\ proc' = [proc EXCEPT ![p].at = "adopt", ![p].conn = conns + 1]
    <3> DEFINE r == [proc[p] EXCEPT !.at = "adopt", !.conn = conns + 1]
    <3>0. conns + 1 \in Conn /\ conns \in Nat /\ fwd[conns + 1] = "none"
      BY <2>1, <1>t, BoundAssumption DEF Conn, Wired
    <3>1. r.at = "adopt" /\ r.conn = conns + 1 /\ r.ok = proc[p].ok
      BY <1>c DEF Caller
    <3>2. \A q \in Procs : proc'[q] = IF q = p THEN r ELSE proc[q]
      BY <2>1, <1>t
    <3> HIDE DEF r
    <3>w. \A c \in Conn : /\ c > conns => link[c] = "none" /\ fwd[c] = "none" /\ linkQ[c] = <<>>
                          /\ (fwd[c] = "run" <=> svc = c) /\ (fwd[c] = "done" => link[c] = "broken")
      BY DEF Wired
    <3>3. \A c \in Conn : c > conns' => link'[c] = "none" /\ fwd'[c] = "none" /\ linkQ'[c] = <<>>
      BY <3>w, <3>0, <2>1, <2>0, <1>t DEF Conn
    <3>4. \A c \in Conn : (fwd'[c] = "run" <=> svc' = c) /\ (fwd'[c] = "done" => link'[c] = "broken")
      BY <3>w, <3>0, <2>1, <2>0, <1>t
    <3>5. \A q \in Procs : At(q, "adopt")' => fwd'[proc'[q].conn] = "none" /\ link'[proc'[q].conn] # "none"
      <4>1. \A q \in Procs : At(q, "adopt") => proc[q].conn \in Conn
        BY <1>c DEF Types, Caller
      <4>2. link'[conns + 1] = "open" /\ \A c \in Conn : link[c] # "none" => link'[c] # "none"
        BY <2>1, <3>0, <1>t
      <4> QED
        BY <3>0, <3>1, <3>2, <2>0, <4>1, <4>2 DEF Wired, At
    <3>6. \A q \in Procs : proc'[q].conn # Nil /\ ~At(q, "adopt")' => fwd'[proc'[q].conn] # "none"
      BY <3>1, <3>2, <2>0 DEF Wired, At
    <3>7. \A q \in Procs : (~proc'[q].ok => At(q, "end")') /\ (At(q, "idle")' => proc'[q] = Idle)
      <4>1. r.ok = TRUE
        BY <3>1, <2>p
      <4> QED
        BY <3>1, <3>2, <4>1 DEF Wired, At
    <3> QED
      BY <3>3, <3>4, <3>5, <3>6, <3>7 DEF Wired, Nil
  <2>2. CASE Goto(p, "absent") /\ UNCHANGED <<link, conns>>
    <3> DEFINE r == [proc[p] EXCEPT !.at = "absent"]
    <3>1. r.at = "absent" /\ r.conn = proc[p].conn /\ r.ok = proc[p].ok /\ proc' = [proc EXCEPT ![p] = r]
      BY <2>2, <1>c DEF Goto, Caller
    <3> HIDE DEF r
    <3> QED
      BY <3>1, <2>p, <2>0, <2>2, <1>m DEF At
  <2> QED
    BY <1>4, <2>1, <2>2 DEF Dial
<1>5. ASSUME NEW p \in Procs, Adopt(p) PROVE Wired'
  <2> DEFINE c == proc[p].conn
  <2>0. /\ At(p, "adopt") /\ c \in 1..conns /\ c \in Conn /\ c # svc /\ fwd[c] = "none" /\ c # Nil
        /\ UNCHANGED <<conns, linkQ>> /\ proc[p].ok
        /\ \A q \in Procs : At(q, "adopt") /\ proc[q].conn = c => q = p
    BY <1>5, <1>t, BoundAssumption DEF Adopt, LinkInv, InHand, Conn, Wired, At, Nil
  <2>1. CASE svc # Nil
    <3> DEFINE r == [proc[p] EXCEPT !.at = "run", !.conn = svc]
    <3>1. r.at = "run" /\ r.conn = svc /\ r.ok = TRUE
      BY <2>0, <1>c DEF Caller
    <3>2. link' = [link EXCEPT ![c] = "broken"] /\ UNCHANGED <<svc, fwd>> /\ proc' = [proc EXCEPT ![p] = r]
      BY <1>5, <2>1 DEF Adopt
    <3>3. fwd[svc] = "run"
      BY <2>1, <1>t DEF Wired
    <3> HIDE DEF r
    <3>w. \A d \in Conn : /\ d > conns => link[d] = "none" /\ fwd[d] = "none" /\ linkQ[d] = <<>>
                          /\ (fwd[d] = "run" <=> svc = d) /\ (fwd[d] = "done" => link[d] = "broken")
      BY DEF Wired
    <3>4. \A d \in Conn : d > conns' => link'[d] = "none" /\ fwd'[d] = "none" /\ linkQ'[d] = <<>>
      BY <3>w, <3>2, <2>0, <1>t DEF Conn
    <3>5. \A d \in Conn : (fwd'[d] = "run" <=> svc' = d) /\ (fwd'[d] = "done" => link'[d] = "broken")
      BY <3>w, <3>2, <1>t
    <3>6. proc'[p] = r /\ \A q \in Procs \ {p} : proc'[q] = proc[q]
      BY <3>2, <1>t
    <3>7. \A q \in Procs : At(q, "adopt")' => fwd'[proc'[q].conn] = "none" /\ link'[proc'[q].conn] # "none"
      BY <3>1, <3>2, <3>6 DEF Wired, At
    <3>8. \A q \in Procs : proc'[q].conn # Nil /\ ~At(q, "adopt")' => fwd'[proc'[q].conn] # "none"
      BY <3>1, <3>2, <3>3, <3>6 DEF Wired, At
    <3>9. \A q \in Procs : (~proc'[q].ok => At(q, "end")') /\ (At(q, "idle")' => proc'[q] = Idle)
      BY <3>1, <3>6 DEF Wired, At
    <3> QED
      BY <3>4, <3>5, <3>7, <3>8, <3>9 DEF Wired, Nil
  <2>2. CASE svc = Nil
    <3> DEFINE r == [proc[p] EXCEPT !.at = "run"]
    <3>1. r.at = "run" /\ r.conn = c /\ r.ok = TRUE
      BY <2>0, <1>c DEF Caller
    <3>2. /\ link' = link /\ svc' = c /\ fwd' = [fwd EXCEPT ![c] = "run"]
          /\ proc' = [proc EXCEPT ![p] = r]
      BY <1>5, <2>2 DEF Adopt, Goto
    <3> HIDE DEF r
    <3>w. \A d \in Conn : /\ d > conns => link[d] = "none" /\ fwd[d] = "none" /\ linkQ[d] = <<>>
                          /\ fwd[d] # "run" /\ (fwd[d] = "done" => link[d] = "broken")
      BY <2>2 DEF Wired, Conn, Nil
    <3>4. \A d \in Conn : d > conns' => link'[d] = "none" /\ fwd'[d] = "none" /\ linkQ'[d] = <<>>
      BY <3>w, <3>2, <2>0, <1>t DEF Conn
    <3>5. \A d \in Conn : (fwd'[d] = "run" <=> svc' = d) /\ (fwd'[d] = "done" => link'[d] = "broken")
      BY <3>w, <3>2, <2>0, <1>t
    <3>6. proc'[p] = r /\ \A q \in Procs \ {p} : proc'[q] = proc[q]
      BY <3>2, <1>t
    <3> HIDE DEF c
    <3>k. \A d : d # c => fwd'[d] = fwd[d]
      BY <3>2, <2>0, <1>t
    <3>l. \A q \in Procs : proc[q].conn \in Conn \cup {Nil}
      BY <1>c DEF Caller
    <3>7. \A q \in Procs : At(q, "adopt")' => fwd'[proc'[q].conn] = "none" /\ link'[proc'[q].conn] # "none"
      BY <3>1, <3>2, <3>k, <3>6, <2>0 DEF Wired, At
    <3>8. \A q \in Procs : proc'[q].conn # Nil /\ ~At(q, "adopt")' => fwd'[proc'[q].conn] # "none"
      <4>1. fwd'[c] = "run"
        BY <3>2, <2>0, <1>t
      <4> QED
        BY <3>1, <3>k, <3>6, <4>1 DEF Wired, At
    <3>9. \A q \in Procs : (~proc'[q].ok => At(q, "end")') /\ (At(q, "idle")' => proc'[q] = Idle)
      BY <3>1, <3>6 DEF Wired, At
    <3> QED
      BY <3>4, <3>5, <3>7, <3>8, <3>9 DEF Wired, Nil
  <2> QED
    BY <2>1, <2>2
\* A handler comes to the end of its command.
<1>f. ASSUME NEW p \in Procs, NEW b, proc' = [proc EXCEPT ![p].at = "end", ![p].ok = b], ~At(p, "adopt"),
             UNCHANGED <<svc, conns, fwd, link>>, \A c \in Conn : c > conns => linkQ'[c] = linkQ[c]
      PROVE  Wired'
  <2> DEFINE r == [proc[p] EXCEPT !.at = "end", !.ok = b]
  <2>1. r.at = "end" /\ r.conn = proc[p].conn /\ proc' = [proc EXCEPT ![p] = r]
    BY <1>c, <1>f DEF Caller
  <2> HIDE DEF r
  <2> QED
    BY <2>1, <1>f, <1>m
<1>6. ASSUME NEW p \in Procs, Absent(p) \/ RunCut(p) PROVE Wired'
  BY <1>6, <1>f DEF Absent, RunCut, At, appVars, linkVars
<1>7. ASSUME NEW p \in Procs, Run(p) PROVE Wired'
  <2>0. At(p, "run") /\ UNCHANGED <<svc, conns, fwd, link>> /\ proc[p].w \in Place /\ proc[p].todo \subseteq Tunnels
    BY <1>7, <1>c DEF Run, appVars, Caller
  <2>1. \A c \in Conn : c > conns => linkQ'[c] = linkQ[c]
    <3>1. UNCHANGED linkQ \/ \E ts \in SUBSET Tunnels : StopAt(proc[p].w, ts)
      BY <1>7, <2>0 DEF Run
    <3>2. UNCHANGED linkQ \/ \E es : Emit(proc[p].w, es)
      BY <3>1, <2>0, StopHappens DEF Happens
    <3> QED
      BY <3>2, <2>0, <1>z, EmitWires
  <2>2. CASE Goto(p, "end")
    <3> DEFINE r == [proc[p] EXCEPT !.at = "end"]
    <3>1. r.at = "end" /\ r.conn = proc[p].conn /\ proc' = [proc EXCEPT ![p] = r]
      BY <1>c, <2>2 DEF Caller, Goto
    <3> HIDE DEF r
    <3> QED
      BY <3>1, <2>0, <2>1, <1>m DEF At
  <2>3. CASE \E b : proc' = [proc EXCEPT ![p].at = "end", ![p].ok = b]
    BY <2>3, <2>0, <2>1, <1>f DEF At
  <2> QED
    BY <1>7, <2>2, <2>3 DEF Run
<1>8. ASSUME NEW p \in Procs, End(p) PROVE Wired'
  <2> DEFINE r == proc[p]
             Rest(t) == [r EXCEPT !.at = CASE r.op = "status" -> "choose"
                                           [] r.w = "service" -> "client"
                                           [] OTHER -> "run",
                                  !.todo = @ \ {t}, !.conn = Nil, !.ok = TRUE]
             Marked(t, ok) == CASE r.op \in {"connect", "disconnect"} -> IF ok THEN shown[t] ELSE "off"
                                [] r.op = "status" -> IF ok THEN "on" ELSE shown[t]
                                [] OTHER -> shown[t]
  <2>1. PICK ok \in {r.ok} \cup (IF Cut(p) THEN {FALSE} ELSE {}),
             t \in IF r.todo = {} THEN Tunnels ELSE Due(r.todo) :
          /\ shown' = [shown EXCEPT ![t] = Marked(t, ok)]
          /\ crossed' = (crossed \/ (Marked(t, ok) # shown[t] /\ t \in r.touched))
          /\ lost' = (lost \/ (~ok /\ Cut(p)))
          /\ proc' = [Touch(IF Marked(t, ok) = shown[t] THEN {} ELSE {t})
                      EXCEPT ![p] = IF r.todo \ {t} = {} THEN Idle ELSE Rest(t)]
    BY <1>8 DEF End
  <2>2. t \in Tunnels
    BY <2>1, <1>c DEF Caller, Due
  <2> HIDE DEF Marked
  <2>3. PICK ts \in SUBSET Tunnels : proc' = [Touch(ts) EXCEPT ![p] = IF r.todo \ {t} = {} THEN Idle ELSE Rest(t)]
    BY <2>1, <2>2
  <2> DEFINE n == IF r.todo \ {t} = {} THEN Idle ELSE Rest(t)
  <2>4. Rest(t).at \notin {"adopt", "idle"} /\ Rest(t).conn = Nil /\ Rest(t).ok
    BY <1>c DEF Caller
  <2>5. (n.at # "adopt" /\ n.conn = Nil /\ n.ok) /\ (n.at = "idle" => n = Idle)
    BY <2>4, <1>i
  <2>6. proc' = [Touch(ts) EXCEPT ![p] = n]
    BY <2>3
  <2> HIDE DEF n
  <2>7. proc'[p] = n /\ \A q \in Procs \ {p} : proc'[q] = Touch(ts)[q]
    BY <2>6, TouchTypes
  <2>8. UNCHANGED <<svc, conns, fwd, link, linkQ>>
    BY <1>8 DEF End, appVars, linkVars
  <2> QED
    BY <2>5, <2>7, <2>8, TouchStays, WiredMove
<1>9. ASSUME NEW p \in Procs, SwitchMode(p) PROVE Wired'
  <2> DEFINE r == [proc[p] EXCEPT !.at = "register"]
  <2>1. r.at = "register" /\ r.conn = proc[p].conn /\ r.ok = proc[p].ok /\ proc' = [proc EXCEPT ![p] = r]
    BY <1>9, <1>c DEF SwitchMode, Goto, Caller
  <2>2. At(p, "switch") /\ proc[p].ok /\ UNCHANGED <<svc, conns, fwd, link, linkQ>>
    BY <1>9 DEF SwitchMode, At, Wired, linkVars
  <2> HIDE DEF r
  <2> QED
    BY <2>1, <2>2, <1>m DEF At
<1>10. ASSUME NEW p \in Procs, Register(p) PROVE Wired'
  <2>1. At(p, "register") /\ proc' = [proc EXCEPT ![p] = Idle] /\ UNCHANGED <<svc, conns, fwd, link>>
    BY <1>10 DEF Register, appVars
  <2>2. \E es : Emit("local", es)
    BY <1>10, StopHappens DEF Register, Happens, Place
  <2>3. UNCHANGED linkQ
    BY <2>2 DEF Emit
  <2> QED
    BY <2>1, <2>3, <1>m, <1>i DEF At
<1>11. ASSUME NEW p \in Procs, Quit(p) PROVE Wired'
  <2>1. /\ At(p, "quit") /\ proc' = [proc EXCEPT ![p] = Idle] /\ UNCHANGED <<svc, conns, fwd, linkQ>>
        /\ link' = [c \in Conn |-> IF link[c] = "open" THEN "broken" ELSE link[c]]
    BY <1>11 DEF Quit
  <2>2. \A c \in Conn : link'[c] = link[c] \/ (link[c] = "open" /\ link'[c] = "broken")
    BY <2>1
  <2> QED
    BY <2>1, <2>2, <1>m, <1>i DEF At
\* What happens elsewhere leaves the handlers where they are.
<1>u. ASSUME UNCHANGED <<conns, fwd, svc, proc>>,
             \A c \in Conn : /\ link'[c] = link[c] \/ (link[c] = "open" /\ link'[c] = "broken")
                             /\ c > conns => linkQ'[c] = linkQ[c]
      PROVE  Wired'
  BY <1>u, WiredStay DEF Stays
<1>12. ASSUME NEW w \in Place, NEW t \in Tunnels, TunnelChanges(w, t) PROVE Wired'
  <2>1. \E es : Emit(w, es)
    BY <1>12, ChangeHappens DEF Happens
  <2>2. \A c \in Conn : c > conns => linkQ'[c] = linkQ[c]
    BY <2>1, <1>z, EmitWires
  <2> QED
    BY <1>12, <2>2, <1>u DEF TunnelChanges, appVars
<1>13. CASE ServiceStops
  <2>1. \A c \in Conn : link'[c] = link[c] \/ (link[c] = "open" /\ link'[c] = "broken")
    BY <1>13 DEF ServiceStops
  <2> QED
    BY <2>1, <1>13, <1>u DEF ServiceStops, appVars
<1>14. CASE ServiceStarts
  BY <1>14, <1>u DEF ServiceStarts, appVars, linkVars
<1>15. ASSUME NEW c \in Conn, Break(c) PROVE Wired'
  <2>1. link[c] = "open" /\ link' = [link EXCEPT ![c] = "broken"] /\ \A d \in Conn \ {c} : linkQ'[d] = linkQ[d]
    BY <1>15, <1>t DEF Break
  <2>2. \A d \in Conn : /\ link'[d] = link[d] \/ (link[d] = "open" /\ link'[d] = "broken")
                        /\ d > conns => linkQ'[d] = linkQ[d]
    BY <2>1, <1>t, <1>z
  <2> QED
    BY <2>2, <1>15, <1>u DEF Break, appVars
\* The window handles an event.
<1>h. ASSUME NEW e \in Event, Handle(e), UNCHANGED <<conns, fwd, svc, link>>,
             \A c \in Conn : c > conns => linkQ'[c] = linkQ[c]
      PROVE  Wired'
  <2>1. \A q \in Procs : Stays(q)
    BY <1>h, TouchStays DEF Handle, Event
  <2> QED
    BY <1>h, <2>1, WiredStay
<1>e. \A s \in Seq(Event) : s # <<>> => Head(s) \in Event
  OBVIOUS
<1>16. CASE LocalEvent
  <2>1. Head(localQ) \in Event
    BY <1>16, <1>e DEF LocalEvent, Types, TypeOK
  <2> QED
    BY <1>16, <2>1, <1>h DEF LocalEvent, appVars, linkVars
<1>17. ASSUME NEW c \in Conn, ServiceEvent(c) PROVE Wired'
  <2>1. Head(linkQ[c]) \in Event
    BY <1>17, <1>e, <1>t DEF ServiceEvent
  <2>2. \A d \in Conn : d > conns => linkQ'[d] = linkQ[d]
    <3>1. linkQ[c] # <<>> /\ linkQ' = [linkQ EXCEPT ![c] = Tail(@)] /\ fwd[c] = "run"
      BY <1>17 DEF ServiceEvent
    <3>2. c <= conns
      BY <3>1 DEF Wired, LinkInv, Dialled
    <3> QED
      BY <3>1, <3>2, <1>t, BoundAssumption DEF Conn
  <2> QED
    BY <1>17, <2>1, <2>2, <1>h DEF ServiceEvent, appVars
<1>18. ASSUME NEW c \in Conn, ServiceGone(c) PROVE Wired'
  <2>0. /\ fwd[c] = "run" /\ svc = c /\ svc' = Nil /\ fwd' = [fwd EXCEPT ![c] = "done"] /\ link[c] = "broken"
        /\ UNCHANGED <<conns, link, linkQ, proc>>
    BY <1>18 DEF ServiceGone, Wired
  <2>w. \A d \in Conn : /\ d > conns => link[d] = "none" /\ fwd[d] = "none" /\ linkQ[d] = <<>>
                        /\ (fwd[d] = "run" <=> svc = d) /\ (fwd[d] = "done" => link[d] = "broken")
    BY DEF Wired
  <2>1. \A d \in Conn : d > conns' => link'[d] = "none" /\ fwd'[d] = "none" /\ linkQ'[d] = <<>>
    BY <2>w, <2>0, <1>t
  <2>2. \A d \in Conn : (fwd'[d] = "run" <=> svc' = d) /\ (fwd'[d] = "done" => link'[d] = "broken")
    BY <2>w, <2>0, <1>t DEF Nil, Conn
  <2>k. fwd'[c] = "done" /\ \A d : d # c => fwd'[d] = fwd[d]
    BY <2>0, <1>t
  <2>3. \A q \in Procs : At(q, "adopt")' => fwd'[proc'[q].conn] = "none" /\ link'[proc'[q].conn] # "none"
    BY <2>0, <2>k DEF Wired, At
  <2>4. \A q \in Procs : proc'[q].conn # Nil /\ ~At(q, "adopt")' => fwd'[proc'[q].conn] # "none"
    BY <2>0, <2>k DEF Wired, At
  <2>5. \A q \in Procs : (~proc'[q].ok => At(q, "end")') /\ (At(q, "idle")' => proc'[q] = Idle)
    BY <2>0 DEF Wired, At
  <2> QED
    BY <2>1, <2>2, <2>3, <2>4, <2>5 DEF Wired, Nil
<1>19. CASE UNCHANGED vars
  BY <1>19, <1>u DEF vars, appVars, linkVars
<1> QED
  BY <1>1, <1>2, <1>3, <1>4, <1>5, <1>6, <1>7, <1>8, <1>9, <1>10, <1>11, <1>12, <1>13, <1>14,
     <1>15, <1>16, <1>17, <1>18, <1>19 DEF Next, Handler
-----------------------------------------------------------------------------
(* What happens at a manager reaches the window, or waits for it           *)

\* Which queues the events go to, and that no tunnel starts by itself.
LEMMA HappensWhere ==
  ASSUME Types, NEW w \in Place, NEW es, Happens(w, es)
  PROVE  /\ es \in Seq(Event)
         /\ w = "local" => localQ' = localQ \o es /\ linkQ' = linkQ /\ tun'["service"] = tun["service"]
         /\ w = "service" =>
              /\ localQ' = localQ /\ tun'["local"] = tun["local"]
              /\ \A c \in Conn : linkQ'[c] = IF link[c] = "open" THEN linkQ[c] \o es ELSE linkQ[c]
         /\ \A t \in Tunnels : Waits(es, t) => tun[w][t] # "off"
         /\ \A v \in Place, t \in Tunnels : v # w \/ ~Waits(es, t) => tun'[v][t] = tun[v][t]
         /\ \A v \in Place, t \in Tunnels : /\ tun'[v][t] # "off" => tun[v][t] # "off"
                                            /\ tun'[v][t] = "starting" => tun[v][t] = "starting"
<1>1. es \in Seq(Event) /\ Emit(w, es)
  BY DEF Happens
<1>2. \A v \in Place, t \in Tunnels : v # w \/ ~Waits(es, t) => tun'[v][t] = tun[v][t]
  BY DEF Happens
<1>3. \A t \in Tunnels : Waits(es, t) => tun[w][t] # "off" /\ tun'[w][t] # "starting"
  BY DEF Happens
<1>4. \A v \in Place \ {w} : tun'[v] = tun[v]
  BY DEF Happens
<1>5. CASE w = "local"
  BY <1>1, <1>2, <1>3, <1>4, <1>5 DEF Emit, Place
<1>6. CASE w = "service"
  <2>1. \A c \in Conn : linkQ'[c] = IF link[c] = "open" THEN linkQ[c] \o es ELSE linkQ[c]
    BY <1>1, <1>6 DEF Emit, Listening
  <2>2. localQ' = localQ
    BY <1>1, <1>6 DEF Emit
  <2> QED
    BY <2>1, <2>2, <1>1, <1>2, <1>3, <1>4, <1>6 DEF Place
<1> QED
  BY <1>5, <1>6 DEF Place

\* Heard outlives what happens at a manager.
LEMMA HappensHeard ==
  ASSUME Types, NEW w \in Place, NEW es, Happens(w, es), Heard,
         UNCHANGED <<svc, available, link, fwd>>,
         \A t \in Tunnels : shown'[t] = "on" => shown[t] = "on"
  PROVE  Heard'
<1>1. \A v \in Place, t \in Tunnels : /\ tun'[v][t] # "off" => tun[v][t] # "off"
                                      /\ tun'[v][t] = "starting" => tun[v][t] = "starting"
  BY HappensWhere
<1>2. Off("service") => Off("service")'
  BY <1>1 DEF Off, Place
<1> QED
  BY <1>1, <1>2 DEF Heard, Place

\* The queues go on telling what is the case.
LEMMA HappensTold ==
  ASSUME Types, NEW w \in Place, NEW es, Happens(w, es), Told, UNCHANGED link,
         \A c \in Conn : Ours(c)' => Ours(c)
  PROVE  Told'
<1>t. localQ \in Seq(Event) /\ linkQ \in [Conn -> Seq(Event)] /\ es \in Seq(Event)
  BY DEF Types, TypeOK, Happens
<1> SUFFICES ASSUME NEW t \in Tunnels
             PROVE  /\ Tells(localQ, t, tun["local"][t] = "up")'
                    /\ \A c \in Conn : Ours(c)' => Tells(linkQ[c], t, link[c] = "open" /\ tun["service"][t] = "up")'
  BY DEF Told
<1>1. Waits(es, t) => Tells(es, t, tun'[w][t] = "up")
  BY DEF Happens
<1>2. ~Waits(es, t) => tun'[w][t] = tun[w][t]
  BY HappensWhere
<1>3. CASE w = "local"
  <2>1. /\ localQ' = localQ \o es /\ linkQ' = linkQ /\ tun'["service"] = tun["service"]
    BY <1>3, HappensWhere
  <2>2. Tells(localQ', t, tun'["local"][t] = "up")
    <3>1. ~Waits(es, t) => Tells(localQ, t, tun'["local"][t] = "up")
      BY <1>2, <1>3 DEF Told
    <3> QED
      BY <3>1, <2>1, <1>1, <1>3, <1>t, ConcatTells
  <2>3. \A c \in Conn : Ours(c)' => Tells(linkQ[c], t, link[c] = "open" /\ tun["service"][t] = "up")
    BY DEF Told
  <2> QED
    BY <2>1, <2>2, <2>3 DEF Tells
<1>4. CASE w = "service"
  <2>1. /\ localQ' = localQ /\ tun'["local"] = tun["local"]
        /\ \A c \in Conn : linkQ'[c] = IF link[c] = "open" THEN linkQ[c] \o es ELSE linkQ[c]
    BY <1>4, HappensWhere
  <2>2. Tells(localQ', t, tun'["local"][t] = "up")
    BY <2>1 DEF Told
  <2>3. ASSUME NEW c \in Conn, Ours(c)'
        PROVE  Tells(linkQ'[c], t, link'[c] = "open" /\ tun'["service"][t] = "up")
    <3>0. Tells(linkQ[c], t, link[c] = "open" /\ tun["service"][t] = "up") /\ linkQ[c] \in Seq(Event)
      BY <2>3, <1>t DEF Told
    <3>1. CASE link[c] = "open"
      <4> DEFINE up == link'[c] = "open" /\ tun'["service"][t] = "up"
      <4>1. Waits(es, t) => Tells(es, t, up)
        BY <1>1, <1>4, <3>1 DEF Tells
      <4>2. ~Waits(es, t) => Tells(linkQ[c], t, up)
        BY <3>0, <3>1, <1>2, <1>4 DEF Tells
      <4>3. linkQ'[c] = linkQ[c] \o es
        BY <2>1, <3>1
      <4> HIDE DEF up
      <4>4. Tells(linkQ[c] \o es, t, up)
        BY <4>1, <4>2, <3>0, <1>t, ConcatTells
      <4> QED
        BY <4>3, <4>4 DEF up
    <3>2. CASE link[c] # "open"
      BY <3>0, <3>2, <2>1 DEF Tells
    <3> QED
      BY <3>1, <3>2
  <2> QED
    BY <2>2, <2>3 DEF Tells
<1> QED
  BY <1>3, <1>4 DEF Place

\* A manager with no tunnels has no news.
LEMMA HappensApart ==
  ASSUME Types, NEW w \in Place, NEW es, Happens(w, es), Apart
  PROVE  Apart'
<1>t. localQ \in Seq(Event) /\ linkQ \in [Conn -> Seq(Event)] /\ linkQ' \in [Conn -> Seq(Event)]
  BY EmitTypes DEF Types, TypeOK, Happens
<1>1. ASSUME Off(w) PROVE es = <<>>
  <2>1. es \in Seq(Event) /\ \A t \in Tunnels : ~Waits(es, t)
    BY <1>1, HappensWhere DEF Off
  <2>0. es \in Seq(Event)
    BY <2>1
  <2>2. es # <<>> => 1 \in 1..Len(es) /\ es[1] \in Event
    BY <2>0
  <2>3. \A e \in Event : e.t \in Tunnels
    BY DEF Event
  <2> QED
    BY <2>1, <2>2, <2>3 DEF Waits
<1>2. \A v \in Place : Off(v) => Off(v)'
  BY HappensWhere DEF Off
<1>3. CASE Off("local") /\ localQ = <<>>
  <2>1. localQ' = <<>>
    BY <1>3, <1>1, HappensWhere DEF Place
  <2> QED
    BY <1>2, <1>3, <2>1 DEF Apart, Place
<1>4. CASE Off("service") /\ \A c \in Conn : linkQ[c] = <<>>
  <2>1. \A c \in Conn : linkQ'[c] = <<>>
    <3>1. <<>> \o <<>> = <<>>
      OBVIOUS
    <3>2. CASE w = "local"
      BY <1>4, <3>2, HappensWhere
    <3>3. CASE w = "service"
      <4>1. es = <<>>
        BY <1>4, <1>1, <3>3
      <4>2. \A c \in Conn : linkQ'[c] = IF link[c] = "open" THEN linkQ[c] \o es ELSE linkQ[c]
        BY <3>3, HappensWhere
      <4> QED
        BY <1>4, <3>1, <4>1, <4>2
    <3> QED
      BY <3>2, <3>3 DEF Place
  <2> QED
    BY <1>2, <1>4, <2>1 DEF Apart, Place
<1> QED
  BY <1>3, <1>4 DEF Apart

\* An event of t is on its way to the window, if the window listens at all.
LEMMA HappensPending ==
  ASSUME Types, NEW w \in Place, NEW es, Happens(w, es), Heard, UNCHANGED <<svc, link>>, NEW t \in Tunnels
  PROVE  /\ \A v \in Place : Known(v, t) /\ (v = "service" => svc # Nil) => Known(v, t)'
         /\ Pending(t) => Pending(t)'
         /\ Waits(es, t) /\ (w = "service" => svc # Nil) => Pending(t)'
<1>t. /\ localQ \in Seq(Event) /\ linkQ \in [Conn -> Seq(Event)] /\ es \in Seq(Event)
      /\ svc \in Conn \cup {Nil}
  BY DEF Types, TypeOK, Happens
<1>1. CASE w = "local"
  <2>1. localQ' = localQ \o es /\ linkQ' = linkQ /\ tun'["service"] = tun["service"]
    BY <1>1, HappensWhere
  <2>2. Waits(localQ', t) <=> Waits(localQ, t) \/ Waits(es, t)
    BY <2>1, <1>t, ConcatWaits
  <2>3. ~Waits(es, t) => tun'["local"][t] = tun["local"][t]
    BY <1>1, HappensWhere
  <2>4. svc # Nil => (Waits(linkQ[svc], t)' <=> Waits(linkQ[svc], t))
    BY <2>1 DEF Waits
  <2>5. Waits(localQ, t)' <=> Waits(localQ', t)
    BY DEF Waits
  <2> QED
    BY <1>1, <2>1, <2>2, <2>3, <2>4, <2>5 DEF Known, Pending, Place
<1>2. CASE w = "service"
  <2>1. /\ localQ' = localQ /\ tun'["local"] = tun["local"]
        /\ \A c \in Conn : linkQ'[c] = IF link[c] = "open" THEN linkQ[c] \o es ELSE linkQ[c]
    BY <1>2, HappensWhere
  <2>2. ~Waits(es, t) => tun'["service"][t] = tun["service"][t]
    BY <1>2, HappensWhere
  <2>3. Waits(es, t) => ~Off("service")
    BY <1>2, HappensWhere DEF Off
  <2>4. svc # Nil => (Waits(linkQ'[svc], t) <=> Waits(linkQ[svc], t) \/ Waits(es, t))
    <3>1. CASE svc # Nil /\ link[svc] = "open"
      BY <3>1, <2>1, <1>t, ConcatWaits
    <3>2. CASE svc # Nil /\ link[svc] # "open"
      BY <3>2, <2>1, <2>3, <1>t DEF Heard
    <3> QED
      BY <3>1, <3>2
  <2>5. (Waits(localQ, t)' <=> Waits(localQ, t)) /\ (Waits(linkQ[svc], t)' <=> Waits(linkQ'[svc], t))
    BY <2>1 DEF Waits
  <2> QED
    BY <1>2, <2>1, <2>2, <2>4, <2>5 DEF Known, Pending, Place
<1> QED
  BY <1>1, <1>2 DEF Place
-----------------------------------------------------------------------------
(* Handlers that stay or move, while the managers do nothing               *)

\* A handler's connection has been dialled.
LEMMA ConnBelow ==
  ASSUME Types, LinkInv, Wired, NEW q \in Procs, proc[q].conn # Nil
  PROVE  proc[q].conn \in Conn /\ proc[q].conn <= conns
<1>1. proc[q].conn \in Conn /\ conns \in Nat
  BY BoundAssumption DEF Types, Caller, TypeOK
<1>2. CASE At(q, "adopt")
  BY <1>1, <1>2 DEF LinkInv, InHand
<1>3. CASE ~At(q, "adopt")
  BY <1>1, <1>3 DEF Wired, Conn
<1> QED
  BY <1>1, <1>2, <1>3

\* A handler that stays goes on to mark what is so, as long as the tunnels it
\* has not noted as marked are shown and known as before.
LEMMA MarkStays ==
  ASSUME Types, NEW q \in Procs, Stays(q), RightMark(proc[q]),
         proc[q].conn # Nil /\ link[proc[q].conn] # "open" => link'[proc[q].conn] # "open",
         \A t \in Tunnels \ proc'[q].touched :
           /\ shown'[t] = "on" => shown[t] = "on"
           /\ Known(proc[q].w, t) /\ At(q, "end") /\ (proc[q].w = "service" => proc[q].conn # Nil)
                => Known(proc[q].w, t)'
  PROVE  RightMark(proc[q])'
<1>1. proc[q].todo \subseteq Tunnels
  BY DEF Types, Caller
<1>2. proc'[q].op = "disconnect" /\ ~proc'[q].ok => proc'[q].conn # Nil /\ link'[proc'[q].conn] # "open"
  BY DEF RightMark, Stays
<1>3. ASSUME NEW t \in proc'[q].todo \ proc'[q].touched
      PROVE  /\ proc'[q].op = "connect" => shown'[t] # "on"
             /\ proc'[q].op = "status" /\ proc'[q].at = "end" /\ proc'[q].ok /\ t \in Due(proc'[q].todo) =>
                  Known(proc[q].w, t)' /\ (proc'[q].w = "service" => proc'[q].conn # Nil)
  <2>1. t \in proc[q].todo \ proc[q].touched /\ t \in Tunnels \ proc'[q].touched
    BY <1>1, <1>3 DEF Stays
  <2>2. proc'[q].op = "connect" => shown'[t] # "on"
    BY <2>1 DEF RightMark, Stays
  <2>3. ASSUME proc'[q].op = "status", proc'[q].at = "end", proc'[q].ok, t \in Due(proc'[q].todo)
        PROVE  Known(proc[q].w, t)' /\ (proc'[q].w = "service" => proc'[q].conn # Nil)
    <3>1. Known(proc[q].w, t) /\ (proc[q].w = "service" => proc[q].conn # Nil) /\ At(q, "end")
      BY <2>1, <2>3 DEF RightMark, Stays, At
    <3> QED
      BY <2>1, <3>1 DEF Stays
  <2> QED
    BY <2>2, <2>3
<1>4. proc'[q].op \in {"connect", "status"} => proc'[q].todo # {} \/ Tunnels = {}
  BY DEF RightMark, Stays
<1> QED
  BY <1>2, <1>3, <1>4 DEF RightMark

\* A handler that stays goes on asking.
LEMMA AskingStays ==
  ASSUME NEW q \in Procs, Stays(q), NEW t, Asking(q, t), Cut(q) => Cut(q)'
  PROVE  Asking(q, t)'
BY DEF Asking, Stays, At, Due

\* One handler moves, and is right; nothing else is new to the window.
LEMMA MoveSound ==
  ASSUME Types, LinkInv, Wired, Sound, NEW p \in Procs, \A q \in Procs \ {p} : proc'[q] = proc[q],
         UNCHANGED <<svc, available, tun, localQ, linkQ, fwd, link>>,
         \A t \in Tunnels : shown'[t] = "on" <=> shown[t] = "on",
         ~At(p, "adopt")', RightMark(proc[p])',
         \A t \in Tunnels : tun["service"][t] = "up" /\ mode = "socks5" => mode' = "socks5" \/ At(p, "register")',
         \A t \in Tunnels : tun["service"][t] = "up" /\ (At(p, "register") \/ Asking(p, t)) =>
                              mode' = "socks5" \/ At(p, "register")' \/ Asking(p, t)'
  PROVE  Sound'
<1>0. \A q \in Procs \ {p} : Stays(q)
  BY DEF Stays
<1>1. Heard'
  BY DEF Sound, Heard, Off
<1>2. \A c \in Conn : Ours(c)' => Ours(c)
  BY DEF Ours, At
<1>3. Told'
  BY <1>2 DEF Sound, Told, Tells
<1>4. Apart'
  BY DEF Sound, Apart, Off
<1>5. \A t \in Tunnels, w \in Place : (Known(w, t) <=> Known(w, t)') /\ (Pending(t) <=> Pending(t)')
  BY DEF Known, Pending, Waits
<1>6. Marks'
  <2>1. ASSUME NEW q \in Procs \ {p} PROVE RightMark(proc[q])'
    <3>1. RightMark(proc[q]) /\ proc[q].w \in Place
      BY DEF Sound, Marks, Types, Caller
    <3> QED
      BY <2>1, <3>1, <1>0, <1>5, MarkStays
  <2> QED
    BY <2>1 DEF Marks
<1>7. Shows'
  <2> SUFFICES ASSUME NEW t \in Tunnels
               PROVE  /\ shown'[t] = "on" => Pending(t)' \/ \E w \in Place : tun'[w][t] = "up"
                      /\ tun'["local"][t] = "up" => Pending(t)' \/ shown'[t] = "on"
                      /\ tun'["service"][t] = "up" =>
                           \/ Pending(t)' \/ shown'[t] = "on" \/ mode' = "socks5"
                           \/ \E q \in Procs : At(q, "register")' \/ Asking(q, t)'
    BY DEF Shows
  <2>1. /\ shown'[t] = "on" => Pending(t)' \/ \E w \in Place : tun'[w][t] = "up"
        /\ tun'["local"][t] = "up" => Pending(t)' \/ shown'[t] = "on"
    BY <1>5 DEF Sound, Shows, Place
  <2>2. ASSUME tun'["service"][t] = "up"
        PROVE  \/ Pending(t)' \/ shown'[t] = "on" \/ mode' = "socks5"
               \/ \E q \in Procs : At(q, "register")' \/ Asking(q, t)'
    <3>1. \/ Pending(t) \/ shown[t] = "on" \/ mode = "socks5"
          \/ \E q \in Procs : At(q, "register") \/ Asking(q, t)
      BY <2>2 DEF Sound, Shows
    <3>2. CASE Pending(t) \/ shown[t] = "on" \/ mode = "socks5"
      BY <3>2, <2>2, <1>5 DEF Place
    <3>3. ASSUME NEW q \in Procs, At(q, "register") \/ Asking(q, t)
          PROVE  mode' = "socks5" \/ At(q, "register")' \/ Asking(q, t)'
      <4>1. CASE q = p
        BY <4>1, <3>3, <2>2
      <4>2. CASE q # p
        <5>1. Cut(q) => Cut(q)'
          BY <4>2 DEF Cut
        <5> QED
          BY <4>2, <5>1, <3>3, <1>0, AskingStays DEF At
      <4> QED
        BY <4>1, <4>2
    <3> QED
      BY <3>1, <3>2, <3>3
  <2> QED
    BY <2>1, <2>2
<1> QED
  BY <1>1, <1>3, <1>4, <1>6, <1>7 DEF Sound

\* Whatever a handler begins, and on its way to the backend.
LEMMA ClickSound ==
  ASSUME Types, LinkInv, Wired, Sound, NEW p \in Procs, Click(p)
  PROVE  Sound'
<1>t. shown \in [Tunnels -> {"off", "connecting", "on"}]
  BY DEF Types, TypeOK
<1>0. At(p, "idle") /\ proc[p] = Idle /\ UNCHANGED <<mode, svc, available, tun, localQ, linkQ, fwd, link>>
  BY DEF Click, Wired, appVars, linkVars
<1>1. /\ \A t \in Tunnels : shown'[t] = "on" <=> shown[t] = "on"
      /\ \E o, ts : \E l \in {"choose", "switch", "register", "quit"} :
           /\ Begin(p, o, ts, l)
           /\ o = "connect" => ts # {} /\ \A t \in ts : shown'[t] # "on"
           /\ o # "status"
  <2>1. CASE Toggle(p)
    BY <2>1, <1>t DEF Toggle
  <2>2. CASE ConnectAll(p)
    BY <2>2, <1>t DEF ConnectAll
  <2>3. CASE DisconnectAll(p)
    BY <2>3 DEF DisconnectAll
  <2>4. CASE Leave(p) /\ UNCHANGED shown
    BY <2>4 DEF Leave
  <2> QED
    BY <2>1, <2>2, <2>3, <2>4 DEF Click
<1>2. PICK o, ts, l : /\ Begin(p, o, ts, l) /\ l \in {"choose", "switch", "register", "quit"}
                      /\ (o = "connect" => ts # {} /\ \A t \in ts : shown'[t] # "on")
                      /\ o # "status"
  BY <1>1
<1> DEFINE r == [Idle EXCEPT !.at = l, !.op = o, !.todo = ts]
<1>3. r.at = l /\ r.op = o /\ r.todo = ts /\ r.ok /\ proc' = [proc EXCEPT ![p] = r]
  BY <1>2 DEF Begin, Idle
<1> HIDE DEF r
<1>4. proc'[p] = r /\ \A q \in Procs \ {p} : proc'[q] = proc[q]
  BY <1>3, MoveStays
<1>5. RightMark(proc[p])' /\ ~At(p, "adopt")'
  BY <1>2, <1>3, <1>4 DEF RightMark, At
<1>6. \A t : ~At(p, "register") /\ ~Asking(p, t)
  <2>1. Idle.op = "" /\ Idle.at = "idle"
    BY DEF Idle
  <2>2. proc[p].op = "" /\ proc[p].at = "idle"
    BY <2>1, <1>0
  <2> QED
    BY <2>2 DEF Asking, At
<1> QED
  BY <1>0, <1>1, <1>4, <1>5, <1>6, MoveSound

\* The backend is chosen; one that asks goes to the service if tunnels run there.
LEMMA ChooseSound ==
  ASSUME Types, LinkInv, Wired, Sound, NEW p \in Procs, Choose(p)
  PROVE  Sound'
<1>c. proc[p] \in Caller
  BY DEF Types
<1> DEFINE r == [proc[p] EXCEPT !.w = Backend, !.at = IF Backend = "service" THEN "client" ELSE "run"]
<1>0. At(p, "choose") /\ proc[p].ok /\ UNCHANGED <<mode, svc, available, tun, localQ, linkQ, fwd, link, shown>>
  BY DEF Choose, Wired, At, appVars, linkVars
<1>1. /\ r.w = Backend /\ r.at = (IF Backend = "service" THEN "client" ELSE "run")
      /\ r.op = proc[p].op /\ r.todo = proc[p].todo /\ r.ok = proc[p].ok /\ r.touched = proc[p].touched
  BY <1>c DEF Caller
<1>2. proc' = [proc EXCEPT ![p] = r]
  BY DEF Choose
<1> HIDE DEF r
<1>3. proc'[p] = r /\ \A q \in Procs \ {p} : proc'[q] = proc[q]
  BY <1>2, MoveStays
<1>4. RightMark(proc[p])' /\ ~At(p, "adopt")'
  BY <1>0, <1>1, <1>3 DEF RightMark, At, Sound, Marks
<1>5. ASSUME NEW t \in Tunnels, tun["service"][t] = "up", Asking(p, t)
      PROVE  mode' = "socks5" \/ Asking(p, t)'
  <2>1. CASE Backend = "service"
    BY <2>1, <1>1, <1>3, <1>5 DEF Asking, At
  <2>2. CASE Backend # "service"
    <3>1. mode # "tun" \/ ~available
      BY <2>2 DEF Backend
    <3>2. available
      BY <1>5 DEF Sound, Heard, Off
    <3> QED
      BY <3>1, <3>2, <1>0 DEF Types, TypeOK
  <2> QED
    BY <2>1, <2>2
<1>6. ~At(p, "register")
  BY <1>0 DEF At
<1> QED
  BY <1>0, <1>3, <1>4, <1>5, <1>6, MoveSound

\* A handler on its way to the service, or to the switch.
LEMMA ClientSound ==
  ASSUME Types, LinkInv, Wired, Sound, NEW p \in Procs,
         ServiceClient(p) \/ (Dial(p) /\ At(p, "absent")') \/ RunCut(p) \/ SwitchMode(p)
  PROVE  Sound'
<1>c. proc[p] \in Caller
  BY DEF Types
<1>1. ASSUME NEW l \in Label, proc'[p].at = l,
             /\ proc'[p].op = proc[p].op /\ proc'[p].todo = proc[p].todo /\ proc'[p].w = proc[p].w
             /\ proc'[p].touched = proc[p].touched,
             l \notin {"adopt", "choose"}, l = "end" => proc'[p].conn = proc[p].conn /\ ~proc'[p].ok /\ Cut(p),
             l # "end" => proc'[p].ok,
             \A q \in Procs \ {p} : proc'[q] = proc[q],
             ~At(p, "choose"), ~At(p, "register"),
             UNCHANGED <<svc, available, tun, localQ, linkQ, fwd, link, shown>>,
             mode' = mode \/ l = "register"
      PROVE  Sound'
  <2>1. RightMark(proc[p])'
    BY <1>1 DEF RightMark, Sound, Marks, Cut
  <2>2. ASSUME NEW t \in Tunnels, Asking(p, t) PROVE Asking(p, t)'
    BY <1>1, <2>2 DEF Asking, At, Cut
  <2>3. ~At(p, "adopt")' /\ (mode' = mode \/ At(p, "register")')
    BY <1>1 DEF At
  <2> QED
    BY <1>1, <2>1, <2>2, <2>3, MoveSound
<1>2. CASE ServiceClient(p)
  <2>0. At(p, "client") /\ proc[p].ok /\ UNCHANGED <<mode, svc, available, tun, localQ, linkQ, fwd, link, shown>>
    BY <1>2 DEF ServiceClient, Wired, At, appVars, linkVars
  <2> DEFINE r == [proc[p] EXCEPT !.at = "run", !.conn = svc]
             d == [proc[p] EXCEPT !.at = "dial"]
  <2>1. /\ r.at = "run" /\ r.op = proc[p].op /\ r.todo = proc[p].todo /\ r.w = proc[p].w
        /\ r.touched = proc[p].touched /\ r.ok = proc[p].ok
    BY <1>c DEF Caller
  <2>2. /\ d.at = "dial" /\ d.op = proc[p].op /\ d.todo = proc[p].todo /\ d.w = proc[p].w
        /\ d.touched = proc[p].touched /\ d.ok = proc[p].ok
    BY <1>c DEF Caller
  <2>3. proc' = [proc EXCEPT ![p] = r] \/ proc' = [proc EXCEPT ![p] = d]
    BY <1>2 DEF ServiceClient, Goto
  <2> HIDE DEF r, d
  <2>4. (proc'[p] = r \/ proc'[p] = d) /\ \A q \in Procs \ {p} : proc'[q] = proc[q]
    BY <2>3, MoveStays
  <2> QED
    BY <2>0, <2>1, <2>2, <2>4, <1>1 DEF At, Label
<1>3. CASE Dial(p) /\ At(p, "absent")'
  <2>0. At(p, "dial") /\ proc[p].ok /\ UNCHANGED <<mode, svc, available, tun, localQ, linkQ, fwd, shown>>
    BY <1>3 DEF Dial, Wired, At, appVars
  <2> DEFINE d == [proc[p] EXCEPT !.at = "absent"]
             a == [proc[p] EXCEPT !.at = "adopt", !.conn = conns + 1]
  <2>1. a.at = "adopt"
    BY <1>c DEF Caller
  <2>2. /\ d.at = "absent" /\ d.op = proc[p].op /\ d.todo = proc[p].todo /\ d.w = proc[p].w
        /\ d.touched = proc[p].touched /\ d.ok = proc[p].ok
    BY <1>c DEF Caller
  <2>3. proc' = [proc EXCEPT ![p] = a] \/ (proc' = [proc EXCEPT ![p] = d] /\ UNCHANGED link)
    BY <1>3 DEF Dial, Goto
  <2> HIDE DEF a, d
  <2>4. (proc'[p] = a \/ (proc'[p] = d /\ UNCHANGED link)) /\ \A q \in Procs \ {p} : proc'[q] = proc[q]
    BY <2>3, MoveStays
  <2> QED
    BY <1>3, <2>0, <2>1, <2>2, <2>4, <1>1 DEF At, Label
<1>4. CASE RunCut(p)
  <2>0. At(p, "run") /\ Cut(p) /\ UNCHANGED <<mode, svc, available, tun, localQ, linkQ, fwd, link, shown>>
    BY <1>4 DEF RunCut, appVars, linkVars
  <2> DEFINE r == [proc[p] EXCEPT !.at = "end", !.ok = FALSE]
  <2>1. /\ r.at = "end" /\ r.op = proc[p].op /\ r.todo = proc[p].todo /\ r.w = proc[p].w
        /\ r.touched = proc[p].touched /\ ~r.ok /\ r.conn = proc[p].conn
    BY <1>c DEF Caller
  <2>2. proc' = [proc EXCEPT ![p] = r]
    BY <1>4 DEF RunCut
  <2> HIDE DEF r
  <2>4. proc'[p] = r /\ \A q \in Procs \ {p} : proc'[q] = proc[q]
    BY <2>2, MoveStays
  <2> QED
    BY <2>0, <2>1, <2>4, <1>1 DEF At, Label
<1>5. CASE SwitchMode(p)
  <2>0. At(p, "switch") /\ proc[p].ok /\ UNCHANGED <<svc, available, tun, localQ, linkQ, fwd, link, shown>>
    BY <1>5 DEF SwitchMode, Wired, At, linkVars
  <2> DEFINE r == [proc[p] EXCEPT !.at = "register"]
  <2>1. /\ r.at = "register" /\ r.op = proc[p].op /\ r.todo = proc[p].todo /\ r.w = proc[p].w
        /\ r.touched = proc[p].touched /\ r.ok = proc[p].ok
    BY <1>c DEF Caller
  <2>2. proc' = [proc EXCEPT ![p] = r]
    BY <1>5 DEF SwitchMode, Goto
  <2> HIDE DEF r
  <2>4. proc'[p] = r /\ \A q \in Procs \ {p} : proc'[q] = proc[q]
    BY <2>2, MoveStays
  <2> QED
    BY <2>0, <2>1, <2>4, <1>1 DEF At, Label
<1> QED
  BY <1>2, <1>3, <1>4, <1>5

\* Pending and Known grow when nothing but the connection in use changes, and that from none.
LEMMA LinkSound ==
  ASSUME Types, Sound, UNCHANGED <<tun, localQ, linkQ, shown>>, svc' = svc \/ svc = Nil, NEW t \in Tunnels
  PROVE  /\ Pending(t) => Pending(t)'
         /\ \A w \in Place : Known(w, t) => Known(w, t)'
BY DEF Pending, Known, Waits

\* A handler with a new connection, or one that has found another in use or
\* takes its own into use.
LEMMA AdoptSound ==
  ASSUME Types, LinkInv, Wired, Sound, NEW p \in Procs,
         (Dial(p) /\ ~At(p, "absent")') \/ Adopt(p)
  PROVE  Sound'
<1>t. /\ proc \in [Procs -> Caller] /\ link \in [Conn -> {"none", "open", "broken"}]
      /\ svc \in Conn \cup {Nil} /\ conns \in Nat /\ fwd \in [Conn -> {"none", "run", "done"}]
  BY BoundAssumption DEF Types, TypeOK
<1>c. proc[p] \in Caller
  BY <1>t
<1>o. proc[p].ok /\ UNCHANGED <<mode, tun, localQ, linkQ, shown>>
  BY DEF Dial, Adopt, Wired, At, appVars
<1>s. Heard /\ Told /\ Apart /\ Marks /\ Shows
  BY DEF Sound
\* What is left to show of the marks and of what is shown.
<1>1. ASSUME NEW l \in {"adopt", "run"}, proc'[p].at = l, ~At(p, "choose"), ~At(p, "register"), ~At(p, "end"),
             /\ proc'[p].op = proc[p].op /\ proc'[p].todo = proc[p].todo /\ proc'[p].w = proc[p].w
             /\ proc'[p].touched = proc[p].touched /\ proc'[p].ok,
             \A q \in Procs \ {p} : proc'[q] = proc[q],
             svc' = svc \/ svc = Nil,
             \A c \in Conn : c <= conns /\ link[c] # "open" => link'[c] # "open"
      PROVE  Marks' /\ Shows' /\ Apart'
  <2>0. \A q \in Procs \ {p} : Stays(q)
    BY <1>1 DEF Stays
  <2>1. \A t \in Tunnels : /\ Pending(t) => Pending(t)'
                           /\ \A w \in Place : Known(w, t) => Known(w, t)'
    BY <1>o, <1>1, LinkSound
  <2>2. ASSUME NEW q \in Procs \ {p} PROVE RightMark(proc[q])'
    <3>1. RightMark(proc[q]) /\ proc[q].w \in Place
      BY <1>s, <1>t DEF Marks, Caller
    <3>2. proc[q].conn # Nil /\ link[proc[q].conn] # "open" => link'[proc[q].conn] # "open"
      BY <1>1, ConnBelow
    <3>3. \A t \in Tunnels \ proc'[q].touched :
            /\ shown'[t] = "on" => shown[t] = "on"
            /\ Known(proc[q].w, t) => Known(proc[q].w, t)'
      <4>1. proc'[q].w = proc[q].w
        BY <2>0, <2>2 DEF Stays
      <4> QED
        BY <2>1, <3>1, <1>o, <4>1
    <3> QED
      BY <2>0, <2>2, <3>1, <3>2, <3>3, MarkStays
  <2>3. RightMark(proc[p])'
    BY <1>1, <1>s, <1>o DEF RightMark, Marks
  <2>4. Marks'
    BY <2>2, <2>3 DEF Marks
  <2>5. ASSUME NEW q \in Procs, NEW t \in Tunnels, At(q, "register") \/ Asking(q, t)
        PROVE  At(q, "register")' \/ Asking(q, t)'
    <3>1. CASE q = p
      BY <3>1, <2>5, <1>1 DEF Asking, At
    <3>2. CASE q # p
      <4>1. Cut(q) => Cut(q)'
        BY <3>2, <1>1, ConnBelow DEF Cut
      <4> QED
        BY <3>2, <4>1, <2>5, <2>0, AskingStays DEF At, Stays
    <3> QED
      BY <3>1, <3>2
  <2>6. Shows'
    BY <2>1, <2>5, <1>s, <1>o DEF Shows
  <2>7. Apart'
    BY <1>s, <1>o DEF Apart, Off
  <2> QED
    BY <2>4, <2>6, <2>7
<1>2. CASE Dial(p) /\ ~At(p, "absent")'
  <2> DEFINE d == [proc[p] EXCEPT !.at = "absent"]
             a == [proc[p] EXCEPT !.at = "adopt", !.conn = conns + 1]
  <2>1. d.at = "absent"
    BY <1>c DEF Caller
  <2>2. /\ a.at = "adopt" /\ a.op = proc[p].op /\ a.todo = proc[p].todo /\ a.w = proc[p].w
        /\ a.touched = proc[p].touched /\ a.ok = proc[p].ok /\ a.conn = conns + 1
    BY <1>c DEF Caller
  <2>3. \/ proc' = [proc EXCEPT ![p] = d]
        \/ /\ conns < MaxConns /\ proc' = [proc EXCEPT ![p] = a]
           /\ link' = [link EXCEPT ![conns + 1] = "open"]
    BY <1>2 DEF Dial, Goto
  <2> HIDE DEF a, d
  <2>4. /\ conns < MaxConns /\ proc' = [proc EXCEPT ![p] = a] /\ link' = [link EXCEPT ![conns + 1] = "open"]
    BY <1>2, <2>1, <2>3, MoveStays DEF At
  <2>5. conns + 1 \in Conn /\ linkQ[conns + 1] = <<>>
    BY <2>4, <1>t, BoundAssumption DEF Conn, Wired
  <2>6. \A c \in Conn : c # conns + 1 => link'[c] = link[c]
    BY <2>4, <1>t
  <2>7. proc'[p] = a /\ \A q \in Procs \ {p} : proc'[q] = proc[q]
    BY <2>4, MoveStays
  <2>8. At(p, "dial") /\ UNCHANGED <<svc, available, fwd>>
    BY <1>2 DEF Dial, appVars
  <2>9. Marks' /\ Shows' /\ Apart'
    <3>1. \A c \in Conn : c <= conns => link'[c] = link[c]
      BY <2>6, <1>t DEF Conn
    <3>2. proc'[p].ok
      BY <2>2, <2>7, <1>o
    <3> QED
      BY <2>2, <2>7, <2>8, <3>1, <3>2, <1>1 DEF At
  <2>10. svc # Nil => svc \in Conn /\ svc # conns + 1
    BY <1>t DEF LinkInv, Dialled
  <2>11. link'[conns + 1] = "open"
    BY <2>4, <2>5, <1>t
  <2>12. Heard'
    BY <1>s, <1>o, <2>6, <2>8, <2>10, <2>11 DEF Heard, Off
  <2>13. \A c \in Conn : Ours(c)' => c = conns + 1 \/ Ours(c)
    BY <2>2, <2>7, <2>8 DEF Ours, At
  <2>14. ASSUME NEW t \in Tunnels, NEW c \in Conn, Ours(c)'
         PROVE  Tells(linkQ[c], t, link[c] = "open" /\ tun["service"][t] = "up")'
    <3>1. CASE c = conns + 1
      <4>1. linkQ'[c] = <<>>
        BY <3>1, <2>5, <1>o
      <4> QED
        BY <4>1 DEF Tells
    <3>2. CASE c # conns + 1
      <4>1. Tells(linkQ[c], t, link[c] = "open" /\ tun["service"][t] = "up")
        BY <3>2, <2>13, <2>14, <1>s DEF Told
      <4> QED
        BY <4>1, <3>2, <2>6, <1>o DEF Tells
    <3> QED
      BY <3>1, <3>2
  <2>15. \A t \in Tunnels : Tells(localQ, t, tun["local"][t] = "up")'
    BY <1>s, <1>o DEF Told, Tells
  <2>16. Told'
    BY <2>14, <2>15 DEF Told
  <2> QED
    BY <2>9, <2>12, <2>16 DEF Sound
<1>3. CASE Adopt(p)
  <2> DEFINE c == proc[p].conn
  <2>a. At(p, "adopt")
    BY <1>3 DEF Adopt
  <2>b. c \in 1..conns /\ c # svc /\ \A q \in Procs : At(q, "adopt") /\ proc[q].conn = c => q = p
    BY <2>a DEF LinkInv, InHand
  <2>d. fwd[c] = "none" /\ link[c] # "none"
    BY <2>a DEF Wired
  <2>e. c \in Conn
    BY <2>a, <1>c DEF Types, Caller
  <2>0. /\ At(p, "adopt") /\ c \in 1..conns /\ c \in Conn /\ c # svc /\ fwd[c] = "none" /\ link[c] # "none"
        /\ \A q \in Procs : At(q, "adopt") /\ proc[q].conn = c => q = p
    BY <2>a, <2>b, <2>d, <2>e
  <2> DEFINE r == [proc[p] EXCEPT !.at = "run", !.conn = svc]
             k == [proc[p] EXCEPT !.at = "run"]
  <2>1. /\ r.at = "run" /\ r.op = proc[p].op /\ r.todo = proc[p].todo /\ r.w = proc[p].w
        /\ r.touched = proc[p].touched /\ r.ok = proc[p].ok
    BY <1>c DEF Caller
  <2>2. /\ k.at = "run" /\ k.op = proc[p].op /\ k.todo = proc[p].todo /\ k.w = proc[p].w
        /\ k.touched = proc[p].touched /\ k.ok = proc[p].ok
    BY <1>c DEF Caller
  <2>3. \/ /\ svc # Nil /\ proc' = [proc EXCEPT ![p] = r] /\ UNCHANGED <<svc, available, fwd>>
           /\ link' = [link EXCEPT ![c] = "broken"]
        \/ /\ svc = Nil /\ proc' = [proc EXCEPT ![p] = k] /\ UNCHANGED link
           /\ svc' = c /\ available' = TRUE
    BY <1>3 DEF Adopt, Goto
  <2> HIDE DEF r, k
  <2>4. (proc'[p] = r \/ proc'[p] = k) /\ \A q \in Procs \ {p} : proc'[q] = proc[q]
    BY <2>3, MoveStays
  <2>5. \A d \in Conn : link[d] # "open" => link'[d] # "open"
    BY <2>3, <1>t
  <2>6. Marks' /\ Shows' /\ Apart'
    BY <2>0, <2>1, <2>2, <2>3, <2>4, <2>5, <1>1, <1>o DEF At
  <2>7. \A d \in Conn : Ours(d)' => Ours(d) /\ link'[d] = link[d]
    <3>1. ~At(p, "adopt")'
      BY <2>1, <2>2, <2>4 DEF At
    <3>q. ASSUME NEW d \in Conn, Ours(d)'
          PROVE  \/ svc' = d
                 \/ \E q \in Procs : q # p /\ At(q, "adopt") /\ proc[q].conn = d
      BY <2>4, <3>1, <3>q DEF Ours, At
    <3>2. \A d \in Conn : Ours(d)' => Ours(d)
      <4>1. svc' = svc \/ svc' = c
        BY <2>3
      <4> QED
        BY <2>a, <3>q, <4>1 DEF Ours
    <3>3. \A d \in Conn : d # c \/ svc = Nil => link'[d] = link[d]
      BY <2>3, <1>t
    <3>4. \A d \in Conn : svc # Nil /\ d = c => ~Ours(d)'
      BY <2>0, <2>3, <3>q
    <3> QED
      BY <3>2, <3>3, <3>4
  <2>8. Told'
    BY <2>7, <1>s, <1>o DEF Told, Tells
  <2>9. Heard'
    <3>1. CASE svc # Nil
      <4>1. svc' = svc /\ available' = available /\ link'[svc] = link[svc]
        BY <3>1, <2>3, <2>0, <1>t
      <4> QED
        BY <3>1, <4>1, <1>s, <1>o DEF Heard, Off
    <3>2. CASE svc = Nil
      <4>1. svc' = c /\ available' /\ link' = link /\ c # Nil
        BY <3>2, <2>3, <2>0, <1>t DEF Nil
      <4>2. ~Off("service") => link[c] = "open"
        BY <3>2, <2>0, <1>s, <1>t DEF Heard
      <4> QED
        BY <4>1, <4>2, <1>s, <1>o DEF Heard, Off
    <3> QED
      BY <3>1, <3>2
  <2> QED
    BY <2>6, <2>8, <2>9 DEF Sound
<1> QED
  BY <1>2, <1>3
-----------------------------------------------------------------------------
(* The managers                                                            *)

\* A handler knows of tunnels of the service only by a connection that was in use.
LEMMA AskedHeard ==
  ASSUME Types, Wired, Heard, NEW q \in Procs, ~At(q, "adopt"), proc[q].conn # Nil,
         NEW t \in Tunnels, Known("service", t)
  PROVE  svc # Nil
<1> SUFFICES ASSUME svc = Nil PROVE FALSE
  OBVIOUS
<1>1. tun["service"][t] = "up"
  BY DEF Known
<1>2. \A c \in Conn : fwd[c] = "none"
  BY <1>1 DEF Heard, Off
<1>3. proc[q].conn \in Conn
  BY DEF Types, Caller
<1> QED
  BY <1>2, <1>3 DEF Wired

\* What happens at a manager, by itself or at the command of a handler that
\* then is at the end of it.
LEMMA HappensSound ==
  ASSUME Types, LinkInv, Wired, Sound, NEW w \in Place, NEW es, Happens(w, es),
         UNCHANGED <<svc, available, link, fwd, shown, mode>>,
         \A q \in Procs : \/ Stays(q)
                          \/ /\ RightMark(proc[q])' /\ ~At(q, "adopt")'
                             /\ ~At(q, "register") /\ \A t : ~Asking(q, t)
  PROVE  Sound'
<1>s. Heard /\ Told /\ Apart /\ Marks /\ Shows
  BY DEF Sound
<1>1. Heard'
  BY <1>s, HappensHeard
<1>2. Told'
  <2>1. \A c \in Conn : Ours(c)' => Ours(c)
    BY DEF Ours, Stays, At
  <2> QED
    BY <1>s, <2>1, HappensTold
<1>3. Apart'
  BY <1>s, HappensApart
<1>4. \A t \in Tunnels : /\ \A v \in Place : Known(v, t) /\ (v = "service" => svc # Nil) => Known(v, t)'
                         /\ Pending(t) => Pending(t)'
                         /\ Waits(es, t) /\ (w = "service" => svc # Nil) => Pending(t)'
  BY <1>s, HappensPending
<1>5. ASSUME NEW q \in Procs, Stays(q) PROVE RightMark(proc[q])'
  <2>1. RightMark(proc[q]) /\ proc[q].w \in Place
    BY <1>s DEF Marks, Types, Caller
  <2>2. ASSUME NEW t \in Tunnels, Known(proc[q].w, t), At(q, "end"), proc[q].w = "service" => proc[q].conn # Nil
        PROVE  Known(proc[q].w, t)'
    <3>1. proc[q].w = "service" => svc # Nil
      BY <2>2, <1>s, AskedHeard DEF At
    <3>2. proc'[q].w = proc[q].w
      BY <1>5 DEF Stays
    <3> QED
      BY <2>1, <2>2, <3>1, <3>2, <1>4
  <2> QED
    BY <1>5, <2>1, <2>2, MarkStays
<1>6. Marks'
  BY <1>5 DEF Marks
<1>7. Shows'
  <2> SUFFICES ASSUME NEW t \in Tunnels
               PROVE  /\ shown'[t] = "on" => Pending(t)' \/ \E v \in Place : tun'[v][t] = "up"
                      /\ tun'["local"][t] = "up" => Pending(t)' \/ shown'[t] = "on"
                      /\ tun'["service"][t] = "up" =>
                           \/ Pending(t)' \/ shown'[t] = "on" \/ mode' = "socks5"
                           \/ \E q \in Procs : At(q, "register")' \/ Asking(q, t)'
    BY DEF Shows
  <2>h. /\ Waits(es, t) => tun[w][t] # "off"
        /\ \A v \in Place : v # w \/ ~Waits(es, t) => tun'[v][t] = tun[v][t]
    BY HappensWhere
  <2>1. ASSUME shown'[t] = "on" PROVE Pending(t)' \/ \E v \in Place : tun'[v][t] = "up"
    <3>1. Waits(es, t) => Pending(t)'
      <4>1. w = "service" /\ Waits(es, t) => svc # Nil
        BY <2>1, <2>h, <1>s DEF Heard, Off
      <4> QED
        BY <4>1, <1>4
    <3>2. CASE ~Waits(es, t)
      BY <3>2, <2>1, <2>h, <1>4, <1>s DEF Shows
    <3> QED
      BY <3>1, <3>2
  <2>2. ASSUME tun'["local"][t] = "up" PROVE Pending(t)' \/ shown'[t] = "on"
    <3>1. CASE w = "local" /\ Waits(es, t)
      BY <3>1, <1>4
    <3>2. CASE ~(w = "local" /\ Waits(es, t))
      <4>1. tun["local"][t] = "up"
        BY <2>2, <3>2, <2>h DEF Place
      <4> QED
        BY <4>1, <1>4, <1>s DEF Shows
    <3> QED
      BY <3>1, <3>2
  <2>3. ASSUME tun'["service"][t] = "up"
        PROVE  \/ Pending(t)' \/ shown'[t] = "on" \/ mode' = "socks5"
               \/ \E q \in Procs : At(q, "register")' \/ Asking(q, t)'
    <3>1. Waits(es, t) /\ w = "service" /\ svc # Nil => Pending(t)'
      BY <1>4
    <3>2. ASSUME ~(Waits(es, t) /\ w = "service" /\ svc # Nil) PROVE tun["service"][t] = "up"
      <4>1. CASE w = "service" /\ Waits(es, t)
        <5>1. svc = Nil /\ tun["service"][t] # "off"
          BY <3>2, <4>1, <2>h
        <5>2. tun["service"][t] # "starting"
          BY <5>1, <1>s DEF Heard
        <5>3. tun["service"][t] \in {"off", "starting", "up"}
          BY DEF Types, TypeOK, Place
        <5> QED
          BY <5>1, <5>2, <5>3
      <4>2. CASE ~(w = "service" /\ Waits(es, t))
        BY <4>2, <2>3, <2>h DEF Place
      <4> QED
        BY <4>1, <4>2
    <3>3. ASSUME tun["service"][t] = "up"
          PROVE  \/ Pending(t)' \/ shown'[t] = "on" \/ mode' = "socks5"
                 \/ \E q \in Procs : At(q, "register")' \/ Asking(q, t)'
      <4>1. \/ Pending(t) \/ shown[t] = "on" \/ mode = "socks5"
            \/ \E q \in Procs : At(q, "register") \/ Asking(q, t)
        BY <3>3, <1>s DEF Shows
      <4>2. ASSUME NEW q \in Procs, At(q, "register") \/ Asking(q, t)
            PROVE  At(q, "register")' \/ Asking(q, t)'
        <5>1. Stays(q)
          BY <4>2
        <5>2. Cut(q) => Cut(q)'
          BY <5>1 DEF Cut, Stays
        <5> QED
          BY <4>2, <5>1, <5>2, AskingStays DEF At, Stays
      <4> QED
        BY <4>1, <4>2, <1>4
    <3> QED
      BY <3>1, <3>2, <3>3
  <2> QED
    BY <2>1, <2>2, <2>3
<1> QED
  BY <1>1, <1>2, <1>3, <1>6, <1>7 DEF Sound

\* A command at the service goes over the connection in use.
LEMMA RunUses ==
  ASSUME Types, LinkInv, Wired, NEW p \in Procs, At(p, "run"), proc[p].w = "service", ~Cut(p)
  PROVE  proc[p].conn # Nil /\ svc = proc[p].conn /\ svc # Nil /\ link[svc] = "open"
<1>1. proc[p].conn # Nil /\ proc[p].conn \in Conn
  BY DEF Types, TypeOK, Caller
<1>2. link[proc[p].conn] = "open"
  BY <1>1 DEF Cut
<1>3. fwd[proc[p].conn] # "none"
  BY <1>1 DEF Wired, At
<1>4. svc = proc[p].conn
  <2>1. ASSUME NEW q \in Procs, At(q, "adopt"), proc[q].conn = proc[p].conn PROVE FALSE
    BY <1>3, <2>1 DEF Wired
  <2> QED
    BY <1>1, <1>2, <2>1 DEF LinkInv, NoLeakedConnection
<1> QED
  BY <1>1, <1>2, <1>4

\* A handler's command is carried out.
LEMMA RunSound ==
  ASSUME Types, LinkInv, Wired, Sound, NEW p \in Procs, Run(p), ~crossed'
  PROVE  Sound'
<1> DEFINE w == proc[p].w
<1>t. proc[p] \in Caller /\ tun \in [Place -> [Tunnels -> {"off", "starting", "up"}]]
  BY DEF Types, TypeOK
<1>w. w \in Place /\ proc[p].todo \subseteq Tunnels
  BY <1>t DEF Caller
<1>s. Heard /\ Told /\ Apart /\ Marks /\ Shows
  BY DEF Sound
<1>0. At(p, "run") /\ ~Cut(p) /\ proc[p].ok /\ UNCHANGED <<mode, available, svc, link, fwd, shown>>
  BY DEF Run, Wired, At, appVars
<1>p. ~At(p, "register") /\ ~At(p, "end") /\ ~At(p, "choose") /\ ~At(p, "adopt")
  BY <1>0 DEF At
\* The command is carried out without a change that shows.
<1>e. ASSUME NEW t \in Tunnels, NEW b \in BOOLEAN, proc' = [proc EXCEPT ![p].at = "end", ![p].ok = b]
      PROVE  /\ proc'[p].at = "end" /\ proc'[p].ok = b
             /\ proc'[p].op = proc[p].op /\ proc'[p].todo = proc[p].todo /\ proc'[p].w = proc[p].w
             /\ proc'[p].touched = proc[p].touched /\ proc'[p].conn = proc[p].conn
             /\ \A q \in Procs \ {p} : proc'[q] = proc[q] /\ Stays(q)
  <2> DEFINE r == [proc[p] EXCEPT !.at = "end", !.ok = b]
  <2>1. /\ r.at = "end" /\ r.ok = b /\ r.op = proc[p].op /\ r.todo = proc[p].todo /\ r.w = proc[p].w
        /\ r.touched = proc[p].touched /\ r.conn = proc[p].conn
    BY <1>t DEF Caller
  <2>2. proc' = [proc EXCEPT ![p] = r]
    BY <1>e
  <2> HIDE DEF r
  <2> QED
    BY <2>1, <2>2, MoveStays
<1>1. ASSUME proc[p].op \in {"connect", "connectAll"},
             NEW t \in Due(proc[p].todo),
             IF tun[w][t] = "off" THEN tun' = [tun EXCEPT ![w][t] = "starting"] ELSE UNCHANGED tun,
             proc' = [proc EXCEPT ![p].at = "end", ![p].ok = (tun[w][t] = "off")],
             UNCHANGED <<localQ, linkQ>>
      PROVE  Sound'
  <2>0. t \in Tunnels
    BY <1>w DEF Due
  <2> DEFINE b == tun[w][t] = "off"
  <2>b. b \in BOOLEAN /\ proc' = [proc EXCEPT ![p].at = "end", ![p].ok = b]
    BY <1>1
  <2> HIDE DEF b
  <2>1. /\ proc'[p].at = "end" /\ proc'[p].op = proc[p].op /\ proc'[p].todo = proc[p].todo
        /\ proc'[p].w = proc[p].w /\ proc'[p].touched = proc[p].touched
        /\ \A q \in Procs \ {p} : proc'[q] = proc[q] /\ Stays(q)
    BY <2>0, <2>b, <1>e
  <2>2. RightMark(proc[p])' /\ ~At(p, "adopt")'
    BY <2>1, <1>0, <1>1, <1>s DEF RightMark, Marks, At
  <2>3. \A u : ~Asking(p, u)
    BY <1>1 DEF Asking
  <2>4. CASE tun[w][t] # "off"
    BY <2>1, <2>2, <2>3, <2>4, <1>0, <1>1, <1>p, MoveSound
  <2>5. CASE tun[w][t] = "off"
    <3>1. ~BusyElsewhere(w)
      BY <1>1 DEF Run
    <3>2. \A v \in Place, u \in Tunnels : /\ tun'[v][u] = "up" <=> tun[v][u] = "up"
                                          /\ v # w => tun'[v][u] = tun[v][u]
      BY <2>5, <2>0, <1>1, <1>w, <1>t
    <3>3. Heard'
      <4>1. CASE w = "service"
        BY <4>1, <1>0, <1>s, RunUses DEF Heard
      <4>2. CASE w = "local"
        <5>1. Off("service")' <=> Off("service")
          BY <4>2, <3>2 DEF Off, Place
        <5> QED
          BY <4>2, <5>1, <3>2, <1>0, <1>s DEF Heard, Place
      <4> QED
        BY <4>1, <4>2, <1>w DEF Place
    <3>4. \A c \in Conn : Ours(c)' => Ours(c)
      BY <2>1, <2>2, <1>0 DEF Ours, At
    <3>5. Told'
      BY <3>2, <3>4, <1>0, <1>1, <1>s DEF Told, Tells, Place
    <3>6. Apart'
      <4>1. CASE w = "service"
        BY <4>1, <3>1, <3>2, <1>1 DEF BusyElsewhere, Apart, Off, Place
      <4>2. CASE w = "local"
        BY <4>2, <3>1, <3>2, <1>1 DEF BusyElsewhere, Apart, Off, Place
      <4> QED
        BY <4>1, <4>2, <1>w DEF Place
    <3>7. \A u \in Tunnels, v \in Place : (Known(v, u) => Known(v, u)') /\ (Pending(u) => Pending(u)')
      BY <3>2, <1>0, <1>1 DEF Known, Pending, Waits
    <3>8. ASSUME NEW q \in Procs \ {p} PROVE RightMark(proc[q])'
      <4>1. RightMark(proc[q]) /\ proc[q].w \in Place /\ Stays(q) /\ proc'[q] = proc[q]
        BY <2>1, <1>s DEF Marks, Types, Caller
      <4> QED
        BY <3>7, <4>1, <1>0, MarkStays
    <3>9. Marks'
      BY <3>8, <2>2 DEF Marks
    <3>10. ASSUME NEW q \in Procs, NEW u \in Tunnels, At(q, "register") \/ Asking(q, u)
           PROVE  At(q, "register")' \/ Asking(q, u)'
      <4>1. q # p
        BY <3>10, <2>3, <1>p
      <4>2. Cut(q) => Cut(q)'
        BY <4>1, <2>1, <1>0 DEF Cut
      <4> QED
        BY <4>1, <4>2, <3>10, <2>1, AskingStays DEF At
    <3>11. Shows'
      BY <3>2, <3>7, <3>10, <1>0, <1>s DEF Shows, Place
    <3> QED
      BY <3>3, <3>5, <3>6, <3>9, <3>11 DEF Sound
  <2> QED
    BY <2>4, <2>5
<1>2. ASSUME proc[p].op \in {"disconnect", "disconnectAll"}, NEW ts \in SUBSET Tunnels, StopAt(w, ts), Goto(p, "end")
      PROVE  Sound'
  <2> DEFINE r == [proc[p] EXCEPT !.at = "end"]
  <2>1. /\ r.at = "end" /\ r.ok = proc[p].ok /\ r.op = proc[p].op
    BY <1>t DEF Caller
  <2>2. proc' = [proc EXCEPT ![p] = r]
    BY <1>2 DEF Goto
  <2> HIDE DEF r
  <2>3. proc'[p] = r /\ \A q \in Procs \ {p} : Stays(q)
    BY <2>2, MoveStays
  <2>4. RightMark(proc[p])' /\ ~At(p, "adopt")'
    BY <2>1, <2>3, <1>0, <1>2 DEF RightMark, At
  <2>5. \A t : ~Asking(p, t)
    BY <1>2 DEF Asking
  <2>6. PICK es : Happens(w, es)
    BY <1>2, <1>w, StopHappens
  <2> QED
    BY <2>3, <2>4, <2>5, <2>6, <1>0, <1>p, <1>w, HappensSound
<1>3. ASSUME proc[p].op = "status", NEW t \in Due(proc[p].todo),
             proc' = [proc EXCEPT ![p].at = "end", ![p].ok = (tun[w][t] = "up")],
             UNCHANGED <<tun, localQ, linkQ>>
      PROVE  Sound'
  <2>0. t \in Tunnels /\ \A u \in Due(proc[p].todo) : u = t
    BY <1>w, <1>3 DEF Due
  <2> DEFINE b == tun[w][t] = "up"
  <2>b. b \in BOOLEAN /\ proc' = [proc EXCEPT ![p].at = "end", ![p].ok = b]
    BY <1>3
  <2>1. /\ proc'[p].at = "end" /\ proc'[p].ok = b
        /\ proc'[p].op = proc[p].op /\ proc'[p].todo = proc[p].todo /\ proc'[p].w = proc[p].w
        /\ proc'[p].touched = proc[p].touched /\ proc'[p].conn = proc[p].conn
        /\ \A q \in Procs \ {p} : proc'[q] = proc[q]
    <3> HIDE DEF b
    <3> QED
      BY <2>0, <2>b, <1>e
  <2>2. w = "service" => proc[p].conn # Nil
    BY <1>0, RunUses
  <2>3. b => Known(w, t)'
    BY <1>3, <2>1 DEF Known
  <2>6. proc[p].todo # {}
    BY <1>3 DEF Due
  <2>4. RightMark(proc[p])' /\ ~At(p, "adopt")'
    BY <1>3, <2>0, <2>1, <2>2, <2>3, <2>6 DEF RightMark, At
  <2>5. ASSUME NEW u \in Tunnels, tun["service"][u] = "up", Asking(p, u)
        PROVE  Asking(p, u)'
    BY <2>0, <2>1, <2>5, <1>p DEF Asking, At
  <2> QED
    BY <2>1, <2>4, <2>5, <1>0, <1>p, <1>3, MoveSound
<1> QED
  BY <1>1, <1>2, <1>3, <1>w DEF Run
-----------------------------------------------------------------------------
(* Events                                                                  *)

\* The window handles an event of a tunnel: another is to come, or the event
\* says whether the tunnel is up.
LEMMA HandleSound ==
  ASSUME Types, LinkInv, Wired, Sound, NEW e \in Event, Handle(e),
         UNCHANGED <<svc, available, link, fwd, tun, mode>>,
         Heard', Told', Apart',
         \A t \in Tunnels \ {e.t} : /\ Pending(t) => Pending(t)'
                                    /\ \A w \in Place : Known(w, t) => Known(w, t)',
         Pending(e.t)' \/ (e.type = "connected" <=> \E w \in Place : tun[w][e.t] = "up")
  PROVE  Sound'
<1>s. Heard /\ Told /\ Apart /\ Marks /\ Shows
  BY DEF Sound
<1>t. shown \in [Tunnels -> {"off", "connecting", "on"}] /\ e.t \in Tunnels
  BY DEF Types, TypeOK, Event
<1>1. /\ \A t \in Tunnels \ {e.t} : shown'[t] = shown[t]
      /\ shown'[e.t] = "on" <=> e.type = "connected"
  BY <1>t DEF Handle
<1>2. \A q \in Procs : Stays(q) /\ (~At(q, "idle") => e.t \in proc'[q].touched)
  BY <1>t, TouchStays DEF Handle
<1>3. ASSUME NEW q \in Procs PROVE RightMark(proc[q])'
  <2>1. CASE At(q, "idle")
    <3>1. proc'[q] = Idle
      BY <2>1, <1>2 DEF Stays, Wired
    <3>2. Idle.todo = {} /\ Idle.ok /\ Idle.op = ""
      BY DEF Idle
    <3> QED
      BY <3>1, <3>2 DEF RightMark
  <2>2. CASE ~At(q, "idle")
    <3>1. RightMark(proc[q]) /\ proc[q].w \in Place
      BY <1>s DEF Marks, Types, Caller
    <3>2. \A t \in Tunnels \ proc'[q].touched : t # e.t
      BY <2>2, <1>2
    <3>3. proc'[q].w = proc[q].w
      BY <1>2 DEF Stays
    <3>4. \A t \in Tunnels \ proc'[q].touched :
            /\ shown'[t] = "on" => shown[t] = "on"
            /\ Known(proc[q].w, t) => Known(proc[q].w, t)'
      BY <3>1, <3>2, <3>3, <1>1
    <3> QED
      BY <3>1, <3>4, <1>2, MarkStays
  <2> QED
    BY <2>1, <2>2
<1>4. Marks'
  BY <1>3 DEF Marks
<1>5. \A q \in Procs, t \in Tunnels :
        /\ At(q, "register") => At(q, "register")'
        /\ Asking(q, t) => Asking(q, t)'
  <2>1. \A q \in Procs : Cut(q) => Cut(q)'
    BY <1>2 DEF Cut, Stays
  <2> QED
    BY <2>1, <1>2, AskingStays DEF Stays, At
<1>6. Shows'
  <2> SUFFICES ASSUME NEW t \in Tunnels
               PROVE  /\ shown'[t] = "on" => Pending(t)' \/ \E v \in Place : tun'[v][t] = "up"
                      /\ tun'["local"][t] = "up" => Pending(t)' \/ shown'[t] = "on"
                      /\ tun'["service"][t] = "up" =>
                           \/ Pending(t)' \/ shown'[t] = "on" \/ mode' = "socks5"
                           \/ \E q \in Procs : At(q, "register")' \/ Asking(q, t)'
    BY DEF Shows
  <2>1. CASE t = e.t
    BY <2>1, <1>1 DEF Place
  <2>2. CASE t # e.t
    BY <2>2, <1>1, <1>5, <1>s DEF Shows
  <2> QED
    BY <2>1, <2>2
<1> QED
  BY <1>4, <1>6 DEF Sound

\* The window gets an event of the own manager.
LEMMA LocalEventSound ==
  ASSUME Types, LinkInv, Wired, Sound, LocalEvent
  PROVE  Sound'
<1>s. Heard /\ Told /\ Apart
  BY DEF Sound
<1>t. localQ \in Seq(Event) /\ localQ # <<>>
  BY DEF Types, TypeOK, LocalEvent
<1>e. PICK e \in Event : e = Head(localQ)
  BY <1>t
<1>0. /\ localQ' = Tail(localQ) /\ Handle(e)
      /\ UNCHANGED <<mode, available, svc, tun, link, linkQ, fwd>>
  BY <1>e DEF LocalEvent, appVars, linkVars
<1>1. Off("service") /\ \A c \in Conn : linkQ[c] = <<>>
  BY <1>s, <1>t DEF Apart
<1>2. \A q \in Procs : proc'[q].at = proc[q].at /\ proc'[q].conn = proc[q].conn
  BY <1>0, <1>e, TouchTypes DEF Handle, Event
<1>3. Heard'
  BY <1>0, <1>1, <1>s DEF Heard, Off
<1>4. \A t \in Tunnels :
        /\ Tells(Tail(localQ), t, tun["local"][t] = "up")
        /\ Waits(localQ, t) <=> e.t = t \/ Waits(Tail(localQ), t)
        /\ e.t = t /\ ~Waits(Tail(localQ), t) => (e.type = "connected" <=> tun["local"][t] = "up")
  BY <1>s, <1>t, <1>e, HeadTells DEF Told
<1>5. Told'
  <2>1. \A c \in Conn : Ours(c)' => Ours(c)
    BY <1>0, <1>2 DEF Ours, At
  <2>2. \A t \in Tunnels : Tells(localQ', t, tun'["local"][t] = "up")
    BY <1>0, <1>4
  <2>3. \A t \in Tunnels, c \in Conn : Ours(c)' => Tells(linkQ'[c], t, link'[c] = "open" /\ tun'["service"][t] = "up")
    BY <2>1, <1>0, <1>s DEF Told
  <2> QED
    BY <2>2, <2>3 DEF Told, Tells
<1>6. Apart'
  BY <1>0, <1>1 DEF Apart, Off
<1>7. \A t \in Tunnels : Waits(localQ, t)' <=> Waits(Tail(localQ), t)
  BY <1>0 DEF Waits
<1>8. \A t \in Tunnels : svc # Nil => (Waits(linkQ[svc], t)' <=> Waits(linkQ[svc], t))
  BY <1>0 DEF Waits
<1>9. \A t \in Tunnels \ {e.t} : /\ Pending(t) => Pending(t)'
                                 /\ \A w \in Place : Known(w, t) => Known(w, t)'
  BY <1>0, <1>4, <1>7, <1>8 DEF Pending, Known
<1>10. e.t \in Tunnels
  BY <1>e DEF Event
<1>11. Pending(e.t)' \/ (e.type = "connected" <=> \E w \in Place : tun[w][e.t] = "up")
  <2>1. tun["service"][e.t] # "up"
    BY <1>1, <1>10 DEF Off
  <2>2. Waits(Tail(localQ), e.t) => Pending(e.t)'
    BY <1>7, <1>10 DEF Pending
  <2> QED
    BY <2>1, <2>2, <1>4, <1>10 DEF Place
<1> QED
  BY <1>0, <1>3, <1>5, <1>6, <1>9, <1>11, <1>e, HandleSound

\* The window gets an event of the service.
LEMMA ServiceEventSound ==
  ASSUME Types, LinkInv, Wired, Sound, NEW c \in Conn, ServiceEvent(c)
  PROVE  Sound'
<1>s. Heard /\ Told /\ Apart
  BY DEF Sound
<1>t. linkQ \in [Conn -> Seq(Event)] /\ linkQ[c] \in Seq(Event) /\ linkQ[c] # <<>>
  BY DEF Types, TypeOK, ServiceEvent
<1>c. svc = c /\ c # Nil
  BY DEF ServiceEvent, Wired, Conn, Nil
<1>e. PICK e \in Event : e = Head(linkQ[c])
  BY <1>t
<1>0. /\ linkQ' = [linkQ EXCEPT ![c] = Tail(@)] /\ Handle(e)
      /\ UNCHANGED <<mode, available, svc, tun, link, localQ, fwd>>
  BY <1>e DEF ServiceEvent, appVars
<1>q. linkQ'[c] = Tail(linkQ[c]) /\ \A d \in Conn \ {c} : linkQ'[d] = linkQ[d]
  BY <1>0, <1>t
<1>1. Off("local") /\ localQ = <<>>
  BY <1>s, <1>t DEF Apart
<1>2. \A q \in Procs : proc'[q].at = proc[q].at /\ proc'[q].conn = proc[q].conn
  BY <1>0, <1>e, TouchTypes DEF Handle, Event
<1>3. Heard'
  BY <1>0, <1>c, <1>s DEF Heard, Off
<1>4. \A t \in Tunnels :
        /\ Tells(Tail(linkQ[c]), t, link[c] = "open" /\ tun["service"][t] = "up")
        /\ Waits(linkQ[c], t) <=> e.t = t \/ Waits(Tail(linkQ[c]), t)
        /\ e.t = t /\ ~Waits(Tail(linkQ[c]), t) =>
             (e.type = "connected" <=> link[c] = "open" /\ tun["service"][t] = "up")
  <2> TAKE t \in Tunnels
  <2> DEFINE up == link[c] = "open" /\ tun["service"][t] = "up"
  <2>1. Tells(linkQ[c], t, up)
    BY <1>c, <1>s DEF Told, Ours
  <2> HIDE DEF up
  <2>2. /\ Tells(Tail(linkQ[c]), t, up)
        /\ Waits(linkQ[c], t) <=> Head(linkQ[c]).t = t \/ Waits(Tail(linkQ[c]), t)
        /\ Head(linkQ[c]).t = t /\ ~Waits(Tail(linkQ[c]), t) => (Head(linkQ[c]).type = "connected" <=> up)
    BY <2>1, <1>t, HeadTells
  <2> QED
    BY <2>2, <1>e DEF up
<1>5. Told'
  <2>1. \A d \in Conn : Ours(d)' => Ours(d)
    BY <1>0, <1>2 DEF Ours, At
  <2>2. \A t \in Tunnels : Tells(localQ', t, tun'["local"][t] = "up")
    BY <1>0, <1>s DEF Told
  <2>3. ASSUME NEW t \in Tunnels, NEW d \in Conn, Ours(d)'
        PROVE  Tells(linkQ'[d], t, link'[d] = "open" /\ tun'["service"][t] = "up")
    <3>1. CASE d = c
      BY <3>1, <1>0, <1>q, <1>4
    <3>2. CASE d # c
      BY <3>2, <2>1, <2>3, <1>0, <1>q, <1>s DEF Told
    <3> QED
      BY <3>1, <3>2
  <2> QED
    BY <2>2, <2>3 DEF Told, Tells
<1>6. Apart'
  BY <1>0, <1>1 DEF Apart, Off
<1>7. \A t \in Tunnels : Waits(localQ, t)' <=> Waits(localQ, t)
  BY <1>0 DEF Waits
<1>8. \A t \in Tunnels : Waits(linkQ[svc], t)' <=> Waits(Tail(linkQ[c]), t)
  BY <1>0, <1>c, <1>q DEF Waits
<1>9. \A t \in Tunnels \ {e.t} : /\ Pending(t) => Pending(t)'
                                 /\ \A w \in Place : Known(w, t) => Known(w, t)'
  BY <1>0, <1>c, <1>4, <1>7, <1>8 DEF Pending, Known
<1>10. e.t \in Tunnels
  BY <1>e DEF Event
<1>11. Pending(e.t)' \/ (e.type = "connected" <=> \E w \in Place : tun[w][e.t] = "up")
  <2>1. tun["local"][e.t] # "up"
    BY <1>1, <1>10 DEF Off
  <2>2. Waits(Tail(linkQ[c]), e.t) => Pending(e.t)'
    BY <1>0, <1>c, <1>8, <1>10 DEF Pending
  <2>3. tun["service"][e.t] = "up" => link[c] = "open"
    BY <1>c, <1>s, <1>10 DEF Heard, Off
  <2> QED
    BY <2>1, <2>2, <2>3, <1>4, <1>10 DEF Place
<1> QED
  BY <1>0, <1>3, <1>5, <1>6, <1>9, <1>11, <1>e, HandleSound

\* The connections change, and nothing that is to come from them; no handler moves.
LEMMA LinksSound ==
  ASSUME Types, LinkInv, Wired, Sound, UNCHANGED <<mode, tun, localQ, shown, proc>>, Heard',
         \A c \in Conn : /\ linkQ'[c] = linkQ[c] /\ (link[c] # "open" => link'[c] # "open")
                         /\ Ours(c)' => Ours(c) /\ (Off("service") \/ link'[c] = link[c]),
         svc' = svc \/ (svc' = Nil /\ Off("service") /\ linkQ[svc] = <<>>)
  PROVE  Sound'
<1>s. Told /\ Apart /\ Marks /\ Shows
  BY DEF Sound
<1>t. svc \in Conn \cup {Nil}
  BY DEF Types, TypeOK
<1>1. Apart'
  BY <1>s DEF Apart, Off
<1>2. Told'
  <2>1. \A t \in Tunnels : Tells(localQ', t, tun'["local"][t] = "up")
    BY <1>s DEF Told
  <2>2. ASSUME NEW t \in Tunnels, NEW c \in Conn, Ours(c)'
        PROVE  Tells(linkQ'[c], t, link'[c] = "open" /\ tun'["service"][t] = "up")
    <3>1. Tells(linkQ[c], t, link[c] = "open" /\ tun["service"][t] = "up")
      BY <2>2, <1>s DEF Told
    <3>2. link'[c] = "open" /\ tun'["service"][t] = "up" <=> link[c] = "open" /\ tun["service"][t] = "up"
      BY <2>2 DEF Off
    <3> QED
      BY <3>1, <3>2 DEF Tells
  <2> QED
    BY <2>1, <2>2 DEF Told, Tells
<1>3. \A t \in Tunnels : /\ Pending(t) => Pending(t)'
                         /\ \A w \in Place : Known(w, t) => Known(w, t)'
  <2>1. \A t \in Tunnels : Waits(localQ, t)' <=> Waits(localQ, t)
    BY DEF Waits
  <2>2. ASSUME NEW t \in Tunnels, svc # Nil, Waits(linkQ[svc], t)
        PROVE  svc' = svc /\ svc' # Nil /\ Waits(linkQ[svc], t)'
    <3>1. linkQ[svc] # <<>>
      BY <2>2, EmptyTells
    <3>2. svc' = svc /\ linkQ'[svc] = linkQ[svc]
      BY <3>1, <2>2, <1>t
    <3> QED
      BY <3>2, <2>2 DEF Waits
  <2> QED
    BY <2>1, <2>2 DEF Pending, Known
<1>4. \A q \in Procs : Stays(q)
  BY DEF Stays
<1>c. \A q \in Procs : proc[q].conn # Nil => proc[q].conn \in Conn
  BY DEF Types, Caller
<1>5. ASSUME NEW q \in Procs PROVE RightMark(proc[q])'
  <2>1. RightMark(proc[q]) /\ proc[q].w \in Place
    BY <1>s DEF Marks, Types, Caller
  <2>2. proc[q].conn # Nil /\ link[proc[q].conn] # "open" => link'[proc[q].conn] # "open"
    BY <1>c
  <2>3. \A t \in Tunnels : Known(proc[q].w, t) => Known(proc[q].w, t)'
    BY <1>3, <2>1
  <2> QED
    BY <2>1, <2>2, <2>3, <1>4, MarkStays
<1>6. Marks'
  BY <1>5 DEF Marks
<1>7. \A q \in Procs, t \in Tunnels : /\ At(q, "register") => At(q, "register")'
                                      /\ Asking(q, t) => Asking(q, t)'
  <2>1. \A q \in Procs : Cut(q) => Cut(q)'
    BY <1>c DEF Cut
  <2> QED
    BY <2>1, <1>4, AskingStays DEF At
<1>8. Shows'
  BY <1>3, <1>7, <1>s DEF Shows
<1> QED
  BY <1>1, <1>2, <1>6, <1>8 DEF Sound

\* The service, its connections and the end of their events.
LEMMA ServiceSound ==
  ASSUME Types, LinkInv, Wired, Sound, ~lost',
         ServiceStops \/ ServiceStarts \/ (\E c \in Conn : Break(c) \/ ServiceGone(c))
  PROVE  Sound'
<1>t. /\ link \in [Conn -> {"none", "open", "broken"}] /\ linkQ \in [Conn -> Seq(Event)]
      /\ svc \in Conn \cup {Nil} /\ tun \in [Place -> [Tunnels -> {"off", "starting", "up"}]]
  BY DEF Types, TypeOK
<1>s. Heard
  BY DEF Sound
<1>1. CASE ServiceStarts
  <2>1. Heard'
    BY <1>1, <1>s DEF ServiceStarts, Heard, Off, appVars, linkVars
  <2>2. \A c \in Conn : Ours(c)' => Ours(c)
    BY <1>1 DEF ServiceStarts, Ours, At, appVars
  <2> QED
    BY <1>1, <2>1, <2>2, LinksSound DEF ServiceStarts, appVars, linkVars
<1>2. CASE ServiceStops
  <2>1. Off("service")
    BY <1>2 DEF ServiceStops, Off
  <2>2. tun' = tun
    BY <1>2, <2>1, <1>t DEF ServiceStops, Off
  <2>3. \A c \in Conn : link[c] # "open" => link'[c] # "open"
    BY <1>2 DEF ServiceStops
  <2>4. Heard'
    BY <1>2, <2>1, <2>2, <1>s DEF ServiceStops, Heard, Off, appVars
  <2>5. \A c \in Conn : Ours(c)' => Ours(c)
    BY <1>2 DEF ServiceStops, Ours, At, appVars
  <2> QED
    BY <1>2, <2>1, <2>2, <2>3, <2>4, <2>5, LinksSound DEF ServiceStops, appVars
<1>3. ASSUME NEW c \in Conn, Break(c) PROVE Sound'
  <2>1. link' = [link EXCEPT ![c] = "broken"] /\ UNCHANGED <<mode, svc, available, tun, localQ, fwd, shown, proc>>
    BY <1>3 DEF Break, appVars
  <2>2. PICK k \in 0..Len(linkQ[c]) :
          /\ linkQ' = [linkQ EXCEPT ![c] = SubSeq(@, 1, k)]
          /\ lost' = (lost \/ k < Len(linkQ[c]) \/ \E t \in Tunnels : tun["service"][t] # "off")
    BY <1>3 DEF Break
  <2>3. Off("service") /\ k = Len(linkQ[c])
    <3>1. ~(k < Len(linkQ[c])) /\ ~(\E t \in Tunnels : tun["service"][t] # "off")
      BY <2>2
    <3>2. linkQ[c] \in Seq(Event)
      BY <1>t
    <3>3. Len(linkQ[c]) \in Nat
      BY <3>2
    <3> QED
      BY <3>1, <3>3 DEF Off
  <2>4. linkQ' = linkQ
    <3>1. linkQ[c] \in Seq(Event)
      BY <1>t
    <3>2. SubSeq(linkQ[c], 1, k) = linkQ[c]
      BY <2>3, <3>1
    <3> QED
      BY <2>2, <3>2, <1>t
  <2>5. \A d \in Conn : link[d] # "open" => link'[d] # "open"
    BY <2>1, <1>t
  <2>6. Heard'
    BY <2>1, <2>3, <1>s DEF Heard, Off
  <2>7. \A d \in Conn : Ours(d)' => Ours(d)
    BY <2>1 DEF Ours, At
  <2> QED
    BY <2>1, <2>3, <2>4, <2>5, <2>6, <2>7, LinksSound
<1>4. ASSUME NEW c \in Conn, ServiceGone(c) PROVE Sound'
  <2>1. /\ svc = c /\ svc' = Nil /\ linkQ[c] = <<>> /\ link[c] = "broken"
        /\ UNCHANGED <<mode, tun, localQ, link, linkQ, shown, proc>>
    BY <1>4 DEF ServiceGone, Wired
  <2>2. Off("service")
    BY <2>1, <1>s DEF Heard, Conn, Nil
  <2>3. Heard'
    BY <2>1, <2>2 DEF Heard, Off
  <2>4. \A d \in Conn : Ours(d)' => Ours(d)
    BY <2>1 DEF Ours, At, Conn, Nil
  <2> QED
    BY <2>1, <2>2, <2>3, <2>4, LinksSound
<1> QED
  BY <1>1, <1>2, <1>3, <1>4

\* A tunnel of a manager comes up, fails or falls.
LEMMA ChangeSound ==
  ASSUME Types, LinkInv, Wired, Sound, NEW w \in Place, NEW u \in Tunnels, TunnelChanges(w, u)
  PROVE  Sound'
<1>1. PICK es : Happens(w, es)
  BY ChangeHappens
<1>2. UNCHANGED <<svc, available, link, fwd, shown, mode, proc>>
  BY DEF TunnelChanges, appVars
<1>3. \A q \in Procs : Stays(q)
  BY <1>2 DEF Stays
<1> QED
  BY <1>1, <1>2, <1>3, HappensSound

\* The tunnels of the own manager stop and the window shows none: no handler
\* is under way, and the service has neither tunnels nor news.
LEMMA RegisterSound ==
  ASSUME Types, LinkInv, Wired, Sound, NEW p \in Procs, Register(p), ~behind'
  PROVE  Sound'
<1>s. Heard /\ Told /\ Apart /\ Marks /\ Shows
  BY DEF Sound
<1>t. proc \in [Procs -> Caller] /\ tun \in [Place -> [Tunnels -> {"off", "starting", "up"}]]
  BY DEF Types, TypeOK
<1>0. /\ At(p, "register") /\ StopAt("local", Tunnels) /\ proc' = [proc EXCEPT ![p] = Idle]
      /\ \A t \in Tunnels : shown'[t] = "off"
      /\ UNCHANGED <<mode, available, svc, link, fwd>>
  BY DEF Register, appVars
<1>1. /\ \A t \in Tunnels : tun["service"][t] = "off"
      /\ \A q \in Procs \ {p} : At(q, "idle")
  BY DEF Register
<1>2. PICK es : Happens("local", es)
  BY <1>0, StopHappens DEF Place
<1>3. \A v \in Place, t \in Tunnels : tun'[v][t] # "up"
  <2>1. \A t \in Tunnels : tun'["local"][t] = "off"
    BY <1>0, StopHappens DEF Place
  <2>2. tun'["service"] = tun["service"]
    BY <1>2, HappensWhere DEF Place
  <2> QED
    BY <2>1, <2>2, <1>1 DEF Place
<1>4. proc'[p] = Idle /\ \A q \in Procs \ {p} : proc'[q] = proc[q]
  BY <1>0, MoveStays
<1>5. \A q \in Procs : proc'[q] = Idle
  BY <1>1, <1>4 DEF Wired
<1>6. Idle.at = "idle" /\ Idle.ok /\ Idle.todo = {} /\ Idle.op = ""
  BY DEF Idle
<1>7. Heard'
  BY <1>0, <1>2, <1>s, HappensHeard DEF Place
<1>8. Told'
  <2>1. \A c \in Conn : Ours(c)' => Ours(c)
    BY <1>0, <1>5, <1>6 DEF Ours, At
  <2> QED
    BY <2>1, <1>0, <1>2, <1>s, HappensTold DEF Place
<1>9. Apart'
  BY <1>2, <1>s, HappensApart DEF Place
<1>10. Marks'
  BY <1>5, <1>6 DEF Marks, RightMark
<1>11. Shows'
  BY <1>0, <1>3 DEF Shows, Place
<1> QED
  BY <1>7, <1>8, <1>9, <1>10, <1>11 DEF Sound

\* What the end of a handler marks is so: the window learns that a tunnel is
\* up, or an event is on its way.
LEMMA EndMarks ==
  ASSUME Types, LinkInv, Wired, Sound, NEW p \in Procs, End(p), ~lost', ~crossed'
  PROVE  \E t \in Tunnels :
           /\ proc[p].todo # {} => t \in Due(proc[p].todo)
           /\ \A u \in Tunnels \ {t} : shown'[u] = shown[u]
           /\ shown[t] = "on" => shown'[t] = "on"
           /\ shown'[t] = "on" /\ shown[t] # "on" =>
                Known(proc[p].w, t) /\ (proc[p].w = "service" => proc[p].conn # Nil)
           /\ Asking(p, t) => shown'[t] = "on"
           /\ proc' = [Touch(IF shown'[t] = shown[t] THEN {} ELSE {t}) EXCEPT ![p] =
                IF proc[p].todo \ {t} = {} THEN Idle
                ELSE [proc[p] EXCEPT !.at = CASE proc[p].op = "status" -> "choose"
                                              [] proc[p].w = "service" -> "client"
                                              [] OTHER -> "run",
                                     !.todo = @ \ {t}, !.conn = Nil, !.ok = TRUE]]
<1>t. /\ shown \in [Tunnels -> {"off", "connecting", "on"}] /\ proc[p].todo \subseteq Tunnels
      /\ proc[p].ok \in BOOLEAN
  BY DEF Types, TypeOK, Caller
<1>1. PICK ok \in {proc[p].ok} \cup (IF Cut(p) THEN {FALSE} ELSE {}),
           t \in IF proc[p].todo = {} THEN Tunnels ELSE Due(proc[p].todo) :
        LET marked == CASE proc[p].op \in {"connect", "disconnect"} -> IF ok THEN shown[t] ELSE "off"
                        [] proc[p].op = "status" -> IF ok THEN "on" ELSE shown[t]
                        [] OTHER -> shown[t] IN
        /\ shown' = [shown EXCEPT ![t] = marked]
        /\ crossed' = (crossed \/ (marked # shown[t] /\ t \in proc[p].touched))
        /\ lost' = (lost \/ (~ok /\ Cut(p)))
        /\ proc' = [Touch(IF marked = shown[t] THEN {} ELSE {t}) EXCEPT ![p] =
             IF proc[p].todo \ {t} = {} THEN Idle
             ELSE [proc[p] EXCEPT !.at = CASE proc[p].op = "status" -> "choose"
                                           [] proc[p].w = "service" -> "client"
                                           [] OTHER -> "run",
                                  !.todo = @ \ {t}, !.conn = Nil, !.ok = TRUE]]
  BY DEF End
<1> DEFINE marked == CASE proc[p].op \in {"connect", "disconnect"} -> IF ok THEN shown[t] ELSE "off"
                       [] proc[p].op = "status" -> IF ok THEN "on" ELSE shown[t]
                       [] OTHER -> shown[t]
<1>2. /\ shown' = [shown EXCEPT ![t] = marked]
      /\ marked # shown[t] => t \notin proc[p].touched
      /\ ~ok => ~Cut(p)
  BY <1>1
<1>3. t \in Tunnels /\ (proc[p].todo # {} => t \in Due(proc[p].todo) /\ t \in proc[p].todo)
  BY <1>1, <1>t DEF Due
<1>4. ok = proc[p].ok
  BY <1>1, <1>2, <1>t
<1>5. shown'[t] = marked /\ \A u \in Tunnels \ {t} : shown'[u] = shown[u]
  BY <1>2, <1>3, <1>t
<1>12. proc' = [Touch(IF shown'[t] = shown[t] THEN {} ELSE {t}) EXCEPT ![p] =
          IF proc[p].todo \ {t} = {} THEN Idle
          ELSE [proc[p] EXCEPT !.at = CASE proc[p].op = "status" -> "choose"
                                        [] proc[p].w = "service" -> "client"
                                        [] OTHER -> "run",
                               !.todo = @ \ {t}, !.conn = Nil, !.ok = TRUE]]
  BY <1>1, <1>5
<1> HIDE DEF marked
<1>6. RightMark(proc[p]) /\ At(p, "end")
  BY DEF End, Sound, Marks
<1>7. proc[p].op \in {"connect", "status"} => t \in proc[p].todo /\ t \in Due(proc[p].todo)
  BY <1>3, <1>6 DEF RightMark
<1>8. CASE proc[p].op = "disconnect"
  <2>1. ok
    BY <1>2, <1>4, <1>6, <1>8 DEF RightMark, Cut
  <2>2. marked = shown[t]
    BY <2>1, <1>8 DEF marked
  <2> QED
    BY <2>2, <1>12, <1>3, <1>5, <1>8 DEF Asking
<1>9. CASE proc[p].op = "connect"
  <2>1. marked = shown[t] \/ (marked = "off" /\ shown[t] # "on")
    BY <1>2, <1>6, <1>7, <1>9 DEF RightMark, marked
  <2> QED
    BY <2>1, <1>12, <1>3, <1>5, <1>9 DEF Asking
<1>10. CASE proc[p].op = "status"
  <2>1. marked = IF ok THEN "on" ELSE shown[t]
    BY <1>10 DEF marked
  <2>2. ok /\ shown[t] # "on" => Known(proc[p].w, t) /\ (proc[p].w = "service" => proc[p].conn # Nil)
    BY <1>3, <2>1, <1>2, <1>4, <1>6, <1>7, <1>10 DEF RightMark, At
  <2>3. Asking(p, t) => ok
    BY <1>2, <1>4, <1>6, <1>7 DEF Asking, At
  <2> QED
    BY <2>1, <2>2, <2>3, <1>12, <1>3, <1>5
<1>11. CASE proc[p].op \notin {"connect", "disconnect", "status"}
  <2>1. marked = shown[t]
    BY <1>11 DEF marked
  <2> QED
    BY <2>1, <1>12, <1>3, <1>5, <1>11 DEF Asking
<1> QED
  BY <1>8, <1>9, <1>10, <1>11

\* The end of a handler's call.
LEMMA EndSound ==
  ASSUME Types, LinkInv, Wired, Sound, NEW p \in Procs, End(p), ~lost', ~crossed'
  PROVE  Sound'
<1>s. Heard /\ Told /\ Apart /\ Marks /\ Shows
  BY DEF Sound
<1>t. proc[p] \in Caller
  BY DEF Types
<1>0. At(p, "end") /\ UNCHANGED <<mode, available, svc, tun, localQ, link, linkQ, fwd>>
  BY DEF End, appVars, linkVars
<1> DEFINE Rest(t) == [proc[p] EXCEPT !.at = CASE proc[p].op = "status" -> "choose"
                                               [] proc[p].w = "service" -> "client"
                                               [] OTHER -> "run",
                                      !.todo = @ \ {t}, !.conn = Nil, !.ok = TRUE]
<1>1. PICK t \in Tunnels :
        /\ proc[p].todo # {} => t \in Due(proc[p].todo)
        /\ \A u \in Tunnels \ {t} : shown'[u] = shown[u]
        /\ shown[t] = "on" => shown'[t] = "on"
        /\ shown'[t] = "on" /\ shown[t] # "on" =>
             Known(proc[p].w, t) /\ (proc[p].w = "service" => proc[p].conn # Nil)
        /\ Asking(p, t) => shown'[t] = "on"
        /\ proc' = [Touch(IF shown'[t] = shown[t] THEN {} ELSE {t}) EXCEPT ![p] =
             IF proc[p].todo \ {t} = {} THEN Idle ELSE Rest(t)]
  BY EndMarks
<1>i. Idle.at = "idle" /\ Idle.ok /\ Idle.todo = {} /\ Idle.op = ""
  BY DEF Idle
<1>r. /\ Rest(t).at = CASE proc[p].op = "status" -> "choose"
                        [] proc[p].w = "service" -> "client"
                        [] OTHER -> "run"
      /\ Rest(t).todo = proc[p].todo \ {t} /\ Rest(t).ok = TRUE
      /\ Rest(t).op = proc[p].op /\ Rest(t).w = proc[p].w /\ Rest(t).touched = proc[p].touched
  BY <1>t DEF Caller
<1> DEFINE ts == IF shown'[t] = shown[t] THEN {} ELSE {t}
           r == IF proc[p].todo \ {t} = {} THEN Idle ELSE Rest(t)
<1>2. ts \in SUBSET Tunnels /\ proc' = [Touch(ts) EXCEPT ![p] = r]
  BY <1>1
<1>3. /\ r.ok = TRUE /\ r.at \notin {"end", "adopt", "register"}
      /\ proc[p].todo \ {t} # {} => r = Rest(t)
      /\ r = Idle \/ r = Rest(t)
  <2>1. Rest(t).at \notin {"end", "adopt", "register"}
    BY <1>r
  <2> HIDE DEF Rest
  <2>2. r = IF proc[p].todo \ {t} = {} THEN Idle ELSE Rest(t)
    OBVIOUS
  <2> HIDE DEF r
  <2> QED
    BY <1>i, <1>r, <2>1, <2>2
<1> HIDE DEF Rest, r
<1>4. proc'[p] = r /\ \A q \in Procs \ {p} : Stays(q) /\ (~At(q, "idle") => ts \subseteq proc'[q].touched)
  <2>1. Touch(ts) \in [Procs -> Caller]
    BY <1>2, TouchTypes
  <2>2. \A q \in Procs \ {p} : proc'[q] = Touch(ts)[q]
    BY <1>2, <2>1
  <2>3. proc'[p] = r
    BY <1>2, <2>1
  <2> QED
    BY <2>2, <2>3, <1>2, TouchStays
<1>5. \A u \in Tunnels, w \in Place : (Known(w, u) <=> Known(w, u)') /\ (Pending(u) <=> Pending(u)')
  BY <1>0 DEF Known, Pending, Waits
<1>6. \A u \in Tunnels : shown[u] = "on" => shown'[u] = "on"
  BY <1>1
<1>7. Heard'
  <2> SUFFICES ASSUME svc = Nil, ~Off("service"), NEW u \in Tunnels, shown'[u] = "on" PROVE FALSE
    BY <1>0, <1>s DEF Heard, Off
  <2>1. u = t /\ shown[t] # "on"
    BY <1>1, <1>s DEF Heard
  <2>2. Known(proc[p].w, t) /\ (proc[p].w = "service" => proc[p].conn # Nil)
    BY <2>1, <1>1
  <2>3. proc[p].w # "service"
    BY <2>2, <1>0, <1>s, AskedHeard DEF At
  <2>4. Off("local") /\ localQ = <<>>
    BY <1>s DEF Apart
  <2>5. proc[p].w = "local"
    BY <2>3, <1>t DEF Caller, Place
  <2> QED
    BY <2>2, <2>4, <2>5, EmptyTells DEF Known, Off
<1>8. Told'
  <2>1. \A c \in Conn : Ours(c)' => Ours(c)
    BY <1>0, <1>3, <1>4 DEF Ours, At, Stays
  <2> QED
    BY <2>1, <1>0, <1>s DEF Told, Tells
<1>9. Apart'
  BY <1>0, <1>s DEF Apart, Off
<1>10. RightMark(proc[p])'
  <2>1. CASE r = Idle
    BY <2>1, <1>i, <1>4 DEF RightMark
  <2>2. CASE proc[p].todo \ {t} # {}
    <3>1. r = Rest(t)
      BY <2>2, <1>3
    <3>2. RightMark(proc[p])
      BY <1>s DEF Marks
    <3>3. \A u \in proc[p].todo \ {t} : shown'[u] = shown[u]
      BY <1>1, <1>t DEF Caller
    <3> QED
      BY <2>2, <3>1, <3>2, <3>3, <1>3, <1>4, <1>r DEF RightMark
  <2> QED
    BY <2>1, <2>2 DEF r
<1>11. ASSUME NEW q \in Procs \ {p} PROVE RightMark(proc[q])'
  <2>1. CASE At(q, "idle")
    <3>1. proc'[q] = Idle
      BY <2>1, <1>4 DEF Stays, Wired
    <3> QED
      BY <3>1, <1>i DEF RightMark
  <2>2. CASE ~At(q, "idle")
    <3>1. RightMark(proc[q]) /\ proc[q].w \in Place /\ Stays(q)
      BY <1>4, <1>s DEF Marks, Types, Caller
    <3>2. \A u \in Tunnels \ proc'[q].touched : shown'[u] = shown[u]
      BY <2>2, <1>1, <1>4
    <3>3. proc'[q].w = proc[q].w
      BY <3>1 DEF Stays
    <3> QED
      BY <3>1, <3>2, <3>3, <1>0, <1>5, MarkStays
  <2> QED
    BY <2>1, <2>2
<1>12. Marks'
  BY <1>10, <1>11 DEF Marks
<1>13. Shows'
  <2> SUFFICES ASSUME NEW u \in Tunnels
               PROVE  /\ shown'[u] = "on" => Pending(u)' \/ \E w \in Place : tun'[w][u] = "up"
                      /\ tun'["local"][u] = "up" => Pending(u)' \/ shown'[u] = "on"
                      /\ tun'["service"][u] = "up" =>
                           \/ Pending(u)' \/ shown'[u] = "on" \/ mode' = "socks5"
                           \/ \E q \in Procs : At(q, "register")' \/ Asking(q, u)'
    BY DEF Shows
  <2>1. ASSUME shown'[u] = "on" PROVE Pending(u)' \/ \E w \in Place : tun'[w][u] = "up"
    <3>1. CASE shown[u] = "on"
      BY <3>1, <1>0, <1>5, <1>s DEF Shows, Place
    <3>2. CASE shown[u] # "on"
      <4>1. u = t
        BY <2>1, <3>2, <1>1
      <4>2. Known(proc[p].w, t) /\ (proc[p].w = "service" => proc[p].conn # Nil)
        BY <4>1, <2>1, <3>2, <1>1
      <4>3. proc[p].w = "service" => svc # Nil
        BY <4>2, <1>0, <1>s, AskedHeard DEF At
      <4>4. proc[p].w \in Place
        BY <1>t DEF Caller
      <4>5. Pending(t) \/ tun[proc[p].w][t] = "up"
        BY <4>2, <4>3 DEF Known, Pending
      <4> QED
        BY <4>1, <4>4, <4>5, <1>0, <1>5 DEF Place
    <3> QED
      BY <3>1, <3>2
  <2>2. tun'["local"][u] = "up" => Pending(u)' \/ shown'[u] = "on"
    BY <1>0, <1>5, <1>6, <1>s DEF Shows, Place
  <2>3. ASSUME tun'["service"][u] = "up"
        PROVE  \/ Pending(u)' \/ shown'[u] = "on" \/ mode' = "socks5"
               \/ \E q \in Procs : At(q, "register")' \/ Asking(q, u)'
    <3>1. \/ Pending(u) \/ shown[u] = "on" \/ mode = "socks5"
          \/ \E q \in Procs : At(q, "register") \/ Asking(q, u)
      BY <2>3, <1>0, <1>s DEF Shows
    <3>2. ASSUME NEW q \in Procs \ {p}, At(q, "register") \/ Asking(q, u)
          PROVE  At(q, "register")' \/ Asking(q, u)'
      <4>1. Cut(q) => Cut(q)'
        BY <1>0, <1>4 DEF Cut, Stays
      <4> QED
        BY <4>1, <3>2, <1>4, AskingStays DEF At, Stays
    <3>3. ~At(p, "register")
      BY <1>0 DEF At
    <3>4. ASSUME Asking(p, u), u # t PROVE Asking(p, u)'
      <4>1. proc[p].op = "status" /\ u \in proc[p].todo \ {t}
        BY <3>4 DEF Asking
      <4>2. r = Rest(t)
        BY <4>1, <1>3
      <4> QED
        BY <4>1, <4>2, <1>4, <1>r DEF Asking, At
    <3>5. Asking(p, u) /\ u = t => shown'[u] = "on"
      BY <1>1
    <3> QED
      BY <3>1, <3>2, <3>3, <3>4, <3>5, <1>0, <1>5, <1>6 DEF Place
  <2> QED
    BY <2>1, <2>2, <2>3
<1> QED
  BY <1>7, <1>8, <1>9, <1>12, <1>13 DEF Sound

\* What has been lost, crossed or left behind stays so, and an ended
\* application does not come back.
LEMMA GoodBefore == Types /\ [Next]_vars /\ Good' => Good
<1> SUFFICES ASSUME Types, [Next]_vars, Good' PROVE Good
  OBVIOUS
<1>g. ASSUME alive' => alive, ~lost' => ~lost, ~crossed' => ~crossed, ~behind' => ~behind
      PROVE  Good
  BY <1>g DEF Good
<1>e. ASSUME NEW w, NEW es, Emit(w, es) PROVE ~lost' => ~lost
  BY <1>e DEF Emit
<1>s. ASSUME NEW w, NEW ts, StopAt(w, ts) PROVE ~lost' => ~lost
  BY <1>s, <1>e DEF StopAt
<1>1. ASSUME NEW p \in Procs, Click(p) PROVE Good
  BY <1>1, <1>g DEF Click, appVars
<1>2. ASSUME NEW p \in Procs, Choose(p) \/ ServiceClient(p) \/ Dial(p) \/ Adopt(p) \/ RunCut(p) \/ SwitchMode(p)
      PROVE  Good
  BY <1>2, <1>g DEF Choose, ServiceClient, Dial, Adopt, RunCut, SwitchMode, appVars
<1>3. ASSUME NEW p \in Procs, Absent(p) \/ Quit(p) PROVE Good
  BY <1>3, <1>g DEF Absent, Quit, Good
<1>4. ASSUME NEW p \in Procs, Run(p) PROVE Good
  <2>1. alive' = alive /\ behind' = behind /\ (~crossed' => ~crossed)
    BY <1>4 DEF Run, appVars
  <2>2. ~lost' => ~lost
    BY <1>4, <1>s DEF Run
  <2> QED
    BY <2>1, <2>2, <1>g
<1>5. ASSUME NEW p \in Procs, End(p) PROVE Good
  <2>1. /\ ~lost' => ~lost
        /\ ~crossed' => ~crossed
    BY <1>5 DEF End
  <2> QED
    BY <2>1, <1>5, <1>g DEF End, appVars
<1>6. ASSUME NEW p \in Procs, Register(p) PROVE Good
  <2>1. ~lost' => ~lost
    BY <1>6, <1>s DEF Register
  <2> QED
    BY <2>1, <1>6, <1>g DEF Register, appVars
<1>7. ASSUME NEW w \in Place, NEW t \in Tunnels, TunnelChanges(w, t) PROVE Good
  <2>1. ~lost' => ~lost
    BY <1>7, <1>e DEF TunnelChanges
  <2> QED
    BY <2>1, <1>7, <1>g DEF TunnelChanges, appVars
<1>8. CASE ServiceStops
  BY <1>8, <1>g DEF ServiceStops, appVars
<1>9. CASE ServiceStarts \/ LocalEvent \/ UNCHANGED vars
  BY <1>9, <1>g DEF ServiceStarts, LocalEvent, appVars, vars
<1>10. ASSUME NEW c \in Conn, Break(c) PROVE Good
  <2>1. (~lost' => ~lost) /\ alive' = alive /\ crossed' = crossed /\ behind' = behind
    BY <1>10 DEF Break, appVars
  <2> QED
    BY <2>1, <1>g
<1>11. ASSUME NEW c \in Conn, ServiceEvent(c) \/ ServiceGone(c) PROVE Good
  BY <1>11, <1>g DEF ServiceEvent, ServiceGone, appVars
<1> QED
  BY <1>1, <1>2, <1>3, <1>4, <1>5, <1>6, <1>7, <1>8, <1>9, <1>10, <1>11 DEF Next, Handler

\* Nothing that the window could not know of leaves it wrong.
LEMMA StepSound == Types /\ LinkInv /\ Wired /\ Sound /\ [Next]_vars /\ Good' => Sound'
<1> SUFFICES ASSUME Types, LinkInv, Wired, Sound, [Next]_vars, Good' PROVE Sound'
  OBVIOUS
<1>g. alive' /\ ~lost' /\ ~crossed' /\ ~behind'
  BY DEF Good
<1>1. ASSUME NEW p \in Procs, Click(p) PROVE Sound'
  BY <1>1, ClickSound
<1>2. ASSUME NEW p \in Procs, Handler(p) PROVE Sound'
  <2>1. CASE Choose(p)
    BY <2>1, ChooseSound
  <2>2. CASE ServiceClient(p) \/ RunCut(p) \/ SwitchMode(p)
    BY <2>2, ClientSound
  <2>3. CASE Dial(p)
    BY <2>3, ClientSound, AdoptSound
  <2>4. CASE Adopt(p)
    BY <2>4, AdoptSound
  <2>5. CASE Absent(p)
    BY <2>5, <1>g DEF Absent
  <2>6. CASE Run(p)
    BY <2>6, <1>g, RunSound
  <2>7. CASE End(p)
    BY <2>7, <1>g, EndSound
  <2>8. CASE Register(p)
    BY <2>8, <1>g, RegisterSound
  <2>9. CASE Quit(p)
    BY <2>9, <1>g DEF Quit
  <2> QED
    BY <1>2, <2>1, <2>2, <2>3, <2>4, <2>5, <2>6, <2>7, <2>8, <2>9 DEF Handler
<1>3. ASSUME NEW w \in Place, NEW t \in Tunnels, TunnelChanges(w, t) PROVE Sound'
  BY <1>3, ChangeSound
<1>4. CASE ServiceStops \/ ServiceStarts \/ (\E c \in Conn : Break(c) \/ ServiceGone(c))
  BY <1>4, <1>g, ServiceSound
<1>5. CASE LocalEvent
  BY <1>5, LocalEventSound
<1>6. ASSUME NEW c \in Conn, ServiceEvent(c) PROVE Sound'
  BY <1>6, ServiceEventSound
<1>7. CASE UNCHANGED vars
  <2>1. UNCHANGED <<mode, available, svc, tun, localQ, linkQ, link, fwd, shown, proc>>
    BY <1>7 DEF vars, appVars, linkVars
  <2>2. Heard'
    BY <2>1 DEF Sound, Heard, Off
  <2>3. \A c \in Conn : Ours(c)' => Ours(c)
    BY <2>1 DEF Ours, At
  <2> QED
    BY <2>1, <2>2, <2>3, LinksSound
<1> QED
  BY <1>1, <1>2, <1>3, <1>4, <1>5, <1>6, <1>7 DEF Next

\* At the start only tunnels of an earlier application run, and a handler is
\* about to ask for them.
LEMMA InitWindow == Init => WindowInv
<1> SUFFICES ASSUME Init PROVE WindowInv
  OBVIOUS
<1> DEFINE First == [Idle EXCEPT !.at = "choose", !.op = "status", !.todo = Tunnels]
<1>1. PICK u \in Window : proc = [q \in Procs |-> IF q = u THEN First ELSE Idle]
  BY DEF Init
<1>2. /\ First.at = "choose" /\ First.op = "status" /\ First.todo = Tunnels /\ First.conn = Nil /\ First.ok
      /\ Idle.at = "idle" /\ Idle.op = "" /\ Idle.todo = {} /\ Idle.conn = Nil /\ Idle.ok
  BY DEF Idle
<1> HIDE DEF First
<1>3. \A q \in Procs : proc[q] = First \/ proc[q] = Idle
  BY <1>1
<1>4. u \in Procs /\ proc[u] = First
  BY <1>1 DEF Procs
<1>5. /\ svc = Nil /\ localQ = <<>> /\ \A c \in Conn : link[c] = "none" /\ fwd[c] = "none" /\ linkQ[c] = <<>>
      /\ \A t \in Tunnels : shown[t] = "off"
      /\ available = running
  BY DEF Init
<1>6. PICK held \in SUBSET Tunnels :
        /\ running \/ held = {}
        /\ tun = [w \in Place |-> [t \in Tunnels |-> IF w = "service" /\ t \in held THEN "up" ELSE "off"]]
  BY DEF Init
<1>7. /\ \A t \in Tunnels : tun["local"][t] = "off" /\ tun["service"][t] \in {"off", "up"}
      /\ ~running => \A t \in Tunnels : tun["service"][t] = "off"
  BY <1>6 DEF Place
<1>8. Wired
  <2>1. \A c \in Conn : c # Nil
    BY DEF Conn, Nil
  <2>2. \A p \in Procs : proc[p].conn = Nil /\ proc[p].ok /\ ~At(p, "adopt")
    BY <1>2, <1>3 DEF At
  <2>3. \A p \in Procs : At(p, "idle") => proc[p] = Idle
    BY <1>2, <1>3 DEF At
  <2> QED
    BY <2>1, <2>2, <2>3, <1>5 DEF Wired
<1>9. Heard
  <2>1. ~Off("service") => available
    BY <1>5, <1>7 DEF Off
  <2> QED
    BY <2>1, <1>5, <1>7 DEF Heard
<1>10. Told
  BY <1>5, EmptyTells DEF Told
<1>11. Apart
  BY <1>5, <1>7 DEF Apart, Off
<1>12. Marks
  BY <1>2, <1>3, <1>5 DEF Marks, RightMark
<1>13. Shows
  BY <1>2, <1>4, <1>5, <1>7 DEF Shows, Asking, At
<1> QED
  BY <1>8, <1>9, <1>10, <1>11, <1>12, <1>13 DEF WindowInv, Sound

\* What is sound and settled is shown.
LEMMA SettledShows == Types /\ WindowInv => WindowShowsTunnels
<1> SUFFICES ASSUME Types, WindowInv, Settled, Good, NEW t \in Tunnels
             PROVE  /\ shown[t] = "on" => \E w \in Place : tun[w][t] = "up"
                    /\ tun[Backend][t] = "up" => shown[t] = "on"
  BY DEF WindowShowsTunnels, Good
<1>1. Sound
  BY DEF WindowInv
<1>2. ~Pending(t)
  <2>1. localQ = <<>> /\ \A c \in Conn : linkQ[c] = <<>>
    BY DEF Settled
  <2>2. svc # Nil => linkQ[svc] = <<>>
    BY <2>1 DEF Types, TypeOK
  <2> QED
    BY <2>1, <2>2, EmptyTells DEF Pending
<1>3. \A p \in Procs : ~At(p, "register") /\ ~Asking(p, t)
  <2>1. Idle.at = "idle" /\ Idle.op = ""
    BY DEF Idle
  <2>2. \A p \in Procs : proc[p] = Idle
    BY DEF Settled, WindowInv, Wired
  <2> QED
    BY <2>1, <2>2 DEF Asking, At
<1>4. Backend = "service" => mode # "socks5"
  BY DEF Backend
<1>5. Backend \in {"local", "service"}
  BY DEF Backend
<1> QED
  BY <1>1, <1>2, <1>3, <1>4, <1>5 DEF Sound, Shows

\* Whenever nothing is under way, the window shows a tunnel as connected only
\* if it is up, and every tunnel that is up where commands go, whatever
\* handlers, events, breaks and restarts of the service came before, unless
\* one of the excepted things has happened.
THEOREM WindowCorrect == Spec => []WindowShowsTunnels
<1>1. Init => Types /\ LinkInv /\ WindowInv
  BY InitTypes, InitLink, InitWindow
<1>2. Types /\ LinkInv /\ WindowInv /\ [Next]_vars => Types' /\ LinkInv' /\ WindowInv'
  BY StepTypes, StepLink, StepWired, StepSound, GoodBefore DEF WindowInv
<1>3. Types /\ WindowInv => WindowShowsTunnels
  BY SettledShows
<1> QED
  BY <1>1, <1>2, <1>3, PTL DEF Spec
=============================================================================
