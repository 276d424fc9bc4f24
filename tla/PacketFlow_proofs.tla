-------------------------- MODULE PacketFlow_proofs --------------------------
(* Theorems about PacketFlow: for all modes, queue sizes and numbers of    *)
(* packets.                                                                *)
EXTENDS PacketFlow, FiniteSetTheorems, TLAPS

Place == {"off", "dial", "connected", "take", "put", "done"}
PumpRec == [at : Place, hand : Payload, to : Queue]
Wires == {"tls", "dtls"}

Types ==
  /\ {closed, dclosed, dconnected, dtlsConn} \subseteq BOOLEAN
  /\ mode \in {"tun", "socks5"} /\ mode \in Modes /\ tls \in {"open", "closed"}
  /\ dtls \in {"none", "open", "closed"} /\ dev \in {"none", "open", "closed"}
  /\ q \in [Queue -> Seq(Payload)]
  /\ pump \in [Pump -> PumpRec]
  /\ closer \in {"no", "session", "done"} /\ bridge \in {"none", "up", "cancelled", "closed"}
  /\ peer \in {"alive", "gone"}
  /\ ins \in Nat /\ outs \in Nat /\ ticks \in Nat /\ ins + outs + ticks <= MaxPackets
  /\ got \in Seq(Payload) /\ sent \in [Wires -> Seq(Nat)]

Bounded == \A c \in Queue : Len(q[c]) <= QueueCap

\* A mode has its goroutines; only the bridge has a Close.
Crew ==
  /\ mode = "tun" => \A p \in {"flowR", "flowW", "inject", "extract"} : At(p, "off")
  /\ mode = "socks5" => \A p \in {"tunR", "tunW"} : At(p, "off")
  /\ bridge = "none" <=> mode = "tun"

FromGateway == Wires \X (1..ins)
FromApps    == {"app"} \X (1..outs)
Dpd         == {DpdReq, DpdResp}

Rng(s) == {s[i] : i \in 1..Len(s)}

Hand(p) == {pump[p].hand}
Wire(c) == {Data("app", sent[c][i]) : i \in 1..Len(sent[c])}
Out(c)  == IF c = "tls" THEN "outTLS" ELSE "outDTLS"

\* What a goroutine may hold, and for which queue.
HandOk(p) ==
  \/ /\ p = "tlsR" /\ pump[p].to = "in"
     /\ pump[p].hand \in FromGateway /\ pump[p].hand[1] = "tls"
  \/ p = "tlsR" /\ pump[p].to = "outTLS" /\ pump[p].hand = DpdResp
  \/ /\ p = "dtlsR" /\ pump[p].to = "in"
     /\ pump[p].hand \in FromGateway /\ pump[p].hand[1] = "dtls"
  \/ p = "dtlsR" /\ pump[p].to = "outDTLS" /\ pump[p].hand = DpdResp
  \/ p = "flowR" /\ pump[p].to = "flowIn" /\ pump[p].hand \in FromGateway
  \/ p \in {"tunR", "flowW"} /\ pump[p].to \in {"outTLS", "outDTLS"} /\ pump[p].hand \in FromApps
  \/ p = "extract" /\ pump[p].to = "flowOut" /\ pump[p].hand \in FromApps

HandsOk == \A p \in Pump : IF At(p, "put") THEN HandOk(p) ELSE pump[p].hand = Nothing

\* What is in each queue and in each hand.
Kinds ==
  /\ Rng(got) \cup Rng(q["in"]) \cup Rng(q["flowIn"]) \subseteq FromGateway
  /\ Rng(q["flowOut"]) \subseteq FromApps
  /\ mode = "tun" => Rng(q["flowOut"]) = {} /\ Rng(q["flowIn"]) = {}
  /\ \A c \in Wires : Rng(q[Out(c)]) \subseteq FromApps \cup Dpd /\ Wire(c) \subseteq FromApps
  /\ HandsOk

\* x was made before y, as far as they come from the same maker.
Older(x, y) == x[1] = y[1] /\ x[1] \in {"tls", "dtls", "app"} => x[2] < y[2]
Before(S, T) == \A x \in S, y \in T : Older(x, y)
Asc(s) == \A i, j \in 1..Len(s) : i < j => Older(s[i], s[j])

\* Packets of the gateway on their way: the further the older.
InLine ==
  /\ Asc(got) /\ Asc(q["flowIn"]) /\ Asc(q["in"])
  /\ Before(Rng(got), Rng(q["flowIn"])) /\ Before(Rng(got), Hand("flowR"))
  /\ Before(Rng(got), Rng(q["in"])) /\ Before(Rng(got), Hand("tlsR") \cup Hand("dtlsR"))
  /\ Before(Rng(q["flowIn"]), Hand("flowR")) /\ Before(Rng(q["flowIn"]), Rng(q["in"]))
  /\ Before(Rng(q["flowIn"]), Hand("tlsR") \cup Hand("dtlsR"))
  /\ Before(Hand("flowR"), Rng(q["in"])) /\ Before(Hand("flowR"), Hand("tlsR") \cup Hand("dtlsR"))
  /\ Before(Rng(q["in"]), Hand("tlsR") \cup Hand("dtlsR"))

\* So with the packets of the applications, on either connection.
OutLine ==
  /\ Asc(q["flowOut"])
  /\ Before(Hand("flowW"), Rng(q["flowOut"])) /\ Before(Hand("flowW"), Hand("extract"))
  /\ Before(Rng(q["flowOut"]), Hand("extract"))
  /\ \A c \in Wires :
       /\ Asc(q[Out(c)])
       /\ \A i, j \in 1..Len(sent[c]) : i < j => sent[c][i] < sent[c][j]
       /\ \A i \in 1..Len(sent[c]) : sent[c][i] >= i
       /\ Before(Wire(c), Rng(q[Out(c)]))
       /\ Before(Wire(c) \cup Rng(q[Out(c)]), Hand("tunR") \cup Hand("flowW"))
       /\ Before(Wire(c) \cup Rng(q[Out(c)]), Rng(q["flowOut"]))
       /\ Before(Wire(c) \cup Rng(q[Out(c)]), Hand("extract"))

OnWay(c) == (Wire(c) \cup Rng(q[Out(c)])) \cap FromApps

\* No packet is on its way over both connections.
Apart == OnWay("tls") \cap OnWay("dtls") = {}

Road == OnWay("tls") \cup OnWay("dtls") \cup Hand("tunR") \cup Hand("flowW")
        \cup Hand("extract") \cup Rng(q["flowOut"])

\* No packet of an application is lost while nothing has ended.
Kept == ~closed /\ ~dclosed /\ bridge \in {"none", "up"} => FromApps \subseteq Road

\* A goroutine that has ended has ended what those that feed it listen to.
Ends ==
  /\ At("tunW", "done") \/ At("flowR", "done") \/ At("tlsW", "done") \/ At("flowW", "done") => closed
  /\ At("dtlsW", "done") => dclosed
  /\ At("inject", "done") => bridge # "up" \/ At("flowR", "done")
  /\ pump["dtlsR"].at \in {"take", "put"} => dclosed \/ dconnected

FlowInv == Types /\ Bounded /\ Crew /\ Kinds /\ InLine /\ OutLine /\ Apart /\ Kept /\ Ends
-----------------------------------------------------------------------------
(* Sequences of packets                                                    *)

\* What is put at the end of a queue is in it after all that was in it.
LEMMA AtTheEnd ==
  ASSUME NEW S, NEW s \in Seq(S), NEW x \in S
  PROVE  /\ Append(s, x) \in Seq(S) /\ Rng(Append(s, x)) = Rng(s) \cup {x}
         /\ Asc(s) /\ Before(Rng(s), {x}) => Asc(Append(s, x))
<1>1. /\ Append(s, x) \in Seq(S) /\ Len(Append(s, x)) = Len(s) + 1 /\ Len(s) \in Nat
      /\ \A i \in 1..Len(s) : Append(s, x)[i] = s[i]
      /\ Append(s, x)[Len(s) + 1] = x
  OBVIOUS
<1> DEFINE t == Append(s, x)
<1> HIDE DEF t
<1>2. Rng(t) = Rng(s) \cup {x}
  BY <1>1 DEF Rng, t
<1>3. ASSUME Asc(s), Before(Rng(s), {x}) PROVE Asc(t)
  <2>1. \A i \in 1..Len(s) : Older(s[i], x)
    BY <1>3 DEF Before, Rng
  <2>2. \A i, j \in 1..Len(s) : i < j => Older(s[i], s[j])
    BY <1>3 DEF Asc
  <2>3. ASSUME NEW i \in 1..Len(t), NEW j \in 1..Len(t), i < j PROVE Older(t[i], t[j])
    <3>1. i \in 1..Len(s) /\ (j \in 1..Len(s) \/ j = Len(s) + 1)
      BY <2>3, <1>1 DEF t
    <3> QED
      BY <3>1, <2>1, <2>2, <2>3, <1>1 DEF t
  <2> QED
    BY <2>3 DEF Asc
<1> QED
  BY <1>1, <1>2, <1>3 DEF t

\* What is taken from the front of a queue was in it before the rest.
LEMMA FromTheFront ==
  ASSUME NEW S, NEW s \in Seq(S), s # <<>>
  PROVE  /\ Tail(s) \in Seq(S) /\ Head(s) \in S /\ Len(Tail(s)) = Len(s) - 1 /\ Len(s) \in Nat \ {0}
         /\ Rng(s) = {Head(s)} \cup Rng(Tail(s))
         /\ Asc(s) => Asc(Tail(s)) /\ Before({Head(s)}, Rng(Tail(s)))
<1>1. /\ Tail(s) \in Seq(S) /\ Head(s) \in S /\ Len(Tail(s)) = Len(s) - 1 /\ Len(s) \in Nat \ {0}
      /\ \A i \in 1..Len(s) - 1 : Tail(s)[i] = s[i + 1]
      /\ Head(s) = s[1]
  OBVIOUS
<1> DEFINE t == Tail(s)  h == Head(s)
<1> HIDE DEF t, h
<1>2. Rng(s) = {h} \cup Rng(t)
  <2>1. \A i \in 1..Len(s) : i = 1 \/ (i - 1 \in 1..Len(t) /\ s[i] = t[i - 1])
    BY <1>1 DEF t
  <2>2. \A i \in 1..Len(t) : i + 1 \in 1..Len(s) /\ t[i] = s[i + 1]
    BY <1>1 DEF t
  <2>3. 1 \in 1..Len(s) /\ h = s[1]
    BY <1>1 DEF h
  <2> QED
    BY <2>1, <2>2, <2>3 DEF Rng
<1>3. ASSUME Asc(s) PROVE Asc(t) /\ Before({h}, Rng(t))
  <2>1. \A i \in 1..Len(t) : i + 1 \in 1..Len(s) /\ t[i] = s[i + 1] /\ 1 < i + 1
    BY <1>1 DEF t
  <2>2. 1 \in 1..Len(s) /\ h = s[1]
    BY <1>1 DEF h
  <2>3. \A i, j \in 1..Len(s) : i < j => Older(s[i], s[j])
    BY <1>3 DEF Asc
  <2>4. Asc(t)
    BY <2>1, <2>3 DEF Asc
  <2>5. Before({h}, Rng(t))
    BY <2>1, <2>2, <2>3 DEF Before, Rng
  <2> QED
    BY <2>4, <2>5
<1> QED
  BY <1>1, <1>2, <1>3 DEF t, h

\* The packets of the DPD timer and its answers are in nobody's order.
LEMMA NoOrder ==
  ASSUME NEW x, NEW y \in {Nothing, DpdReq, DpdResp}
  PROVE  Older(x, y) /\ Older(y, x)
  BY DEF Older, Nothing, DpdReq, DpdResp

\* A new packet is younger than all before it.
LEMMA NewIsYounger ==
  ASSUME ins \in Nat, outs \in Nat
  PROVE  /\ \A x \in FromGateway \cup FromApps, w \in Wires : Older(x, Data(w, ins + 1))
         /\ \A x \in FromGateway \cup FromApps : Older(x, Data("app", outs + 1))
  BY DEF Older, FromGateway, FromApps, Wires, Data
-----------------------------------------------------------------------------
(* Types                                                                   *)

\* A goroutine goes on, with or without a packet, or ends.
LEMMA PumpMoves ==
  ASSUME Types, NEW p \in Pump, NEW pl \in Payload, NEW to \in Queue
  PROVE  /\ Take(p) => /\ pump' \in [Pump -> PumpRec]
                       /\ \A x \in Pump : pump'[x] = IF x = p THEN Run ELSE pump[x]
         /\ Hold(p, pl, to) =>
              /\ pump' \in [Pump -> PumpRec]
              /\ \A x \in Pump : pump'[x] = IF x = p THEN [at |-> "put", hand |-> pl, to |-> to] ELSE pump[x]
         /\ Done(p) => /\ pump' \in [Pump -> PumpRec]
                       /\ \A x \in Pump : pump'[x] = IF x = p THEN [Off EXCEPT !.at = "done"] ELSE pump[x]
<1>1. pump \in [Pump -> PumpRec]
  BY DEF Types
<1>2. Run \in PumpRec /\ [Off EXCEPT !.at = "done"] \in PumpRec
  BY DEF Run, Off, PumpRec, Place, Payload, Queue
<1>3. [at |-> "put", hand |-> pl, to |-> to] \in PumpRec
  BY DEF PumpRec, Place
<1> QED
  BY <1>1, <1>2, <1>3 DEF Take, Hold, Done

\* A packet is put into a queue, or the first is taken.
LEMMA QueueMoves ==
  ASSUME Types, NEW c \in Queue
  PROVE  /\ \A x \in Payload : q' = [q EXCEPT ![c] = Append(@, x)] =>
              /\ q' \in [Queue -> Seq(Payload)] /\ q'[c] = Append(q[c], x)
              /\ \A d \in Queue \ {c} : q'[d] = q[d]
         /\ q' = [q EXCEPT ![c] = Tail(@)] /\ q[c] # <<>> =>
              /\ q' \in [Queue -> Seq(Payload)] /\ q'[c] = Tail(q[c])
              /\ Head(q[c]) \in Payload
              /\ \A d \in Queue \ {c} : q'[d] = q[d]
<1>1. q \in [Queue -> Seq(Payload)]
  BY DEF Types
<1>2. q[c] \in Seq(Payload)
  BY <1>1
<1>3. \A x \in Payload : Append(q[c], x) \in Seq(Payload)
  BY <1>2, AtTheEnd
<1>4. q[c] # <<>> => Tail(q[c]) \in Seq(Payload) /\ Head(q[c]) \in Payload
  BY <1>2, FromTheFront
<1> QED
  BY <1>1, <1>3, <1>4

\* The packets that are made are packets.
LEMMA NewPackets ==
  ASSUME Types, ins + outs + ticks < MaxPackets
  PROVE  /\ \A w \in Wires : Data(w, ins + 1) \in Payload
         /\ Data("app", outs + 1) \in Payload
<1>1. ins + 1 \in 1..MaxPackets /\ outs + 1 \in 1..MaxPackets
  BY BoundAssumption DEF Types
<1> QED
  BY <1>1 DEF Payload, Data, Wires

\* The goroutines of a mode are its own for good.
LEMMA CrewStays ==
  ASSUME Crew, mode' = mode, bridge' = "none" <=> bridge = "none",
         \A p \in Pump \ {"dtlsW"} : At(p, "off") => At(p, "off")'
  PROVE  Crew'
  BY DEF Crew, Pump

\* All is in good order when setupTunnel has negotiated.
LEMMA InitFlow == Init => FlowInv
<1> SUFFICES ASSUME Init PROVE FlowInv
  OBVIOUS
<1>0. mode \in {"tun", "socks5"} /\ MaxPackets \in Nat /\ QueueCap \in Nat \ {0}
  BY ModesAssumption, BoundAssumption DEF Init
<1>1. PICK d \in {"dial", "off"} :
        pump = [p \in Pump |-> CASE p = "dtlsR" -> [Off EXCEPT !.at = d]
                                 [] p \in PumpsOf(mode) \ {"dtlsR", "dtlsW"} -> Run
                                 [] OTHER -> Off]
  BY DEF Init
<1>2. \A p \in Pump : /\ pump[p] \in PumpRec /\ pump[p].hand = Nothing
                      /\ pump[p].at \in {"off", "dial", "take"}
                      /\ p \notin PumpsOf(mode) => pump[p].at = "off"
                      /\ p = "dtlsR" => pump[p].at # "take"
  <2> DEFINE First == [Off EXCEPT !.at = d]
  <2>1. \A r \in {First, Run, Off} : r \in PumpRec /\ r.hand = Nothing
    BY DEF PumpRec, Off, Run, Place, Payload, Queue
  <2>2. First.at \in {"off", "dial"} /\ Run.at = "take" /\ Off.at = "off"
    BY DEF Off, Run
  <2> HIDE DEF First
  <2>3. \A p \in Pump :
          pump[p] = IF p = "dtlsR" THEN First
                    ELSE IF p \in PumpsOf(mode) \ {"dtlsR", "dtlsW"} THEN Run ELSE Off
    BY <1>1 DEF First
  <2>4. "dtlsR" \in PumpsOf(mode)
    BY DEF PumpsOf
  <2> QED
    BY <2>1, <2>2, <2>3, <2>4
<1>3. Types
  <2>1. pump \in [Pump -> PumpRec]
    BY <1>1, <1>2
  <2>2. q \in [Queue -> Seq(Payload)] /\ got \in Seq(Payload) /\ sent \in [Wires -> Seq(Nat)]
    BY DEF Init, Wires
  <2>3. {closed, dclosed, dconnected, dtlsConn} \subseteq BOOLEAN
    BY DEF Init
  <2>4. /\ mode \in {"tun", "socks5"} /\ mode \in Modes /\ tls \in {"open", "closed"}
        /\ dtls \in {"none", "open", "closed"} /\ dev \in {"none", "open", "closed"}
        /\ closer \in {"no", "session", "done"} /\ bridge \in {"none", "up", "cancelled", "closed"}
        /\ peer \in {"alive", "gone"}
    BY <1>0 DEF Init
  <2>5. ins \in Nat /\ outs \in Nat /\ ticks \in Nat /\ ins + outs + ticks <= MaxPackets
    BY <1>0 DEF Init
  <2> QED
    BY <2>1, <2>2, <2>3, <2>4, <2>5 DEF Types
<1>4. /\ \A c \in Queue : q[c] = <<>> /\ Len(q[c]) = 0
      /\ got = <<>> /\ Len(got) = 0 /\ \A c \in Wires : sent[c] = <<>> /\ Len(sent[c]) = 0
  <2>1. Len(<<>>) = 0
    OBVIOUS
  <2> QED
    BY <2>1 DEF Init, Wires
<1>5. Bounded
  BY <1>0, <1>4 DEF Bounded
<1>6. Crew
  BY <1>0, <1>2 DEF Crew, Init, At, PumpsOf, Pump
<1>7. /\ Rng(got) = {} /\ Asc(got) /\ \A c \in Queue : Rng(q[c]) = {} /\ Asc(q[c])
      /\ \A c \in Wires : Wire(c) = {}
  BY <1>4 DEF Rng, Asc, Wire
<1>8. Kinds
  BY <1>2, <1>7 DEF Kinds, HandsOk, At, Queue, Out, Wires
<1>9. \A p \in Pump : Hand(p) = {Nothing}
  BY <1>2 DEF Hand
<1>10. InLine
  BY <1>7, <1>9, NoOrder DEF InLine, Before, Queue, Pump
<1>11. OutLine
  BY <1>4, <1>7, <1>9, NoOrder DEF OutLine, Before, Queue, Pump, Out, Wires
<1>12. FromApps = {}
  BY DEF Init, FromApps
<1>13. Apart /\ Kept
  BY <1>12 DEF Apart, Kept, OnWay
<1>14. Ends
  BY <1>2 DEF Ends, At, Pump
<1> QED
  BY <1>3, <1>5, <1>6, <1>8, <1>10, <1>11, <1>13, <1>14 DEF FlowInv

\* What the end of the session and of the DTLS channel leaves.
LEMMA ClosesType ==
  ASSUME Types
  PROVE  /\ DtlsClose => dclosed' = TRUE /\ dconnected' \in BOOLEAN
         /\ SessionClose => /\ closed' = TRUE /\ dclosed' \in BOOLEAN /\ dconnected' \in BOOLEAN
                            /\ dclosed => dclosed'
                            /\ dconnected' = dconnected \/ dclosed'
<1>1. dconnected \in BOOLEAN /\ dclosed \in BOOLEAN
  BY DEF Types
<1>2. DtlsClose => dclosed' = TRUE /\ dconnected' \in BOOLEAN
  BY <1>1 DEF DtlsClose
<1> QED
  BY <1>1, <1>2 DEF SessionClose

Base == Types /\ Bounded /\ Crew

\* Types, the sizes of the queues and the goroutines of each mode stay.
LEMMA StepBase == Base /\ [Next]_vars => Base'
<1> SUFFICES ASSUME Base, [Next]_vars PROVE Base'
  OBVIOUS
<1>t. Types /\ pump \in [Pump -> PumpRec] /\ q \in [Queue -> Seq(Payload)]
      /\ (\A c \in Queue : q[c] \in Seq(Payload)) /\ Bounded /\ Crew
  BY DEF Base, Types
<1>p. \A p \in Pump : pump[p].hand \in Payload /\ pump[p].to \in Queue
  BY <1>t DEF PumpRec
<1>c. QueueCap \in Nat /\ MaxPackets \in Nat
  BY BoundAssumption
\* Goroutines and queues as they are after one of the moves.
<1> DEFINE PumpsOk == pump' \in [Pump -> PumpRec]
                      /\ \A p \in Pump \ {"dtlsW"} : At(p, "off") => At(p, "off")'
           QueuesOk == q' \in [Queue -> Seq(Payload)] /\ Bounded'
<1>m. /\ \A p \in Pump : (Take(p) \/ Done(p)) /\ ~At(p, "off") => PumpsOk
      /\ \A p \in Pump, pl \in Payload, to \in Queue : Hold(p, pl, to) /\ ~At(p, "off") => PumpsOk
      /\ UNCHANGED pump => PumpsOk
  <2>1. Nothing \in Payload /\ "in" \in Queue
    BY DEF Payload, Queue
  <2>2. \A p \in Pump : (Take(p) \/ Done(p)) /\ ~At(p, "off") => PumpsOk
    BY <2>1, <1>t, PumpMoves DEF At
  <2>3. \A p \in Pump, pl \in Payload, to \in Queue : Hold(p, pl, to) /\ ~At(p, "off") => PumpsOk
    BY <1>t, PumpMoves DEF At
  <2> QED
    BY <2>2, <2>3, <1>t DEF At
<1>q. /\ \A c \in Queue, x \in Payload :
           Room(c) /\ q' = [q EXCEPT ![c] = Append(@, x)] => QueuesOk
      /\ \A c \in Queue : q[c] # <<>> /\ q' = [q EXCEPT ![c] = Tail(@)] =>
           QueuesOk /\ Head(q[c]) \in Payload
      /\ UNCHANGED q => QueuesOk
  <2>1. ASSUME NEW c \in Queue, NEW x \in Payload, Room(c), q' = [q EXCEPT ![c] = Append(@, x)]
        PROVE  QueuesOk
    <3>1. q' \in [Queue -> Seq(Payload)] /\ q'[c] = Append(q[c], x) /\ \A d \in Queue \ {c} : q'[d] = q[d]
      BY <2>1, <1>t, QueueMoves
    <3>2. Len(Append(q[c], x)) = Len(q[c]) + 1 /\ Len(q[c]) \in Nat
      BY <1>t
    <3> QED
      BY <3>1, <3>2, <2>1, <1>t, <1>c DEF Bounded, Room
  <2>2. ASSUME NEW c \in Queue, q[c] # <<>>, q' = [q EXCEPT ![c] = Tail(@)]
        PROVE  QueuesOk /\ Head(q[c]) \in Payload
    <3>1. q' \in [Queue -> Seq(Payload)] /\ q'[c] = Tail(q[c]) /\ Head(q[c]) \in Payload
          /\ \A d \in Queue \ {c} : q'[d] = q[d]
      BY <2>2, <1>t, QueueMoves
    <3>2. Len(Tail(q[c])) = Len(q[c]) - 1 /\ Len(q[c]) \in Nat
      BY <2>2, <1>t, FromTheFront
    <3>3. Len(q'[c]) = Len(q[c]) - 1 /\ Len(q[c]) <= QueueCap
      BY <3>1, <3>2, <1>t DEF Bounded
    <3>4. Bounded'
      BY <3>1, <3>2, <3>3, <1>t, <1>c DEF Bounded
    <3> QED
      BY <3>1, <3>4
  <2> QED
    BY <2>1, <2>2, <1>t DEF Bounded
<1>b. ASSUME PumpsOk, mode' = mode, bridge' = "none" <=> bridge = "none" PROVE Crew'
  BY <1>b, <1>t, CrewStays
<1>n. dclosed \in BOOLEAN /\ dconnected \in BOOLEAN
  BY <1>t DEF Types
<1>1. ASSUME NEW p \in Pump, Put(p) PROVE Base'
  <2>0. pump[p].hand \in Payload /\ pump[p].to \in Queue /\ ~At(p, "off")
    BY <1>1, <1>p DEF Put, At
  <2>1. PumpsOk
    BY <1>1, <2>0, <1>m DEF Put
  <2>2. QueuesOk
    BY <1>1, <2>0, <1>q DEF Put
  <2>3. Crew'
    BY <1>1, <2>1, <1>b DEF Put, stopVars
  <2>4. UNCHANGED <<mode, sessVars, dtlsConn, stopVars, histVars>>
    BY <1>1 DEF Put, connVars
  <2>5. /\ tls' \in {"open", "closed"} /\ dtls' \in {"none", "open", "closed"}
        /\ dev' \in {"none", "open", "closed"}
    BY <1>1, <1>t DEF Put, connVars, Types
  <2> HIDE DEF PumpsOk, QueuesOk
  <2> QED
    BY <2>1, <2>2, <2>3, <2>4, <2>5, <1>t DEF Base, Types, sessVars, stopVars, histVars, PumpsOk, QueuesOk
<1>2. CASE ReadDevice \/ ReadNetstack
  <2>1. PICK p \in Pump, to \in Queue : Hold(p, Data("app", outs + 1), to) /\ ~At(p, "off")
    BY <1>2 DEF ReadDevice, ReadNetstack, Channel, Pump, Queue, At
  <2>2. outs' = outs + 1 /\ ins + outs + ticks < MaxPackets
        /\ UNCHANGED <<mode, sessVars, connVars, q, stopVars, ins, ticks, got, sent>>
    BY <1>2 DEF ReadDevice, ReadNetstack
  <2>3. PumpsOk /\ QueuesOk
    BY <2>1, <2>2, <1>t, <1>m, <1>q, NewPackets
  <2>4. Crew'
    BY <2>2, <2>3, <1>b DEF stopVars
  <2>5. outs' \in Nat /\ ins' + outs' + ticks' <= MaxPackets
    BY <2>2, <1>t, <1>c DEF Types
  <2> QED
    BY <2>2, <2>3, <2>4, <2>5, <1>t DEF Base, Types, sessVars, connVars, stopVars
<1>3. CASE DeviceReadFails \/ ExtractEnds
  <2>1. PumpsOk
    BY <1>3, <1>m DEF DeviceReadFails, ExtractEnds, At, Pump
  <2>2. UNCHANGED <<mode, sessVars, connVars, q, stopVars, histVars>>
    BY <1>3 DEF DeviceReadFails, ExtractEnds
  <2> QED
    BY <2>1, <2>2, <1>b, <1>q, <1>t DEF Base, Types, sessVars, connVars, stopVars, histVars
<1>4. CASE TakeFlowOut
  <2>0. "flowOut" \in Queue /\ Channel \in Queue /\ "flowW" \in Pump /\ ~At("flowW", "off")
    BY <1>4 DEF TakeFlowOut, Queue, Channel, Pump, At
  <2>1. PumpsOk /\ QueuesOk
    BY <1>4, <2>0, <1>m, <1>q DEF TakeFlowOut
  <2>2. UNCHANGED <<mode, sessVars, connVars, stopVars, histVars>>
    BY <1>4 DEF TakeFlowOut
  <2>3. Crew'
    BY <2>1, <2>2, <1>b DEF stopVars
  <2> QED
    BY <2>1, <2>2, <2>3, <1>t DEF Base, Types, sessVars, connVars, stopVars, histVars
<1>5. CASE TakePayloadIn
  <2>0. "in" \in Queue /\ "flowIn" \in Queue /\ "flowR" \in Pump /\ ~At("flowR", "off")
    BY <1>5 DEF TakePayloadIn, Queue, Pump, At
  <2>1. PumpsOk /\ QueuesOk
    BY <1>5, <2>0, <1>m, <1>q DEF TakePayloadIn
  <2>2. UNCHANGED <<mode, sessVars, connVars, stopVars, histVars>>
    BY <1>5 DEF TakePayloadIn
  <2>3. Crew'
    BY <2>1, <2>2, <1>b DEF stopVars
  <2> QED
    BY <2>1, <2>2, <2>3, <1>t DEF Base, Types, sessVars, connVars, stopVars, histVars
<1>s. ASSUME NEW w \in Wires, NEW pl \in Payload, Sent(w, pl) PROVE sent' \in [Wires -> Seq(Nat)]
  <2>1. pl[2] > 0 => pl[2] \in Nat
    BY BoundAssumption DEF Payload, Nothing, DpdReq, DpdResp
  <2>2. sent[w] \in Seq(Nat) /\ sent \in [Wires -> Seq(Nat)]
    BY <1>t DEF Types
  <2>3. CASE pl[2] > 0
    <3>1. Append(sent[w], pl[2]) \in Seq(Nat)
      BY <2>1, <2>2, <2>3
    <3>2. sent' = [sent EXCEPT ![w] = Append(@, pl[2])]
      BY <1>s, <2>3 DEF Sent
    <3> QED
      BY <3>1, <3>2, <2>2
  <2>4. CASE ~(pl[2] > 0)
    BY <1>s, <2>2, <2>4 DEF Sent
  <2> QED
    BY <2>3, <2>4
<1>6. CASE WriteTLS
  <2>1. QueuesOk /\ Head(q["outTLS"]) \in Payload
    BY <1>6, <1>q DEF WriteTLS, Queue
  <2>2. sent' \in [Wires -> Seq(Nat)]
    BY <1>6, <2>1, <1>s DEF WriteTLS, Wires
  <2>3. UNCHANGED <<mode, sessVars, connVars, pump, stopVars, ins, outs, ticks, got>>
    BY <1>6 DEF WriteTLS
  <2>4. Crew'
    BY <2>3, <1>m, <1>b DEF stopVars
  <2> QED
    BY <2>1, <2>2, <2>3, <2>4, <1>t DEF Base, Types, sessVars, connVars, stopVars
<1>7. CASE WriteDTLS
  <2>1. QueuesOk /\ Head(q["outDTLS"]) \in Payload
    BY <1>7, <1>q DEF WriteDTLS, Queue
  <2>2. sent' \in [Wires -> Seq(Nat)]
    BY <1>7, <2>1, <1>s DEF WriteDTLS, Wires
  <2>3. UNCHANGED <<mode, sessVars, connVars, pump, stopVars, ins, outs, ticks, got>>
    BY <1>7 DEF WriteDTLS
  <2>4. Crew'
    BY <2>3, <1>m, <1>b DEF stopVars
  <2> QED
    BY <2>1, <2>2, <2>3, <2>4, <1>t DEF Base, Types, sessVars, connVars, stopVars
<1>8. CASE WriterTLSEnds \/ ReaderTLSEnds
  <2>1. PumpsOk
    BY <1>8, <1>m DEF WriterTLSEnds, ReaderTLSEnds, At, Pump
  <2>2. tls' = "closed" /\ SessionClose /\ UNCHANGED <<mode, dtls, dtlsConn, dev, q, stopVars, histVars>>
    BY <1>8 DEF WriterTLSEnds, ReaderTLSEnds
  <2>3. Crew'
    BY <2>1, <2>2, <1>b DEF stopVars
  <2>4. {closed', dclosed', dconnected'} \subseteq BOOLEAN
    BY <2>2, <1>t, ClosesType
  <2> QED
    BY <2>1, <2>2, <2>3, <2>4, <1>q, <1>t DEF Base, Types, stopVars, histVars
<1>9. CASE WriterDTLSEnds \/ ReaderDTLSEnds
  <2>1. PumpsOk
    BY <1>9, <1>m DEF WriterDTLSEnds, ReaderDTLSEnds, At, Pump
  <2>2. dtls' = "closed" /\ DtlsClose /\ UNCHANGED <<mode, closed, tls, dtlsConn, dev, q, stopVars, histVars>>
    BY <1>9 DEF WriterDTLSEnds, ReaderDTLSEnds
  <2>3. Crew'
    BY <2>1, <2>2, <1>b DEF stopVars
  <2>4. {dclosed', dconnected'} \subseteq BOOLEAN
    BY <2>2, <1>t, ClosesType
  <2> QED
    BY <2>1, <2>2, <2>3, <2>4, <1>q, <1>t DEF Base, Types, stopVars, histVars
<1>10. CASE DPDTimer
  <2>0. DpdReq \in Payload /\ "outTLS" \in Queue /\ "outDTLS" \in Queue
    BY DEF Payload, Queue
  <2>1. UNCHANGED <<mode, sessVars, connVars, pump, stopVars, ins, outs, got, sent>>
    BY <1>10 DEF DPDTimer
  <2>2. ticks' \in Nat /\ ins' + outs' + ticks' <= MaxPackets
    BY <1>10, <1>t, <1>c DEF DPDTimer, Types
  <2>3. \A c \in Queue : q'[c] = q[c] \/ (Room(c) /\ q'[c] = Append(q[c], DpdReq))
    BY <1>10, <1>t, <2>0 DEF DPDTimer
  <2>4. \A c \in Queue : q'[c] \in Seq(Payload) /\ (q'[c] = q[c] \/ Len(q'[c]) <= QueueCap)
    <3>1. \A c \in Queue : Append(q[c], DpdReq) \in Seq(Payload) /\ Len(q[c]) \in Nat
                          /\ Len(Append(q[c], DpdReq)) = Len(q[c]) + 1
      BY <1>t, <2>0
    <3>2. ASSUME NEW c \in Queue, q'[c] # q[c] PROVE q'[c] \in Seq(Payload) /\ Len(q'[c]) <= QueueCap
      <4>1. Room(c) /\ q'[c] = Append(q[c], DpdReq)
        BY <2>3, <3>2
      <4>2. Len(q'[c]) = Len(q[c]) + 1 /\ Len(q[c]) \in Nat /\ Len(q[c]) < QueueCap
        BY <4>1, <3>1 DEF Room
      <4> QED
        BY <4>1, <4>2, <3>1, <1>c
    <3> QED
      BY <3>2, <1>t
  <2>5. q' \in [Queue -> Seq(Payload)]
    <3>1. q' = [c \in Queue |-> q'[c]]
      BY <1>10, <1>t DEF DPDTimer
    <3> QED
      BY <3>1, <2>4
  <2>6. Bounded'
    BY <2>4, <1>t DEF Bounded
  <2>7. Crew'
    BY <2>1, <1>m, <1>b DEF stopVars
  <2> QED
    BY <2>1, <2>2, <2>5, <2>6, <2>7, <1>t DEF Base, Types, sessVars, connVars, stopVars
<1>11. CASE ReadTLS \/ ReadDTLS
  <2>1. PICK p \in {"tlsR", "dtlsR"}, by \in Wires, to \in {"outTLS", "outDTLS"} :
          Arrives(p, by, to) /\ At(p, "take")
    BY <1>11 DEF ReadTLS, ReadDTLS, Wires
  <2>2. ins + outs + ticks < MaxPackets /\ ins' = ins + 1
        /\ UNCHANGED <<mode, sessVars, connVars, q, stopVars, outs, ticks, got, sent>>
    BY <1>11 DEF ReadTLS, ReadDTLS, Arrives
  <2>3. PICK pl \in Payload, c \in Queue : Hold(p, pl, c)
    BY <2>1, <2>2, <1>t, NewPackets DEF Arrives, Queue, Payload
  <2>4. PumpsOk
    BY <2>1, <2>3, <1>m DEF Pump, At
  <2>5. ins' \in Nat /\ ins' + outs' + ticks' <= MaxPackets
    BY <2>2, <1>t, <1>c DEF Types
  <2>6. Crew'
    BY <2>2, <2>4, <1>b DEF stopVars
  <2> QED
    BY <2>2, <2>4, <2>5, <2>6, <1>q, <1>t DEF Base, Types, sessVars, connVars, stopVars
<1>12. CASE DialDTLS
  <2> DEFINE r == [pump["dtlsR"] EXCEPT !.at = "connected"]
  <2>0. r \in PumpRec /\ r.at = "connected" /\ "dtlsR" \in Pump /\ ~At("dtlsR", "off")
    BY <1>12, <1>t DEF PumpRec, Place, Pump, DialDTLS, At
  <2>1. pump' = [pump EXCEPT !["dtlsR"] = r] \/ Done("dtlsR")
    BY <1>12 DEF DialDTLS
  <2> HIDE DEF r
  <2>2. ASSUME pump' = [pump EXCEPT !["dtlsR"] = r] PROVE PumpsOk
    BY <2>0, <2>2, <1>t DEF At
  <2>3. PumpsOk
    BY <2>0, <2>1, <2>2, <1>m
  <2>4. UNCHANGED <<mode, sessVars, tls, dev, q, stopVars, histVars>>
        /\ dtls' \in {"none", "open", "closed"} /\ dtlsConn' \in BOOLEAN
    BY <1>12, <1>t DEF DialDTLS, Types
  <2>5. Crew'
    BY <2>3, <2>4, <1>b DEF stopVars
  <2> QED
    BY <2>3, <2>4, <2>5, <1>q, <1>t DEF Base, Types, sessVars, stopVars, histVars
<1>13. CASE ConnectDTLS
  <2>1. Run \in PumpRec /\ Run.at = "take"
    BY DEF Run, PumpRec, Place, Payload, Queue
  <2>2. pump' = [pump EXCEPT !["dtlsR"] = Run, !["dtlsW"] = Run]
    BY <1>13 DEF ConnectDTLS
  <2>3. ~At("dtlsR", "off")
    BY <1>13 DEF ConnectDTLS, At
  <2>4. PumpsOk
    BY <2>1, <2>2, <2>3, <1>t DEF At
  <2>5. dconnected' = TRUE /\ UNCHANGED <<mode, closed, dclosed, connVars, q, stopVars, histVars>>
    BY <1>13 DEF ConnectDTLS
  <2>6. Crew'
    BY <2>4, <2>5, <1>b DEF stopVars
  <2> QED
    BY <2>4, <2>5, <2>6, <1>q, <1>t DEF Base, Types, connVars, stopVars, histVars
<1>14. CASE WriteDevice
  <2>1. QueuesOk /\ Head(q["in"]) \in Payload
    BY <1>14, <1>q DEF WriteDevice, Queue
  <2>2. got' \in Seq(Payload)
    BY <1>14, <2>1, <1>t, AtTheEnd DEF WriteDevice, Types
  <2>3. UNCHANGED <<mode, sessVars, connVars, pump, stopVars, ins, outs, ticks, sent>>
    BY <1>14 DEF WriteDevice
  <2>4. Crew'
    BY <2>3, <1>m, <1>b DEF stopVars
  <2> QED
    BY <2>1, <2>2, <2>3, <2>4, <1>t DEF Base, Types, sessVars, connVars, stopVars
<1>15. CASE DeviceWriterEnds
  <2>1. PumpsOk
    BY <1>15, <1>m DEF DeviceWriterEnds, At, Pump
  <2>2. dev' = "closed" /\ SessionClose /\ UNCHANGED <<mode, tls, dtls, dtlsConn, q, stopVars, histVars>>
    BY <1>15 DEF DeviceWriterEnds
  <2>3. Crew'
    BY <2>1, <2>2, <1>b DEF stopVars
  <2>4. {closed', dclosed', dconnected'} \subseteq BOOLEAN
    BY <2>2, <1>t, ClosesType
  <2> QED
    BY <2>1, <2>2, <2>3, <2>4, <1>q, <1>t DEF Base, Types, stopVars, histVars
<1>16. CASE InjectPacket
  <2>0. "inject" \in Pump /\ ~At("inject", "off") /\ "flowIn" \in Queue
    BY <1>16 DEF InjectPacket, Pump, At, Queue
  <2>1. PumpsOk /\ QueuesOk
    BY <1>16, <2>0, <1>m, <1>q DEF InjectPacket
  <2>2. got' \in Seq(Payload)
    <3>1. got \in Seq(Payload)
      BY <1>t DEF Types
    <3>2. got' = got \/ (q["flowIn"] # <<>> /\ got' = Append(got, Head(q["flowIn"])))
      BY <1>16 DEF InjectPacket
    <3>3. q["flowIn"] # <<>> => Head(q["flowIn"]) \in Payload
      BY <2>0, <1>t, FromTheFront
    <3> QED
      BY <3>1, <3>2, <3>3, AtTheEnd
  <2>3. UNCHANGED <<mode, sessVars, connVars, stopVars, ins, outs, ticks, sent>>
    BY <1>16 DEF InjectPacket
  <2>4. Crew'
    BY <2>1, <2>3, <1>b DEF stopVars
  <2> QED
    BY <2>1, <2>2, <2>3, <2>4, <1>t DEF Base, Types, sessVars, connVars, stopVars
<1>17. CASE PeerGone
  <2>1. peer' = "gone" /\ UNCHANGED <<mode, sessVars, connVars, q, pump, closer, bridge, histVars>>
    BY <1>17 DEF PeerGone
  <2> QED
    BY <2>1, <1>b, <1>m, <1>q, <1>t DEF Base, Types, sessVars, connVars, histVars
<1>18. CASE DeviceGone
  <2>1. dev' = "closed" /\ UNCHANGED <<mode, sessVars, tls, dtls, dtlsConn, q, pump, stopVars, histVars>>
    BY <1>18 DEF DeviceGone
  <2> QED
    BY <2>1, <1>b, <1>m, <1>q, <1>t DEF Base, Types, sessVars, stopVars, histVars
<1>19. CASE CloseTunnel
  <2>1. UNCHANGED <<mode, q, pump, bridge, peer, histVars>> /\ closer' \in {"no", "session", "done"}
    BY <1>19 DEF CloseTunnel
  <2>2. {closed', dclosed', dconnected'} \subseteq BOOLEAN
    <3>1. SessionClose \/ UNCHANGED sessVars
      BY <1>19 DEF CloseTunnel
    <3> QED
      BY <3>1, <1>t, ClosesType DEF sessVars, Types
  <2>3. /\ tls' \in {"open", "closed"} /\ dtls' \in {"none", "open", "closed"}
        /\ dev' \in {"none", "open", "closed"} /\ dtlsConn' = dtlsConn
    BY <1>19, <1>t DEF CloseTunnel, Types, connVars
  <2> QED
    BY <2>1, <2>2, <2>3, <1>b, <1>m, <1>q, <1>t DEF Base, Types, histVars
<1>20. CASE CloseBridge
  <2>1. UNCHANGED <<mode, sessVars, connVars, q, pump, closer, peer, histVars>>
        /\ bridge # "none" /\ bridge' \in {"cancelled", "closed"}
    BY <1>20 DEF CloseBridge
  <2> QED
    BY <2>1, <1>b, <1>m, <1>q, <1>t DEF Base, Types, sessVars, connVars, histVars
<1>21. CASE UNCHANGED vars
  BY <1>21, <1>b, <1>m, <1>q, <1>t DEF Base, Types, vars, sessVars, connVars, stopVars, histVars
<1> QED
  BY <1>1, <1>2, <1>3, <1>4, <1>5, <1>6, <1>7, <1>8, <1>9, <1>10, <1>11, <1>12, <1>13, <1>14,
     <1>15, <1>16, <1>17, <1>18, <1>19, <1>20, <1>21 DEF Next
-----------------------------------------------------------------------------
(* The way of the packets                                                  *)

Lines == Kinds /\ InLine /\ OutLine /\ Apart

\* Where no packet moves, or one is dropped from a hand, all stays in order.
LEMMA Still ==
  ASSUME Types, Lines, UNCHANGED <<mode, q, got, sent, ins, outs>>,
         \A p \in Pump : \/ pump'[p] = pump[p]
                         \/ pump'[p].at # "put" /\ pump'[p].hand = Nothing
  PROVE  Lines'
<1>1. /\ Rng(got)' = Rng(got) /\ FromGateway' = FromGateway /\ FromApps' = FromApps
      /\ \A c \in Queue : Rng(q[c])' = Rng(q[c]) /\ Asc(q[c])' = Asc(q[c])
      /\ \A c \in Wires : Wire(c)' = Wire(c)
      /\ Asc(got)' = Asc(got)
  BY DEF Rng, FromGateway, FromApps, Wire, Asc
<1>2. \A p \in Pump : Hand(p)' = Hand(p) \/ Hand(p)' = {Nothing}
  BY DEF Hand
<1>3. \A p \in {"flowR", "tlsR", "dtlsR", "flowW", "tunR", "extract"} : p \in Pump
  BY DEF Pump
<1>4. /\ \A c \in {"in", "flowIn", "flowOut"} : c \in Queue
      /\ \A c \in Wires : Out(c) \in Queue
  BY DEF Queue, Out
<1>5. Kinds'
  <2>1. HandsOk'
    BY <1>1 DEF Lines, Kinds, HandsOk, At, HandOk
  <2> QED
    BY <2>1, <1>1, <1>4 DEF Lines, Kinds
<1>6. InLine'
  BY <1>1, <1>2, <1>3, <1>4, NoOrder DEF Lines, InLine, Before
<1>7. OutLine'
  BY <1>1, <1>2, <1>3, <1>4, NoOrder DEF Lines, OutLine, Before
<1>8. Apart'
  BY <1>1, <1>4 DEF Lines, Apart, OnWay, Wires
<1> QED
  BY <1>5, <1>6, <1>7, <1>8 DEF Lines

\* The names used below are names of queues and goroutines.
LEMMA Names ==
  /\ \A p \in {"flowR", "tlsR", "dtlsR", "flowW", "tunR", "extract"} : p \in Pump
  /\ \A c \in {"in", "flowIn", "flowOut", "outTLS", "outDTLS"} : c \in Queue
  /\ \A c \in Wires : Out(c) \in {"outTLS", "outDTLS"}
  /\ Out("tls") = "outTLS" /\ Out("dtls") = "outDTLS" /\ Wires = {"tls", "dtls"}
  BY DEF Pump, Queue, Out, Wires

\* What a queue holds after a packet was put into it or taken from it.
LEMMA QueueHolds ==
  ASSUME Types, NEW c \in Queue
  PROVE  /\ \A x \in Payload : q' = [q EXCEPT ![c] = Append(@, x)] =>
              /\ Rng(q[c])' = Rng(q[c]) \cup {x}
              /\ Asc(q[c]) /\ Before(Rng(q[c]), {x}) => Asc(q[c])'
         /\ q[c] # <<>> => Head(q[c]) \in Rng(q[c])
         /\ q[c] # <<>> /\ q' = [q EXCEPT ![c] = Tail(@)] =>
              /\ Rng(q[c]) = {Head(q[c])} \cup Rng(q[c])'
              /\ Asc(q[c]) => Asc(q[c])' /\ Before({Head(q[c])}, Rng(q[c])')
<1>1. q[c] \in Seq(Payload)
  BY DEF Types
<1>2. ASSUME NEW x \in Payload, q' = [q EXCEPT ![c] = Append(@, x)]
      PROVE  /\ Rng(q[c])' = Rng(q[c]) \cup {x}
             /\ Asc(q[c]) /\ Before(Rng(q[c]), {x}) => Asc(q[c])'
  <2>1. q'[c] = Append(q[c], x)
    BY <1>2, QueueMoves
  <2>2. Rng(q'[c]) = Rng(q[c]) \cup {x} /\ (Asc(q[c]) /\ Before(Rng(q[c]), {x}) => Asc(q'[c]))
    BY <1>1, <1>2, <2>1, AtTheEnd
  <2> QED
    BY <2>2
<1>3. ASSUME q[c] # <<>> PROVE Head(q[c]) \in Rng(q[c])
  BY <1>1, <1>3, FromTheFront
<1>4. ASSUME q[c] # <<>>, q' = [q EXCEPT ![c] = Tail(@)]
      PROVE  /\ Rng(q[c]) = {Head(q[c])} \cup Rng(q[c])'
             /\ Asc(q[c]) => Asc(q[c])' /\ Before({Head(q[c])}, Rng(q[c])')
  <2>1. q'[c] = Tail(q[c])
    BY <1>4, QueueMoves
  <2>2. Rng(q[c]) = {Head(q[c])} \cup Rng(q'[c])
        /\ (Asc(q[c]) => Asc(q'[c]) /\ Before({Head(q[c])}, Rng(q'[c])))
    BY <1>1, <1>4, <2>1, FromTheFront
  <2> QED
    BY <2>2
<1> QED
  BY <1>2, <1>3, <1>4

\* No packet was made before itself.
LEMMA NotOlder == ASSUME ins \in Nat, outs \in Nat
                  PROVE  \A x \in FromApps \cup FromGateway : ~Older(x, x)
  BY DEF FromApps, FromGateway, Wires, Older

\* What came over the two connections is in no order.
LEMMA TwoReaders ==
  ASSUME Kinds
  PROVE  Before(Hand("tlsR"), Hand("dtlsR")) /\ Before(Hand("dtlsR"), Hand("tlsR"))
<1>1. \A p \in {"tlsR", "dtlsR"} : HandOk(p) \/ pump[p].hand = Nothing
  BY DEF Kinds, HandsOk, Pump
<1>2. \A p \in {"tlsR", "dtlsR"} :
        \/ pump[p].hand[1] = (IF p = "tlsR" THEN "tls" ELSE "dtls")
        \/ pump[p].hand \in {Nothing, DpdResp}
  BY <1>1 DEF HandOk
<1>3. \/ pump["tlsR"].hand \in {Nothing, DpdResp} \/ pump["dtlsR"].hand \in {Nothing, DpdResp}
      \/ pump["tlsR"].hand[1] # pump["dtlsR"].hand[1]
  BY <1>2
<1>4. Older(pump["tlsR"].hand, pump["dtlsR"].hand) /\ Older(pump["dtlsR"].hand, pump["tlsR"].hand)
  <2>1. CASE pump["tlsR"].hand[1] # pump["dtlsR"].hand[1]
    BY <2>1 DEF Older
  <2> QED
    BY <1>3, <2>1, NoOrder
<1> QED
  BY <1>4 DEF Before, Hand

\* What a goroutine that is not there might hold.
LEMMA EmptyHands ==
  ASSUME Types, Crew, Kinds
  PROVE  /\ mode = "tun" => /\ \A p \in {"flowR", "flowW", "extract"} : Hand(p) = {Nothing} /\ ~At(p, "take")
                            /\ Rng(q["flowOut"]) = {} /\ Rng(q["flowIn"]) = {}
         /\ mode # "tun" => Hand("tunR") = {Nothing} /\ ~At("tunR", "put") /\ ~At("tunR", "take")
         /\ mode = "tun" => \A p \in {"flowR", "flowW", "extract"} : ~At(p, "put")
<1>1. \A p \in Pump : At(p, "off") => Hand(p) = {Nothing} /\ ~At(p, "put") /\ ~At(p, "take")
  BY DEF Kinds, HandsOk, At, Hand
<1> QED
  BY <1>1 DEF Types, Crew, Pump, Kinds

\* A packet goes from a hand to the end of its queue.
LEMMA PutLines ==
  ASSUME Types, Crew, Lines, NEW p \in Pump, At(p, "put"), Take(p),
         q' = [q EXCEPT ![pump[p].to] = Append(@, pump[p].hand)],
         UNCHANGED <<mode, got, sent, ins, outs>>
  PROVE  Lines' /\ FromApps \cap Road \subseteq Road'
<1>p. pump[p].to \in Queue /\ pump[p].hand \in Payload /\ HandOk(p)
  BY DEF Types, PumpRec, Lines, Kinds, HandsOk
<1>t. PICK c \in Queue, x \in Payload : c = pump[p].to /\ x = pump[p].hand
  BY <1>p
<1>0. q' = [q EXCEPT ![c] = Append(@, x)]
  BY <1>t
<1>1. /\ Rng(q[c])' = Rng(q[c]) \cup {x}
      /\ Asc(q[c]) /\ Before(Rng(q[c]), {x}) => Asc(q[c])'
  BY <1>0, <1>t, QueueHolds
<1>2. \A d \in Queue \ {c} : q'[d] = q[d]
  BY <1>0, <1>t, QueueMoves
<1>3. \A d \in Queue \ {c} : Rng(q[d])' = Rng(q[d]) /\ Asc(q[d])' = Asc(q[d])
  BY <1>2 DEF Rng, Asc
<1>4. /\ Rng(got)' = Rng(got) /\ FromGateway' = FromGateway /\ FromApps' = FromApps
      /\ \A w \in Wires : Wire(w)' = Wire(w)
      /\ Asc(got)' = Asc(got)
  BY DEF Rng, FromGateway, FromApps, Wire, Asc
<1>5. \A y \in Pump : pump'[y] = IF y = p THEN Run ELSE pump[y]
  BY <1>t, PumpMoves
<1>6. Hand(p)' = {Nothing} /\ Hand(p) = {x} /\ \A y \in Pump \ {p} : Hand(y)' = Hand(y)
  BY <1>5, <1>t DEF Hand, Run
<1>7. HandsOk'
  BY <1>4, <1>5 DEF Lines, Kinds, HandsOk, At, HandOk, Run
<1>8. CASE p \in {"tlsR", "dtlsR"} /\ c = "in" /\ x \in FromGateway
  <2>0. Before(Hand("tlsR"), Hand("dtlsR")) /\ Before(Hand("dtlsR"), Hand("tlsR"))
    BY TwoReaders DEF Lines
  <2>1. Kinds'
    BY <1>1, <1>3, <1>4, <1>7, <1>8, Names DEF Lines, Kinds
  <2>2. InLine'
    BY <2>0, <1>1, <1>3, <1>4, <1>6, <1>8, Names, NoOrder DEF Lines, InLine, Before
  <2>3. OutLine'
    BY <1>1, <1>3, <1>4, <1>6, <1>8, Names, NoOrder DEF Lines, OutLine, Before
  <2>4. Apart'
    BY <1>1, <1>3, <1>4, <1>6, <1>8, Names DEF Lines, Apart, OnWay
  <2>5. Road' = Road
    BY <1>1, <1>3, <1>4, <1>6, <1>8, Names DEF Road, OnWay
  <2> QED
    BY <2>1, <2>2, <2>3, <2>4, <2>5 DEF Lines
<1>9. CASE p \in {"tlsR", "dtlsR"} /\ c \in {"outTLS", "outDTLS"} /\ x = DpdResp
  <2>1. Kinds'
    BY <1>1, <1>3, <1>4, <1>7, <1>9, Names DEF Lines, Kinds, Dpd
  <2>2. InLine'
    BY <1>1, <1>3, <1>4, <1>6, <1>9, Names, NoOrder DEF Lines, InLine, Before
  <2>3. OutLine'
    BY <1>1, <1>3, <1>4, <1>6, <1>9, Names, NoOrder DEF Lines, OutLine, Before
  <2>4. x \notin FromApps
    BY <1>9 DEF FromApps, DpdResp
  <2>5. Apart'
    BY <1>1, <1>3, <1>4, <1>6, <2>4, Names DEF Lines, Apart, OnWay
  <2>6. FromApps \cap Road \subseteq Road'
    BY <1>1, <1>3, <1>4, <1>6, <1>9, Names DEF Road, OnWay
  <2> QED
    BY <2>1, <2>2, <2>3, <2>5, <2>6 DEF Lines
<1>10. CASE p = "flowR" /\ c = "flowIn" /\ x \in FromGateway
  <2>0. mode # "tun"
    BY <1>10, EmptyHands DEF Lines
  <2>1. Kinds'
    BY <2>0, <1>1, <1>3, <1>4, <1>7, <1>10, Names DEF Lines, Kinds
  <2>2. InLine'
    BY <1>1, <1>3, <1>4, <1>6, <1>10, Names, NoOrder DEF Lines, InLine, Before
  <2>3. OutLine'
    BY <1>1, <1>3, <1>4, <1>6, <1>10, Names, NoOrder DEF Lines, OutLine, Before
  <2>4. Apart'
    BY <1>1, <1>3, <1>4, <1>6, <1>10, Names DEF Lines, Apart, OnWay
  <2>5. Road' = Road
    BY <1>1, <1>3, <1>4, <1>6, <1>10, Names DEF Road, OnWay
  <2> QED
    BY <2>1, <2>2, <2>3, <2>4, <2>5 DEF Lines
<1>11. CASE p \in {"tunR", "flowW"} /\ c \in {"outTLS", "outDTLS"} /\ x \in FromApps
  <2>1. Kinds'
    BY <1>1, <1>3, <1>4, <1>7, <1>11, Names DEF Lines, Kinds
  <2>2. InLine'
    BY <1>1, <1>3, <1>4, <1>6, <1>11, Names, NoOrder DEF Lines, InLine, Before
  <2>3. OutLine'
    <3>1. (p = "tunR" /\ mode = "tun") \/ (p = "flowW" /\ mode # "tun")
      BY <1>11, EmptyHands DEF Lines
    <3>2. CASE p = "tunR" /\ mode = "tun"
      <4>1. Hand("flowW") = {Nothing} /\ Hand("extract") = {Nothing} /\ Rng(q["flowOut"]) = {}
        BY <3>2, EmptyHands DEF Lines
      <4> QED
        BY <4>1, <1>1, <1>3, <1>4, <1>6, <1>11, Names, NoOrder DEF Lines, OutLine, Before
    <3>3. CASE p = "flowW" /\ mode # "tun"
      <4>1. Hand("tunR") = {Nothing}
        BY <3>3, EmptyHands DEF Lines
      <4> QED
        BY <4>1, <3>3, <1>1, <1>3, <1>4, <1>6, <1>11, Names, NoOrder DEF Lines, OutLine, Before
    <3> QED
      BY <3>1, <3>2, <3>3
  <2>4. Apart'
    <3>1. ~Older(x, x)
      BY <1>11, NotOlder DEF Types
    <3>2. x \notin OnWay("tls") /\ x \notin OnWay("dtls")
      BY <3>1, <1>6, <1>11, Names DEF Lines, OutLine, Before, OnWay
    <3> QED
      BY <3>2, <1>1, <1>3, <1>4, <1>11, Names DEF Lines, Apart, OnWay
  <2>5. FromApps \cap Road \subseteq Road'
    BY <1>1, <1>3, <1>4, <1>6, <1>11, Names DEF Road, OnWay
  <2> QED
    BY <2>1, <2>2, <2>3, <2>4, <2>5 DEF Lines
<1>12. CASE p = "extract" /\ c = "flowOut" /\ x \in FromApps
  <2>0. mode # "tun"
    BY <1>12, EmptyHands DEF Lines
  <2>1. Kinds'
    BY <2>0, <1>1, <1>3, <1>4, <1>7, <1>12, Names DEF Lines, Kinds
  <2>2. InLine'
    BY <1>1, <1>3, <1>4, <1>6, <1>12, Names, NoOrder DEF Lines, InLine, Before
  <2>3. OutLine'
    BY <1>1, <1>3, <1>4, <1>6, <1>12, Names, NoOrder DEF Lines, OutLine, Before
  <2>4. Apart'
    BY <1>1, <1>3, <1>4, <1>6, <1>12, Names DEF Lines, Apart, OnWay
  <2>5. FromApps \cap Road \subseteq Road'
    BY <1>1, <1>3, <1>4, <1>6, <1>12, Names DEF Road, OnWay
  <2> QED
    BY <2>1, <2>2, <2>3, <2>4, <2>5 DEF Lines
<1> QED
  BY <1>p, <1>t, <1>8, <1>9, <1>10, <1>11, <1>12 DEF HandOk

\* A goroutine that was empty-handed has taken a packet: a new one, a DPD
\* answer, or (PassLines below) the first of a queue.
LEMMA NewLines ==
  ASSUME Types, Crew, Lines, NEW p \in Pump, NEW x \in Payload, NEW c \in Queue,
         At(p, "take"), Hold(p, x, c), UNCHANGED <<mode, q, got, sent>>,
         \/ /\ p \in {"tunR", "extract"} /\ x = Data("app", outs + 1) /\ outs' = outs + 1 /\ ins' = ins
            /\ c \in (IF p = "tunR" THEN {"outTLS", "outDTLS"} ELSE {"flowOut"})
         \/ /\ p \in {"tlsR", "dtlsR"} /\ x = Data((IF p = "tlsR" THEN "tls" ELSE "dtls"), ins + 1)
            /\ c = "in" /\ ins' = ins + 1 /\ outs' = outs
         \/ /\ p \in {"tlsR", "dtlsR"} /\ x = DpdResp
            /\ c = (IF p = "tlsR" THEN "outTLS" ELSE "outDTLS") /\ ins' = ins + 1 /\ outs' = outs
  PROVE  Lines' /\ FromApps' \subseteq FromApps \cup Hand("tunR")' \cup Hand("extract")'
         /\ FromApps \cap Road \subseteq Road'
<1>t. ins \in Nat /\ outs \in Nat
  BY DEF Types
<1>1. /\ Rng(got)' = Rng(got) /\ Asc(got)' = Asc(got)
      /\ \A d \in Queue : Rng(q[d])' = Rng(q[d]) /\ Asc(q[d])' = Asc(q[d])
      /\ \A w \in Wires : Wire(w)' = Wire(w)
  BY DEF Rng, Wire, Asc
<1>2. FromGateway \subseteq FromGateway' /\ FromApps \subseteq FromApps'
  BY <1>t DEF FromGateway, FromApps
<1>3. \A y \in Pump : pump'[y] = IF y = p THEN [at |-> "put", hand |-> x, to |-> c] ELSE pump[y]
  BY PumpMoves
<1>4. Hand(p)' = {x} /\ Hand(p) = {Nothing} /\ \A y \in Pump \ {p} : Hand(y)' = Hand(y)
  BY <1>3 DEF Hand, Lines, Kinds, HandsOk, At
<1>5. HandsOk'
  <2>1. \A y \in Pump \ {p} : IF At(y, "put")' THEN HandOk(y)' ELSE pump'[y].hand = Nothing
    BY <1>2, <1>3 DEF Lines, Kinds, HandsOk, At, HandOk
  <2>2. At(p, "put")' /\ HandOk(p)'
    BY <1>t, <1>3 DEF HandOk, At, FromGateway, FromApps, Data, Wires
  <2> QED
    BY <2>1, <2>2 DEF HandsOk
<1>6. Kinds'
  BY <1>1, <1>2, <1>5, Names DEF Lines, Kinds
<1>7. \A w \in Wires : OnWay(w)' = OnWay(w)
  <2>1. Dpd \cap FromApps' = {}
    BY DEF Dpd, DpdReq, DpdResp, FromApps
  <2> QED
    BY <1>1, <1>2, <2>1, Names DEF Lines, Kinds, OnWay
<1>8. Apart'
  BY <1>7, Names DEF Lines, Apart
<1>9. FromApps \cap Road \subseteq Road'
  <2>1. Nothing \notin FromApps
    BY DEF Nothing, FromApps
  <2> QED
    BY <2>1, <1>1, <1>4, <1>7, Names DEF Road
<1>y. \A z \in FromGateway \cup FromApps \cup Dpd \cup {Nothing} :
        \/ Older(z, x)
        \/ p \in {"tunR", "extract"} /\ z \notin FromApps \cup Dpd \cup {Nothing}
  BY <1>t, NewIsYounger, NoOrder DEF Dpd, Wires
<1>10. CASE p = "tunR"
  <2>1. /\ mode = "tun" /\ Hand("flowW") = {Nothing} /\ Hand("extract") = {Nothing}
        /\ Rng(q["flowOut"]) = {}
    BY <1>10, EmptyHands DEF Lines
  <2>2. InLine'
    BY <1>1, <1>4, <1>10, Names DEF Lines, InLine, Before
  <2>3. OutLine'
    <3>1. \A w \in Wires : \A z \in Wire(w) \cup Rng(q[Out(w)]) : Older(z, x)
      BY <1>10, <1>y DEF Lines, Kinds
    <3> QED
      BY <2>1, <3>1, <1>1, <1>4, <1>10, Names, NoOrder DEF Lines, OutLine, Before
  <2>4. FromApps' \subseteq FromApps \cup Hand("tunR")'
    BY <1>t, <1>4, <1>10 DEF FromApps, Data
  <2> QED
    BY <2>2, <2>3, <2>4, <1>6, <1>8, <1>9 DEF Lines
<1>11. CASE p = "extract"
  <2>1. mode # "tun" /\ Hand("tunR") = {Nothing}
    BY <1>11, EmptyHands DEF Lines
  <2>2. InLine'
    BY <1>1, <1>4, <1>11, Names DEF Lines, InLine, Before
  <2>3. OutLine'
    <3>1. \A w \in Wires : \A z \in Wire(w) \cup Rng(q[Out(w)]) \cup Rng(q["flowOut"]) : Older(z, x)
      BY <1>11, <1>y DEF Lines, Kinds
    <3>2. \A z \in Hand("flowW") : Older(z, x)
      <4>1. pump["flowW"].hand \in FromApps \cup {Nothing}
        BY DEF Lines, Kinds, HandsOk, HandOk, Pump
      <4> QED
        BY <4>1, <1>11, <1>y DEF Hand
    <3>3. \A z \in Rng(q["flowOut"]) : Older(z, x)
      BY <3>1 DEF Wires
    <3> QED
      BY <2>1, <3>1, <3>2, <3>3, <1>1, <1>4, <1>11, Names, NoOrder DEF Lines, OutLine, Before
  <2>4. FromApps' \subseteq FromApps \cup Hand("extract")'
    BY <1>t, <1>4, <1>11 DEF FromApps, Data
  <2> QED
    BY <2>2, <2>3, <2>4, <1>6, <1>8, <1>9 DEF Lines
<1>12. CASE p \in {"tlsR", "dtlsR"}
  <2>1. \A z \in Rng(got) \cup Rng(q["in"]) \cup Rng(q["flowIn"]) \cup Hand("flowR") : Older(z, x)
    <3>1. pump["flowR"].hand \in FromGateway \cup {Nothing}
      BY DEF Lines, Kinds, HandsOk, HandOk, Pump
    <3> QED
      BY <3>1, <1>12, <1>y DEF Hand, Lines, Kinds
  <2>2. InLine'
    BY <2>1, <1>1, <1>4, <1>12, Names DEF Lines, InLine, Before
  <2>3. OutLine'
    BY <1>1, <1>4, <1>12, Names DEF Lines, OutLine, Before
  <2>4. FromApps' = FromApps
    BY <1>12 DEF FromApps
  <2> QED
    BY <2>2, <2>3, <2>4, <1>6, <1>8, <1>9 DEF Lines
<1> QED
  BY <1>10, <1>11, <1>12

\* The first packet of a queue has left it, and was in it before the others.
LEMMA Leaves ==
  ASSUME Types, NEW c \in Queue, q[c] # <<>>, q' = [q EXCEPT ![c] = Tail(@)]
  PROVE  \E x \in Payload :
           /\ x = Head(q[c]) /\ Rng(q[c]) = {x} \cup Rng(q[c])'
           /\ Asc(q[c]) => Asc(q[c])' /\ Before({x}, Rng(q[c])')
           /\ \A d \in Queue \ {c} : q'[d] = q[d] /\ Rng(q[d])' = Rng(q[d]) /\ Asc(q[d])' = Asc(q[d])
<1>1. Head(q[c]) \in Payload /\ \A d \in Queue \ {c} : q'[d] = q[d]
  BY QueueMoves
<1>2. \A d \in Queue \ {c} : Rng(q[d])' = Rng(q[d]) /\ Asc(q[d])' = Asc(q[d])
  BY <1>1 DEF Rng, Asc
<1> QED
  BY <1>1, <1>2, QueueHolds

\* A goroutine that was empty-handed has taken the first packet of a queue.
LEMMA PassLines ==
  ASSUME Types, Crew, Lines, NEW p \in Pump, NEW c \in Queue, NEW d \in Queue,
         At(p, "take"), q[c] # <<>>, q' = [q EXCEPT ![c] = Tail(@)], Hold(p, Head(q[c]), d),
         UNCHANGED <<mode, got, sent, ins, outs>>,
         \/ p = "flowW" /\ c = "flowOut" /\ d \in {"outTLS", "outDTLS"}
         \/ p = "flowR" /\ c = "in" /\ d = "flowIn"
  PROVE  Lines' /\ FromApps \cap Road \subseteq Road'
<1>1. PICK x \in Payload :
        /\ x = Head(q[c]) /\ Rng(q[c]) = {x} \cup Rng(q[c])'
        /\ Asc(q[c]) => Asc(q[c])' /\ Before({x}, Rng(q[c])')
        /\ \A e \in Queue \ {c} : q'[e] = q[e] /\ Rng(q[e])' = Rng(q[e]) /\ Asc(q[e])' = Asc(q[e])
  BY Leaves
<1>2. /\ Rng(got)' = Rng(got) /\ Asc(got)' = Asc(got) /\ \A w \in Wires : Wire(w)' = Wire(w)
      /\ FromGateway' = FromGateway /\ FromApps' = FromApps
  BY DEF Rng, Asc, Wire, FromGateway, FromApps
<1>3. \A y \in Pump : pump'[y] = IF y = p THEN [at |-> "put", hand |-> x, to |-> d] ELSE pump[y]
  BY <1>1, PumpMoves
<1>4. Hand(p)' = {x} /\ Hand(p) = {Nothing} /\ \A y \in Pump \ {p} : Hand(y)' = Hand(y)
  BY <1>3 DEF Hand, Lines, Kinds, HandsOk, At
<1>5. CASE p = "flowW" /\ c = "flowOut" /\ d \in {"outTLS", "outDTLS"}
  <2>1. x \in FromApps
    BY <1>1, <1>5 DEF Lines, Kinds
  <2>2. HandsOk'
    BY <2>1, <1>2, <1>3, <1>5 DEF Lines, Kinds, HandsOk, At, HandOk
  <2>3. Kinds'
    BY <2>2, <1>1, <1>2, <1>5, Names DEF Lines, Kinds
  <2>4. InLine'
    BY <1>1, <1>2, <1>4, <1>5, Names DEF Lines, InLine, Before
  <2>5. OutLine'
    <3>1. mode # "tun" /\ Hand("tunR") = {Nothing}
      BY <1>5, EmptyHands DEF Lines
    <3>2. OutLine
      BY DEF Lines
    <3>3. Rng(q["flowOut"])' \subseteq Rng(q["flowOut"]) /\ x \in Rng(q["flowOut"])
      BY <1>1, <1>5
    <3>4. Asc(q["flowOut"])' /\ Before({x}, Rng(q["flowOut"])') /\ Before({x}, Hand("extract"))
      BY <3>2, <3>3, <1>1, <1>5 DEF OutLine, Before
    <3>5. \A w \in Wires : Rng(q[Out(w)])' = Rng(q[Out(w)]) /\ Asc(q[Out(w)])' = Asc(q[Out(w)])
      BY <1>1, <1>5, Names
    <3>6. \A w \in Wires : Before(Wire(w) \cup Rng(q[Out(w)]), {x})
      BY <3>2, <3>3 DEF OutLine, Before
    <3> QED
      BY <3>1, <3>2, <3>3, <3>4, <3>5, <3>6, <1>2, <1>4, <1>5, Names, NoOrder DEF OutLine, Before
  <2>6. Apart'
    BY <1>1, <1>2, <1>4, <1>5, Names DEF Lines, Apart, OnWay
  <2>7. FromApps \cap Road \subseteq Road'
    <3>1. Nothing \notin FromApps
      BY DEF Nothing, FromApps
    <3> QED
      BY <3>1, <1>1, <1>2, <1>4, <1>5, Names DEF Road, OnWay
  <2> QED
    BY <2>3, <2>4, <2>5, <2>6, <2>7 DEF Lines
<1>6. CASE p = "flowR" /\ c = "in" /\ d = "flowIn"
  <2>1. x \in FromGateway
    BY <1>1, <1>6 DEF Lines, Kinds
  <2>2. HandsOk'
    BY <2>1, <1>2, <1>3, <1>6 DEF Lines, Kinds, HandsOk, At, HandOk
  <2>3. Kinds'
    BY <2>2, <1>1, <1>2, <1>6, Names DEF Lines, Kinds
  <2>4. InLine'
    BY <1>1, <1>2, <1>4, <1>6, Names DEF Lines, InLine, Before
  <2>5. OutLine'
    BY <1>1, <1>2, <1>4, <1>6, Names DEF Lines, OutLine, Before
  <2>6. Apart'
    BY <1>1, <1>2, <1>4, <1>6, Names DEF Lines, Apart, OnWay
  <2>7. Road' = Road
    BY <1>1, <1>2, <1>4, <1>6, Names DEF Road, OnWay
  <2> QED
    BY <2>3, <2>4, <2>5, <2>6, <2>7 DEF Lines
<1> QED
  BY <1>5, <1>6

\* So with the packets of this tunnel.
LEMMA PacketAtTheEnd ==
  ASSUME NEW s \in Seq(Payload), NEW x \in Payload
  PROVE  /\ Rng(Append(s, x)) = Rng(s) \cup {x}
         /\ Asc(s) /\ Before(Rng(s), {x}) => Asc(Append(s, x))
<1> DEFINE P == Payload
<1>1. s \in Seq(P) /\ x \in P
  OBVIOUS
<1> HIDE DEF P
<1> QED
  BY <1>1, AtTheEnd

\* An application has received the first packet of a queue.
LEMMA GotLines ==
  ASSUME Types, Crew, Lines, NEW c \in Queue, q[c] # <<>>, q' = [q EXCEPT ![c] = Tail(@)],
         got' = Append(got, Head(q[c])), UNCHANGED <<mode, pump, sent, ins, outs>>,
         c = "flowIn" \/ (c = "in" /\ mode = "tun")
  PROVE  Lines' /\ FromApps \cap Road \subseteq Road'
<1>1. PICK x \in Payload :
        /\ x = Head(q[c]) /\ Rng(q[c]) = {x} \cup Rng(q[c])'
        /\ Asc(q[c]) => Asc(q[c])' /\ Before({x}, Rng(q[c])')
        /\ \A e \in Queue \ {c} : q'[e] = q[e] /\ Rng(q[e])' = Rng(q[e]) /\ Asc(q[e])' = Asc(q[e])
  BY Leaves
<1>2. /\ \A w \in Wires : Wire(w)' = Wire(w)
      /\ \A y \in Pump : Hand(y)' = Hand(y)
      /\ FromGateway' = FromGateway /\ FromApps' = FromApps
  BY DEF Wire, Hand, FromGateway, FromApps
<1>3. Rng(got)' = Rng(got) \cup {x} /\ (Asc(got) /\ Before(Rng(got), {x}) => Asc(got)')
  <2>1. got \in Seq(Payload)
    BY DEF Types
  <2>2. Rng(got') = Rng(got) \cup {x} /\ (Asc(got) /\ Before(Rng(got), {x}) => Asc(got'))
    <3>1. got' = Append(got, x)
      BY <1>1
    <3>2. x \in Payload
      BY <1>1
    <3>3. \A s \in Seq(Payload), y \in Payload :
            /\ Rng(Append(s, y)) = Rng(s) \cup {y}
            /\ Asc(s) /\ Before(Rng(s), {y}) => Asc(Append(s, y))
      BY PacketAtTheEnd
    <3> QED
      BY <2>1, <3>1, <3>2, <3>3
  <2> QED
    BY <2>2
<1>4. Kinds'
  <2>1. HandsOk'
    BY <1>2 DEF Lines, Kinds, HandsOk, At, HandOk
  <2> QED
    BY <2>1, <1>1, <1>2, <1>3, Names DEF Lines, Kinds
<1>5. InLine'
  <2>0. InLine
    BY DEF Lines
  <2>1. CASE c = "flowIn"
    <3>1. /\ Before({x}, Hand("flowR")) /\ Before({x}, Rng(q["in"]))
          /\ Before({x}, Hand("tlsR") \cup Hand("dtlsR")) /\ Before(Rng(got), {x})
      BY <2>0, <2>1, <1>1 DEF InLine, Before
    <3>2. Asc(got)' /\ Asc(q["flowIn"])' /\ Before({x}, Rng(q["flowIn"])') /\ Asc(q["in"])'
      BY <2>0, <2>1, <3>1, <1>1, <1>3, Names DEF InLine
    <3>3. Rng(q["flowIn"])' \subseteq Rng(q["flowIn"]) /\ Rng(q["in"])' = Rng(q["in"])
      BY <2>1, <1>1, Names
    <3> QED
      BY <2>0, <3>1, <3>2, <3>3, <1>2, <1>3, Names DEF InLine, Before
  <2>2. CASE c = "in" /\ mode = "tun"
    <3>0. Hand("flowR") = {Nothing} /\ Rng(q["flowIn"]) = {}
      BY <2>2, EmptyHands DEF Lines
    <3>1. Before({x}, Hand("tlsR") \cup Hand("dtlsR")) /\ Before(Rng(got), {x})
      BY <2>0, <2>2, <1>1 DEF InLine, Before
    <3>2. Asc(got)' /\ Asc(q["flowIn"])' /\ Before({x}, Rng(q["in"])') /\ Asc(q["in"])'
      BY <2>0, <2>2, <3>1, <1>1, <1>3, Names DEF InLine
    <3>3. Rng(q["in"])' \subseteq Rng(q["in"]) /\ Rng(q["flowIn"])' = {}
      BY <2>2, <3>0, <1>1, Names
    <3> QED
      BY <2>0, <3>0, <3>1, <3>2, <3>3, <1>2, <1>3, Names, NoOrder DEF InLine, Before
  <2> QED
    BY <2>1, <2>2
<1>f. /\ Rng(q["flowOut"])' = Rng(q["flowOut"]) /\ Asc(q["flowOut"])' = Asc(q["flowOut"])
      /\ \A w \in Wires : Rng(q[Out(w)])' = Rng(q[Out(w)]) /\ Asc(q[Out(w)])' = Asc(q[Out(w)])
  BY <1>1, Names
<1>6. OutLine'
  BY <1>f, <1>2, Names DEF Lines, OutLine, Before
<1>7. Apart'
  BY <1>f, <1>2, Names DEF Lines, Apart, OnWay
<1>8. Road' = Road
  BY <1>f, <1>2, Names DEF Road, OnWay
<1> QED
  BY <1>4, <1>5, <1>6, <1>7, <1>8 DEF Lines

\* The first packet of the queue of a connection has been written to it.
LEMMA WriteLines ==
  ASSUME Types, Crew, Lines, NEW w \in Wires, q[Out(w)] # <<>>,
         q' = [q EXCEPT ![Out(w)] = Tail(@)], Sent(w, Head(q[Out(w)])),
         UNCHANGED <<mode, pump, got, ins, outs>>
  PROVE  Lines' /\ FromApps \cap Road \subseteq Road'
<1>c. PICK c \in Queue : c = Out(w) /\ c \in {"outTLS", "outDTLS"} /\ \A v \in Wires \ {w} : Out(v) # c
  BY Names DEF Out
<1>1. PICK x \in Payload :
        /\ x = Head(q[c]) /\ Rng(q[c]) = {x} \cup Rng(q[c])'
        /\ Asc(q[c]) => Asc(q[c])' /\ Before({x}, Rng(q[c])')
        /\ \A e \in Queue \ {c} : q'[e] = q[e] /\ Rng(q[e])' = Rng(q[e]) /\ Asc(q[e])' = Asc(q[e])
  BY <1>c, Leaves
<1>2. /\ \A y \in Pump : Hand(y)' = Hand(y)
      /\ Rng(got)' = Rng(got) /\ Asc(got)' = Asc(got)
      /\ FromGateway' = FromGateway /\ FromApps' = FromApps
  BY DEF Hand, Rng, Asc, FromGateway, FromApps
<1>f. /\ \A e \in {"in", "flowIn", "flowOut"} : Rng(q[e])' = Rng(q[e]) /\ Asc(q[e])' = Asc(q[e])
      /\ \A v \in Wires \ {w} : Rng(q[Out(v)])' = Rng(q[Out(v)]) /\ Asc(q[Out(v)])' = Asc(q[Out(v)])
  <2>1. \A e \in {"in", "flowIn", "flowOut"} : e \in Queue \ {c}
    BY <1>c, Names
  <2>2. \A v \in Wires \ {w} : Out(v) \in Queue \ {c}
    BY <1>c, Names
  <2> QED
    BY <2>1, <2>2, <1>1
<1>3. x \in FromApps \cup Dpd /\ x \in Rng(q[c])
  BY <1>1, <1>c DEF Lines, Kinds
<1>4. /\ \A v \in Wires \ {w} : sent'[v] = sent[v]
      /\ x \in Dpd => sent'[w] = sent[w]
      /\ x \in FromApps => sent'[w] = Append(sent[w], x[2]) /\ x = Data("app", x[2]) /\ x[2] \in Nat \ {0}
  <2>1. sent \in [Wires -> Seq(Nat)] /\ sent' = [sent EXCEPT ![w] = IF x[2] > 0 THEN Append(@, x[2]) ELSE @]
    BY <1>1, <1>c DEF Types, Sent
  <2>2. x \in Dpd => x[2] = 0
    BY DEF Dpd, DpdReq, DpdResp
  <2>3. x \in FromApps => x = Data("app", x[2]) /\ x[2] \in Nat \ {0}
    BY DEF FromApps, Data, Types
  <2> QED
    BY <2>1, <2>2, <2>3
<1>5. \A v \in Wires \ {w} : Wire(v)' = Wire(v)
  BY <1>4 DEF Wire
<1>6. /\ Wire(w)' = Wire(w) \cup ({x} \cap FromApps)
      /\ \A i, j \in 1..Len(sent'[w]) : i < j => sent'[w][i] < sent'[w][j]
      /\ \A i \in 1..Len(sent'[w]) : sent'[w][i] >= i
  <2>0. /\ sent[w] \in Seq(Nat) /\ Len(sent[w]) \in Nat
        /\ \A i \in 1..Len(sent[w]) : sent[w][i] \in Nat
    BY DEF Types
  <2>1. /\ \A i, j \in 1..Len(sent[w]) : i < j => sent[w][i] < sent[w][j]
        /\ \A i \in 1..Len(sent[w]) : sent[w][i] >= i
        /\ Before(Wire(w), Rng(q[c]))
    BY <1>c DEF Lines, OutLine
  <2>2. CASE x \in Dpd
    <3>1. x \notin FromApps
      BY <2>2 DEF FromApps, Dpd, DpdReq, DpdResp
    <3> QED
      BY <2>1, <2>2, <3>1, <1>4 DEF Wire
  <2>3. CASE x \in FromApps
    <3>1. PICK n \in Nat \ {0} : n = x[2] /\ x = Data("app", n)
      BY <1>4, <2>3
    <3>2. sent'[w] = Append(sent[w], n)
      BY <1>4, <2>3, <3>1
    <3>3. /\ Len(sent'[w]) = Len(sent[w]) + 1 /\ sent'[w][Len(sent[w]) + 1] = n
          /\ \A i \in 1..Len(sent[w]) : sent'[w][i] = sent[w][i]
      BY <2>0, <3>2
    <3>4. \A i \in 1..Len(sent[w]) : sent[w][i] < n
      <4>1. \A i \in 1..Len(sent[w]) : Older(Data("app", sent[w][i]), x)
        BY <2>1, <1>3 DEF Before, Wire
      <4> QED
        BY <4>1, <3>1 DEF Older, Data
    <3>5. n >= Len(sent[w]) + 1
      <4>1. CASE Len(sent[w]) = 0
        BY <4>1
      <4>2. CASE Len(sent[w]) # 0
        <5>1. Len(sent[w]) \in 1..Len(sent[w])
          BY <2>0, <4>2
        <5>2. sent[w][Len(sent[w])] < n /\ sent[w][Len(sent[w])] >= Len(sent[w])
              /\ sent[w][Len(sent[w])] \in Nat
          BY <5>1, <3>4, <2>1, <2>0
        <5> QED
          BY <5>2, <2>0
      <4> QED
        BY <4>1, <4>2
    <3>6. \A i \in 1..Len(sent'[w]) : i \in 1..Len(sent[w]) \/ i = Len(sent[w]) + 1
      BY <2>0, <3>3
    <3>7. Wire(w)' = Wire(w) \cup {x}
      <4>1. \A i \in 1..Len(sent[w]) : i \in 1..Len(sent'[w])
        BY <2>0, <3>3
      <4>2. Len(sent[w]) + 1 \in 1..Len(sent'[w])
        BY <2>0, <3>3
      <4> QED
        BY <3>1, <3>3, <3>6, <4>1, <4>2 DEF Wire
    <3>8. \A i, j \in 1..Len(sent'[w]) : i < j => sent'[w][i] < sent'[w][j]
      <4> SUFFICES ASSUME NEW i \in 1..Len(sent'[w]), NEW j \in 1..Len(sent'[w]), i < j
                   PROVE  sent'[w][i] < sent'[w][j]
        OBVIOUS
      <4>1. i \in 1..Len(sent[w])
        BY <2>0, <3>3
      <4> QED
        BY <4>1, <3>6, <3>3, <3>4, <2>1
    <3>9. \A i \in 1..Len(sent'[w]) : sent'[w][i] >= i
      BY <3>6, <3>3, <3>5, <2>1
    <3> QED
      BY <2>3, <3>7, <3>8, <3>9
  <2> QED
    BY <1>3, <2>2, <2>3
<1>7. Kinds'
  <2>1. HandsOk'
    BY <1>2 DEF Lines, Kinds, HandsOk, At, HandOk
  <2>2. Rng(q[Out(w)])' \subseteq FromApps \cup Dpd /\ Wire(w)' \subseteq FromApps
    BY <1>c, <1>1, <1>6 DEF Lines, Kinds
  <2> QED
    BY <2>1, <2>2, <1>2, <1>5, <1>f DEF Lines, Kinds
<1>8. InLine'
  BY <1>2, <1>f, Names DEF Lines, InLine, Before
<1>9. OutLine'
  <2>0. OutLine
    BY DEF Lines
  <2>1. Rng(q[c]) = Rng(q[Out(w)])
    BY <1>c
  <2>2. Asc(q[Out(w)])' /\ Before({x}, Rng(q[Out(w)])')
    BY <2>0, <1>c, <1>1 DEF OutLine
  <2>3. /\ Wire(w)' \cup Rng(q[Out(w)])' \subseteq Wire(w) \cup Rng(q[Out(w)])
        /\ Rng(q[Out(w)])' \subseteq Rng(q[Out(w)])
    BY <1>1, <1>6, <1>c
  <2>4. Before(Wire(w), Rng(q[Out(w)]))
    BY <2>0 DEF OutLine
  <2>5. Before(Wire(w)', Rng(q[Out(w)])')
    BY <2>2, <2>3, <2>4, <1>6 DEF Before
  <2>6. \A S : Before(Wire(w) \cup Rng(q[Out(w)]), S) => Before(Wire(w)' \cup Rng(q[Out(w)])', S)
    BY <2>3 DEF Before
  <2>7. /\ Hand("tunR")' = Hand("tunR") /\ Hand("flowW")' = Hand("flowW")
        /\ Hand("extract")' = Hand("extract") /\ Rng(q["flowOut"])' = Rng(q["flowOut"])
        /\ Asc(q["flowOut"])' = Asc(q["flowOut"])
    BY <1>2, <1>f, Names
  <2>8. /\ Before(Wire(w)' \cup Rng(q[Out(w)])', Hand("tunR") \cup Hand("flowW"))
        /\ Before(Wire(w)' \cup Rng(q[Out(w)])', Rng(q["flowOut"]))
        /\ Before(Wire(w)' \cup Rng(q[Out(w)])', Hand("extract"))
    BY <2>0, <2>6 DEF OutLine
  <2>9. \A v \in Wires \ {w} : sent'[v] = sent[v] /\ Wire(v)' = Wire(v)
                                 /\ Rng(q[Out(v)])' = Rng(q[Out(v)]) /\ Asc(q[Out(v)])' = Asc(q[Out(v)])
    BY <1>4, <1>5, <1>f
  <2> QED
    BY <2>0, <2>2, <2>5, <2>7, <2>8, <2>9, <1>6 DEF OutLine
<1>10. OnWay(w)' = OnWay(w) /\ \A v \in Wires : OnWay(v)' = OnWay(v)
  <2>1. OnWay(w)' = OnWay(w)
    BY <1>1, <1>2, <1>6, <1>c DEF OnWay
  <2> QED
    BY <2>1, <1>2, <1>5, <1>f DEF OnWay
<1>11. Apart' /\ Road' = Road
  BY <1>10, <1>2, <1>f, Names DEF Lines, Apart, Road
<1> QED
  BY <1>7, <1>8, <1>9, <1>11 DEF Lines

\* The DPD timer has put requests into the queues of the connections.
LEMMA TimerLines ==
  ASSUME Types, Crew, Lines, DPDTimer
  PROVE  Lines' /\ Road' = Road
<1>1. /\ \A y \in Pump : Hand(y)' = Hand(y)
      /\ Rng(got)' = Rng(got) /\ Asc(got)' = Asc(got) /\ \A w \in Wires : Wire(w)' = Wire(w)
      /\ FromGateway' = FromGateway /\ FromApps' = FromApps /\ mode' = mode /\ sent' = sent
  BY DEF DPDTimer, Hand, Rng, Asc, Wire, FromGateway, FromApps
<1>2. q \in [Queue -> Seq(Payload)] /\ DpdReq \in Payload
  BY DEF Types, Payload
<1>3. /\ \A w \in Wires : q'[Out(w)] = q[Out(w)] \/ q'[Out(w)] = Append(q[Out(w)], DpdReq)
      /\ \A c \in {"in", "flowIn", "flowOut"} : q'[c] = q[c]
  BY <1>2, Names DEF DPDTimer, Out
<1>4. \A c \in {"in", "flowIn", "flowOut"} : Rng(q[c])' = Rng(q[c]) /\ Asc(q[c])' = Asc(q[c])
  BY <1>3 DEF Rng, Asc
<1>5. ASSUME NEW w \in Wires
      PROVE  /\ Rng(q[Out(w)])' = Rng(q[Out(w)]) \/ Rng(q[Out(w)])' = Rng(q[Out(w)]) \cup {DpdReq}
             /\ Asc(q[Out(w)])'
  <2>1. Asc(q[Out(w)]) /\ q[Out(w)] \in Seq(Payload)
    BY <1>2, Names DEF Lines, OutLine
  <2>2. Before(Rng(q[Out(w)]), {DpdReq})
    BY NoOrder DEF Before
  <2>3. CASE q'[Out(w)] = q[Out(w)]
    BY <2>1, <2>3 DEF Rng, Asc
  <2>4. CASE q'[Out(w)] = Append(q[Out(w)], DpdReq)
    <3> DEFINE s == q[Out(w)]  t == q'[Out(w)]
    <3>1. Rng(t) = Rng(s) \cup {DpdReq} /\ Asc(t)
      <4>1. s \in Seq(Payload) /\ Asc(s) /\ Before(Rng(s), {DpdReq}) /\ t = Append(s, DpdReq)
        BY <2>1, <2>2, <2>4
      <4> HIDE DEF s, t
      <4> QED
        BY <4>1, <1>2, PacketAtTheEnd
    <3> QED
      BY <3>1
  <2> QED
    BY <1>3, <2>3, <2>4
<1>6. Kinds'
  <2>1. HandsOk'
    BY <1>1 DEF DPDTimer, Lines, Kinds, HandsOk, At, HandOk
  <2> QED
    BY <2>1, <1>1, <1>4, <1>5 DEF Lines, Kinds, Dpd
<1>7. InLine'
  BY <1>1, <1>4, Names DEF Lines, InLine, Before
<1>8. OutLine'
  BY <1>1, <1>4, <1>5, Names, NoOrder DEF Lines, OutLine, Before
<1>9. \A w \in Wires : OnWay(w)' = OnWay(w)
  <2>1. DpdReq \notin FromApps
    BY DEF DpdReq, FromApps
  <2> QED
    BY <2>1, <1>1, <1>5 DEF OnWay
<1> QED
  BY <1>1, <1>4, <1>6, <1>7, <1>8, <1>9, Names DEF Lines, Apart, Road

\* No packet of an application is lost, and those that are new are there.
KeepsAll == FromApps' \subseteq FromApps \cup Road' /\ FromApps \cap Road \subseteq Road'

\* As long as what is in the hands and the queues is left alone.
LEMMA QuietKeepsAll ==
  ASSUME UNCHANGED <<q, sent, outs>>, \A p \in Pump : Hand(p)' = Hand(p)
  PROVE  KeepsAll
<1>1. FromApps' = FromApps /\ \A w \in Wires : Wire(w)' = Wire(w)
  BY DEF FromApps, Wire
<1>2. \A c \in Queue : Rng(q[c])' = Rng(q[c])
  BY DEF Rng
<1>3. Road' = Road
  BY <1>1, <1>2, Names DEF Road, OnWay
<1> QED
  BY <1>1, <1>3 DEF KeepsAll

\* The end that a goroutine has listened to when it drops a packet.
SomeEnd == closed \/ dclosed \/ bridge \notin {"none", "up"}

\* The packets stay in order whatever is done, and none is lost before an end.
LEMMA StepLines == Base /\ Lines /\ [Next]_vars => Lines' /\ (KeepsAll \/ SomeEnd)
<1> SUFFICES ASSUME Base, Lines, [Next]_vars PROVE Lines' /\ (KeepsAll \/ SomeEnd)
  OBVIOUS
<1>t. Types /\ Crew
  BY DEF Base
<1>d. ASSUME NEW p \in Pump, Done(p)
      PROVE  \A y \in Pump : pump'[y] = pump[y] \/ (pump'[y].at # "put" /\ pump'[y].hand = Nothing)
  <2> DEFINE r == [Off EXCEPT !.at = "done"]
  <2>1. Nothing \in Payload /\ "in" \in Queue
    BY DEF Payload, Queue
  <2>2. \A y \in Pump : pump'[y] = IF y = p THEN r ELSE pump[y]
    BY <1>d, <1>t, <2>1, PumpMoves
  <2>3. r.at = "done" /\ r.hand = Nothing
    BY DEF Off
  <2> HIDE DEF r
  <2> QED
    BY <2>2, <2>3
<1>h. ASSUME NEW p \in Pump, ~At(p, "put") PROVE pump[p].hand = Nothing
  BY <1>h DEF Lines, Kinds, HandsOk
<1>s. ASSUME UNCHANGED <<mode, q, pump, histVars>> PROVE Lines' /\ KeepsAll
  <2>1. \A y \in Pump : Hand(y)' = Hand(y)
    BY <1>s DEF Hand
  <2> QED
    BY <1>s, <2>1, <1>t, Still, QuietKeepsAll DEF histVars
<1>f. ASSUME NEW p \in Pump, Done(p), ~At(p, "put"), UNCHANGED <<mode, q, histVars>>
      PROVE  Lines' /\ KeepsAll
  <2>1. \A y \in Pump : pump'[y].hand = pump[y].hand
    <3>1. pump'[p].hand = Nothing
      BY <1>f, <1>t DEF Done, Types, Off
    <3>2. \A y \in Pump \ {p} : pump'[y] = pump[y]
      BY <1>f, <1>t DEF Done, Types
    <3> QED
      BY <3>1, <3>2, <1>f, <1>h
  <2>2. \A y \in Pump : Hand(y)' = Hand(y)
    BY <2>1 DEF Hand
  <2> QED
    BY <1>f, <1>d, <2>2, <1>t, Still, QuietKeepsAll DEF histVars
<1>r. FromApps' = FromApps /\ FromApps \cap Road \subseteq Road' => KeepsAll
  BY DEF KeepsAll
<1>n. /\ FromApps' \subseteq FromApps \cup Hand("tunR")' \cup Hand("extract")'
      /\ FromApps \cap Road \subseteq Road'
      => KeepsAll
  BY DEF KeepsAll, Road
<1>o. outs' = outs => FromApps' = FromApps
  BY DEF FromApps
<1>1. CASE \E p \in Pump : Put(p)
  <2>1. PICK p \in Pump : Put(p)
    BY <1>1
  <2>2. At(p, "put") /\ UNCHANGED <<mode, histVars>>
    BY <2>1 DEF Put
  <2>3. CASE Take(p) /\ q' = [q EXCEPT ![pump[p].to] = Append(@, pump[p].hand)]
    BY <2>2, <2>3, <1>t, <1>r, <1>o, PutLines DEF histVars
  <2>4. CASE Ended(p) /\ (Take(p) \/ Done(p)) /\ UNCHANGED q
    <3>1. \A y \in Pump : pump'[y] = pump[y] \/ (pump'[y].at # "put" /\ pump'[y].hand = Nothing)
      <4>1. CASE Take(p)
        BY <4>1, <1>t DEF Take, Types, Run
      <4> QED
        BY <4>1, <2>4, <1>d
    <3>2. SomeEnd
      <4>1. CASE p = "extract"
        <5>0. Ended("extract") /\ At("extract", "put")
          BY <4>1, <2>2, <2>4
        <5>1. ~At("extract", "off") /\ pump["extract"].to = "flowOut"
          BY <5>0 DEF At, Lines, Kinds, HandsOk, HandOk, Pump
        <5>2. bridge # "up"
          BY <5>0, <5>1 DEF Ended
        <5>3. bridge # "none"
          BY <5>1, <1>t DEF Crew, Types
        <5> QED
          BY <5>2, <5>3 DEF SomeEnd
      <4> QED
        BY <4>1, <2>4 DEF Ended, SomeEnd
    <3> QED
      BY <3>1, <3>2, <2>2, <2>4, <1>t, Still DEF histVars
  <2>5. \/ Take(p) /\ q' = [q EXCEPT ![pump[p].to] = Append(@, pump[p].hand)]
        \/ Ended(p) /\ (Take(p) \/ Done(p)) /\ UNCHANGED q
    BY <2>1 DEF Put
  <2> QED
    BY <2>3, <2>4, <2>5
<1>2. CASE ReadDevice
  <2>1. PICK x \in Payload, c \in Queue : /\ x = Data("app", outs + 1) /\ c = Channel /\ "tunR" \in Pump
                                          /\ c \in {"outTLS", "outDTLS"}
    BY <1>2, <1>t, NewPackets DEF ReadDevice, Channel, Pump, Queue
  <2> QED
    BY <2>1, <1>2, <1>t, <1>n, NewLines DEF ReadDevice
<1>3. CASE ReadNetstack
  <2>1. PICK x \in Payload, c \in Queue : x = Data("app", outs + 1) /\ c = "flowOut" /\ "extract" \in Pump
    BY <1>3, <1>t, NewPackets DEF ReadNetstack, Pump, Queue
  <2> QED
    BY <2>1, <1>3, <1>t, <1>n, NewLines DEF ReadNetstack
<1>4. ASSUME NEW p \in {"tlsR", "dtlsR"}, At(p, "take"),
             Arrives(p, (IF p = "tlsR" THEN "tls" ELSE "dtls"), (IF p = "tlsR" THEN "outTLS" ELSE "outDTLS")),
             UNCHANGED <<mode, q, got, sent, outs>>
      PROVE  Lines' /\ KeepsAll
  <2>0. PICK by \in Wires, a \in Queue : /\ by = (IF p = "tlsR" THEN "tls" ELSE "dtls")
                                         /\ a = (IF p = "tlsR" THEN "outTLS" ELSE "outDTLS")
                                         /\ p \in Pump /\ "in" \in Queue /\ Arrives(p, by, a)
    BY <1>4 DEF Wires, Queue, Pump
  <2>1. CASE ins + outs + ticks < MaxPackets /\ ins' = ins + 1 /\ Hold(p, Data(by, ins + 1), "in")
    <3>1. PICK x \in Payload : x = Data(by, ins + 1)
      BY <2>1, <1>t, NewPackets
    <3> QED
      BY <2>0, <2>1, <3>1, <1>4, <1>t, <1>n, NewLines
  <2>2. CASE ins' = ins + 1 /\ Hold(p, DpdResp, a)
    <3>1. DpdResp \in Payload
      BY DEF Payload
    <3> QED
      BY <2>0, <2>2, <3>1, <1>4, <1>t, <1>n, NewLines
  <2> QED
    BY <2>0, <2>1, <2>2 DEF Arrives
<1>5. CASE ReadTLS
  BY <1>4, <1>5 DEF ReadTLS
<1>6. CASE ReadDTLS
  BY <1>4, <1>6 DEF ReadDTLS
<1>7. CASE TakeFlowOut
  <2>1. CASE q["flowOut"] # <<>> /\ q' = [q EXCEPT !["flowOut"] = Tail(@)]
             /\ Hold("flowW", Head(q["flowOut"]), Channel)
    <3>1. PICK c \in Queue : c = Channel /\ c \in {"outTLS", "outDTLS"} /\ "flowW" \in Pump /\ "flowOut" \in Queue
      BY DEF Channel, Queue, Pump
    <3> QED
      BY <2>1, <3>1, <1>7, <1>t, <1>r, <1>o, PassLines DEF TakeFlowOut, histVars
  <2>2. CASE Done("flowW") /\ UNCHANGED q
    BY <2>2, <1>7, <1>f DEF TakeFlowOut, Pump, At
  <2> QED
    BY <2>1, <2>2, <1>7 DEF TakeFlowOut
<1>8. CASE TakePayloadIn
  <2>1. CASE q["in"] # <<>> /\ q' = [q EXCEPT !["in"] = Tail(@)] /\ Hold("flowR", Head(q["in"]), "flowIn")
    BY <2>1, <1>8, <1>t, Names, <1>r, <1>o, PassLines DEF TakePayloadIn, histVars
  <2>2. CASE Done("flowR") /\ UNCHANGED q
    BY <2>2, <1>8, <1>f DEF TakePayloadIn, Pump, At
  <2> QED
    BY <2>1, <2>2, <1>8 DEF TakePayloadIn
<1>9. CASE WriteTLS
  BY <1>9, <1>t, Names, <1>r, <1>o, WriteLines DEF WriteTLS
<1>10. CASE WriteDTLS
  BY <1>10, <1>t, Names, <1>r, <1>o, WriteLines DEF WriteDTLS
<1>11. CASE DPDTimer
  BY <1>11, <1>t, <1>r, <1>o, TimerLines DEF DPDTimer
<1>12. CASE WriteDevice
  <2>1. mode = "tun"
    BY <1>12, <1>t DEF WriteDevice, Crew, Types, At
  <2> QED
    BY <2>1, <1>12, <1>t, Names, <1>r, <1>o, GotLines DEF WriteDevice
<1>13. CASE InjectPacket
  <2>1. CASE q["flowIn"] # <<>> /\ q' = [q EXCEPT !["flowIn"] = Tail(@)]
             /\ got' = Append(got, Head(q["flowIn"])) /\ UNCHANGED pump
    BY <2>1, <1>13, <1>t, Names, <1>r, <1>o, GotLines DEF InjectPacket
  <2>2. CASE Done("inject") /\ UNCHANGED <<q, got>>
    BY <2>2, <1>13, <1>f DEF InjectPacket, Pump, At, histVars
  <2> QED
    BY <2>1, <2>2, <1>13 DEF InjectPacket
<1>14. CASE DialDTLS \/ ConnectDTLS
  <2>1. ~At("dtlsR", "put") /\ "dtlsR" \in Pump /\ UNCHANGED <<mode, q, histVars>>
    BY <1>14 DEF DialDTLS, ConnectDTLS, At, Pump
  <2>2. CASE Done("dtlsR")
    BY <2>1, <2>2, <1>f
  <2>3. CASE pump' = [pump EXCEPT !["dtlsR"].at = "connected"]
    <3>1. pump["dtlsR"].hand = Nothing
      BY <2>1, <1>h
    <3>2. \A y \in Pump : /\ pump'[y].hand = pump[y].hand
                          /\ pump'[y] = pump[y] \/ (pump'[y].at # "put" /\ pump'[y].hand = Nothing)
      BY <3>1, <2>1, <2>3, <1>t DEF Types, PumpRec
    <3>3. \A y \in Pump : Hand(y)' = Hand(y)
      BY <3>2 DEF Hand
    <3> QED
      BY <3>2, <3>3, <2>1, <1>t, Still, QuietKeepsAll DEF histVars
  <2>4. CASE ConnectDTLS
    <3>1. pump["dtlsR"].hand = Nothing
      BY <2>1, <1>h
    <3>2. pump["dtlsW"].hand = Nothing
      BY <1>h DEF Lines, Kinds, HandsOk, HandOk, Pump
    <3>3. \A y \in Pump : /\ pump'[y].hand = pump[y].hand
                          /\ pump'[y] = pump[y] \/ (pump'[y].at # "put" /\ pump'[y].hand = Nothing)
      BY <3>1, <3>2, <2>1, <2>4, <1>t DEF Types, ConnectDTLS, Run
    <3>4. \A y \in Pump : Hand(y)' = Hand(y)
      BY <3>3 DEF Hand
    <3> QED
      BY <3>3, <3>4, <2>1, <1>t, Still, QuietKeepsAll DEF histVars
  <2> QED
    BY <1>14, <2>2, <2>3, <2>4 DEF DialDTLS
<1>15. CASE DeviceReadFails \/ ExtractEnds \/ WriterTLSEnds \/ WriterDTLSEnds \/ ReaderTLSEnds
            \/ ReaderDTLSEnds \/ DeviceWriterEnds
  <2>1. \E p \in Pump : Done(p) /\ ~At(p, "put") /\ UNCHANGED <<mode, q, histVars>>
    BY <1>15 DEF DeviceReadFails, ExtractEnds, WriterTLSEnds, WriterDTLSEnds, ReaderTLSEnds,
                 ReaderDTLSEnds, DeviceWriterEnds, Pump, At
  <2> QED
    BY <2>1, <1>f
<1>16. CASE PeerGone \/ DeviceGone \/ CloseTunnel \/ CloseBridge \/ UNCHANGED vars
  <2>1. UNCHANGED <<mode, q, pump, histVars>>
    BY <1>16 DEF PeerGone, DeviceGone, CloseTunnel, CloseBridge, vars
  <2> QED
    BY <2>1, <1>s
<1> QED
  BY <1>1, <1>2, <1>3, <1>5, <1>6, <1>7, <1>8, <1>9, <1>10, <1>11, <1>12, <1>13, <1>14,
     <1>15, <1>15, <1>16 DEF Next
-----------------------------------------------------------------------------
(* The ends                                                                *)

\* What has ended stays so; a connected DTLS channel is so until it has ended.
LEMMA EndsStay ==
  ASSUME Types, [Next]_vars
  PROVE  /\ closed => closed'
         /\ dclosed => dclosed'
         /\ bridge # "up" => bridge' # "up"
         /\ bridge \notin {"none", "up"} => bridge' \notin {"none", "up"}
         /\ dconnected => dconnected' \/ dclosed'
<1>1. \/ UNCHANGED sessVars \/ (closed' = closed /\ DtlsClose) \/ SessionClose
      \/ dconnected' = TRUE /\ UNCHANGED <<closed, dclosed>>
  <2>1. ASSUME NEW p \in Pump, Put(p) PROVE UNCHANGED sessVars
    BY <2>1 DEF Put, sessVars
  <2> QED
    BY <2>1 DEF Next, sessVars, vars, ReadDevice, DeviceReadFails, ReadNetstack, ExtractEnds, TakeFlowOut,
                WriteTLS, WriterTLSEnds, WriteDTLS, WriterDTLSEnds, DPDTimer, ReadTLS, ReaderTLSEnds,
                DialDTLS, ConnectDTLS, ReadDTLS, ReaderDTLSEnds, WriteDevice, DeviceWriterEnds,
                TakePayloadIn, InjectPacket, PeerGone, DeviceGone, CloseTunnel, CloseBridge
<1>2. bridge' = bridge \/ bridge' \in {"cancelled", "closed"}
  <2>1. ASSUME NEW p \in Pump, Put(p) PROVE bridge' = bridge
    BY <2>1 DEF Put, stopVars
  <2> QED
    BY <2>1 DEF Next, stopVars, vars, ReadDevice, DeviceReadFails, ReadNetstack, ExtractEnds, TakeFlowOut,
                WriteTLS, WriterTLSEnds, WriteDTLS, WriterDTLSEnds, DPDTimer, ReadTLS, ReaderTLSEnds,
                DialDTLS, ConnectDTLS, ReadDTLS, ReaderDTLSEnds, WriteDevice, DeviceWriterEnds,
                TakePayloadIn, InjectPacket, PeerGone, DeviceGone, CloseTunnel, CloseBridge
<1>3. closed \in BOOLEAN /\ dclosed \in BOOLEAN /\ dconnected \in BOOLEAN
  BY DEF Types
<1>4. /\ closed => closed'
      /\ dclosed => dclosed'
      /\ dconnected => dconnected' \/ dclosed'
  <2>1. CASE UNCHANGED sessVars
    BY <2>1 DEF sessVars
  <2>2. CASE closed' = closed /\ DtlsClose
    BY <2>2, ClosesType
  <2>3. CASE SessionClose
    BY <2>3, <1>3, ClosesType
  <2> QED
    BY <1>1, <2>1, <2>2, <2>3
<1> QED
  BY <1>2, <1>4

\* No packet of an application is lost while nothing has ended.
LEMMA StepKept == Base /\ Lines /\ Kept /\ [Next]_vars => Kept'
<1> SUFFICES ASSUME Base, Lines, Kept, [Next]_vars, ~closed', ~dclosed', bridge' \in {"none", "up"}
             PROVE  FromApps' \subseteq Road'
  BY DEF Kept
<1>1. ~closed /\ ~dclosed /\ bridge \in {"none", "up"}
  BY EndsStay DEF Base, Types
<1>2. KeepsAll
  BY <1>1, StepLines DEF SomeEnd
<1> QED
  BY <1>1, <1>2 DEF Kept, KeepsAll

\* What is true of a goroutine that an action has moved.
EndsWell(p) ==
  /\ pump'[p].at = "done" =>
       /\ p \in {"tunW", "flowR", "tlsW", "flowW"} => closed'
       /\ p = "dtlsW" => dclosed'
       /\ p = "inject" => bridge # "up" \/ At("flowR", "done")
  /\ p = "dtlsR" /\ pump'[p].at \in {"take", "put"} => dclosed \/ dconnected \/ dconnected'
  /\ p = "flowR" => pump[p].at # "done"

\* A goroutine ends once what those that feed it listen to has ended.
LEMMA StepEnds == Base /\ Lines /\ Ends /\ [Next]_vars => Ends'
<1> SUFFICES ASSUME Base, Lines, Ends, [Next]_vars PROVE Ends'
  OBVIOUS
<1>t. Types
  BY DEF Base
<1>m. /\ closed => closed'
      /\ dclosed => dclosed'
      /\ bridge # "up" => bridge' # "up"
      /\ dconnected => dconnected' \/ dclosed'
  BY <1>t, EndsStay
<1> DEFINE Moves == \A p \in Pump : pump'[p] = pump[p] \/ EndsWell(p)
<1>k. ASSUME Moves PROVE Ends'
  <2>1. \A p \in {"tunW", "flowR", "tlsW", "flowW", "dtlsW", "inject", "dtlsR"} :
          pump'[p] = pump[p] \/ EndsWell(p)
    BY <1>k DEF Pump
  <2> HIDE DEF Moves
  <2>2. At("tunW", "done")' \/ At("flowR", "done")' \/ At("tlsW", "done")' \/ At("flowW", "done")' => closed'
    BY <2>1, <1>m DEF Ends, At, EndsWell
  <2>3. At("dtlsW", "done")' => dclosed'
    BY <2>1, <1>m DEF Ends, At, EndsWell
  <2>4. At("flowR", "done") => At("flowR", "done")'
    BY <2>1 DEF At, EndsWell
  <2>5. At("inject", "done")' => bridge' # "up" \/ At("flowR", "done")'
    BY <2>1, <2>4, <1>m DEF Ends, At, EndsWell
  <2>6. pump'["dtlsR"].at \in {"take", "put"} => dclosed' \/ dconnected'
    BY <2>1, <1>m DEF Ends, EndsWell
  <2> QED
    BY <2>2, <2>3, <2>5, <2>6 DEF Ends
<1> DEFINE r == [Off EXCEPT !.at = "done"]
<1>r. r.at = "done" /\ Run.at = "take"
  BY DEF Off, Run
<1>d. \A p \in Pump : Done(p) => \A y \in Pump : pump'[y] = IF y = p THEN r ELSE pump[y]
  <2>1. Nothing \in Payload /\ "in" \in Queue
    BY DEF Payload, Queue
  <2> QED
    BY <1>t, <2>1, PumpMoves
<1> HIDE DEF r
<1>f. ASSUME NEW p \in Pump, Done(p), ~At(p, "done"),
             p \in {"tunW", "flowR", "tlsW", "flowW"} => closed', p = "dtlsW" => dclosed',
             p = "inject" => bridge # "up" \/ At("flowR", "done")
      PROVE  Moves
  BY <1>f, <1>d, <1>r DEF EndsWell, At
<1>g. ASSUME NEW p \in Pump, Take(p), ~At(p, "done"), p = "dtlsR" => At(p, "put")
      PROVE  Moves
  <2>1. \A y \in Pump : pump'[y] = IF y = p THEN Run ELSE pump[y]
    BY <1>g, <1>t DEF Take, Types
  <2>2. p = "dtlsR" => dclosed \/ dconnected
    BY <1>g DEF Ends, At
  <2> QED
    BY <1>g, <2>1, <2>2, <1>r DEF EndsWell, At
<1>h. ASSUME NEW p \in Pump, NEW x \in Payload, NEW c \in Queue, Hold(p, x, c), At(p, "take")
      PROVE  Moves
  <2>1. \A y \in Pump : y = p \/ pump'[y] = pump[y]
    BY <1>h, <1>t DEF Hold, Types
  <2>2. pump'[p].at = "put"
    BY <1>h, <1>t DEF Hold, Types
  <2>3. p = "dtlsR" => dclosed \/ dconnected
    BY <1>h DEF Ends, At
  <2>4. EndsWell(p)
    BY <2>2, <2>3, <1>h DEF EndsWell, At
  <2> QED
    BY <2>1, <2>4
<1>u. ASSUME UNCHANGED pump PROVE Moves
  BY <1>u
<1> HIDE DEF Moves
<1>1. CASE \E p \in Pump : Put(p)
  <2>1. PICK p \in Pump : Put(p)
    BY <1>1
  <2>2. At(p, "put") /\ ~At(p, "done") /\ UNCHANGED closed
    BY <2>1 DEF Put, At, sessVars
  <2>3. CASE Take(p)
    BY <2>2, <2>3, <1>g, <1>k
  <2>4. CASE Done(p) /\ Ended(p) /\ p \in {"flowR", "flowW", "extract", "tunR", "tlsR", "dtlsR"}
                   /\ (p \in {"flowR", "flowW"} => pump[p].to # "outDTLS")
    <3>1. p \in {"flowR", "flowW"} => closed
      BY <2>4 DEF Ended
    <3> QED
      BY <3>1, <2>2, <2>4, <1>f, <1>k
  <2> QED
    BY <2>1, <2>3, <2>4 DEF Put
<1>2. CASE ReadDevice \/ ReadNetstack \/ ReadTLS \/ ReadDTLS
  <2>0. DpdResp \in Payload
    BY DEF Payload
  <2>1. \E p \in Pump, x \in Payload, c \in Queue : Hold(p, x, c) /\ At(p, "take")
    <3>1. CASE ReadDevice
      BY <3>1, <1>t, NewPackets DEF ReadDevice, Channel, Pump, Queue
    <3>2. CASE ReadNetstack
      BY <3>2, <1>t, NewPackets DEF ReadNetstack, Pump, Queue
    <3>3. CASE ReadTLS
      <4>1. CASE Hold("tlsR", DpdResp, "outTLS")
        BY <4>1, <2>0, <3>3 DEF ReadTLS, Pump, Queue
      <4>2. CASE Hold("tlsR", Data("tls", ins + 1), "in") /\ ins + outs + ticks < MaxPackets
        BY <4>2, <3>3, <1>t, NewPackets DEF ReadTLS, Pump, Queue, Wires
      <4> QED
        BY <4>1, <4>2, <3>3 DEF ReadTLS, Arrives
    <3>4. CASE ReadDTLS
      <4>1. CASE Hold("dtlsR", DpdResp, "outDTLS")
        BY <4>1, <2>0, <3>4 DEF ReadDTLS, Pump, Queue
      <4>2. CASE Hold("dtlsR", Data("dtls", ins + 1), "in") /\ ins + outs + ticks < MaxPackets
        BY <4>2, <3>4, <1>t, NewPackets DEF ReadDTLS, Pump, Queue, Wires
      <4> QED
        BY <4>1, <4>2, <3>4 DEF ReadDTLS, Arrives
    <3> QED
      BY <1>2, <3>1, <3>2, <3>3, <3>4
  <2> QED
    BY <2>1, <1>h, <1>k
<1>3. CASE TakeFlowOut
  <2>1. CASE q["flowOut"] # <<>> /\ Hold("flowW", Head(q["flowOut"]), Channel)
    <3>1. Head(q["flowOut"]) \in Payload /\ Channel \in Queue /\ "flowW" \in Pump
      BY <2>1, <1>t, Names, FromTheFront DEF Types, Channel
    <3> QED
      BY <2>1, <3>1, <1>3, <1>h, <1>k DEF TakeFlowOut
  <2>2. CASE closed /\ Done("flowW")
    BY <2>2, <1>3, <1>m, <1>f, <1>k DEF TakeFlowOut, Pump, At
  <2> QED
    BY <2>1, <2>2, <1>3 DEF TakeFlowOut
<1>4. CASE TakePayloadIn
  <2>1. CASE q["in"] # <<>> /\ Hold("flowR", Head(q["in"]), "flowIn")
    <3>1. Head(q["in"]) \in Payload /\ "flowIn" \in Queue /\ "flowR" \in Pump
      BY <2>1, <1>t, Names, FromTheFront DEF Types
    <3> QED
      BY <2>1, <3>1, <1>4, <1>h, <1>k DEF TakePayloadIn
  <2>2. CASE closed /\ Done("flowR")
    BY <2>2, <1>4, <1>m, <1>f, <1>k DEF TakePayloadIn, Pump, At
  <2> QED
    BY <2>1, <2>2, <1>4 DEF TakePayloadIn
<1>5. CASE InjectPacket
  <2>1. CASE Done("inject") /\ (bridge # "up" \/ At("flowR", "done"))
    BY <2>1, <1>5, <1>f, <1>k DEF InjectPacket, Pump, At
  <2> QED
    BY <2>1, <1>5, <1>u, <1>k DEF InjectPacket
<1>6. CASE DialDTLS
  <2>1. CASE pump' = [pump EXCEPT !["dtlsR"].at = "connected"]
    <3>1. \A y \in Pump : y = "dtlsR" \/ pump'[y] = pump[y]
      BY <2>1, <1>t DEF Types
    <3>2. pump'["dtlsR"].at = "connected"
      BY <2>1, <1>t DEF Types, PumpRec, Pump
    <3> QED
      BY <3>1, <3>2, <1>k DEF Moves, EndsWell
  <2>2. CASE Done("dtlsR")
    BY <2>2, <1>6, <1>f, <1>k DEF DialDTLS, Pump, At
  <2> QED
    BY <2>1, <2>2, <1>6 DEF DialDTLS
<1>7. CASE ConnectDTLS
  <2>1. \A y \in Pump : pump'[y] = pump[y] \/ (y \in {"dtlsR", "dtlsW"} /\ pump'[y] = Run)
    BY <1>7, <1>t DEF ConnectDTLS, Types
  <2>2. dconnected'
    BY <1>7 DEF ConnectDTLS
  <2> QED
    BY <2>1, <2>2, <1>r, <1>k DEF Moves, EndsWell
<1>8. CASE DeviceReadFails \/ ExtractEnds \/ WriterTLSEnds \/ WriterDTLSEnds \/ ReaderTLSEnds
            \/ ReaderDTLSEnds \/ DeviceWriterEnds
  <2>0. /\ DtlsClose => dclosed'
        /\ SessionClose => closed'
    BY <1>t, ClosesType
  <2>1. PICK p \in Pump :
          /\ Done(p) /\ ~At(p, "done") /\ p \notin {"flowR", "flowW", "inject"}
          /\ p \in {"tunW", "tlsW"} => closed'
          /\ p = "dtlsW" => dclosed'
    BY <1>8, <2>0 DEF DeviceReadFails, ExtractEnds, WriterTLSEnds, WriterDTLSEnds, ReaderTLSEnds,
                 ReaderDTLSEnds, DeviceWriterEnds, Pump, At
  <2> QED
    BY <2>1, <1>f, <1>k
<1>9. CASE WriteTLS \/ WriteDTLS \/ DPDTimer \/ WriteDevice \/ PeerGone \/ DeviceGone \/ CloseTunnel
           \/ CloseBridge \/ UNCHANGED vars
  <2>1. UNCHANGED pump
    BY <1>9 DEF WriteTLS, WriteDTLS, DPDTimer, WriteDevice, PeerGone, DeviceGone, CloseTunnel,
                CloseBridge, vars
  <2> QED
    BY <2>1, <1>u, <1>k
<1> QED
  BY <1>1, <1>2, <1>3, <1>4, <1>5, <1>6, <1>7, <1>8, <1>9 DEF Next

\* The packets and the goroutines are in good order in every state.
LEMMA FlowHolds == Spec => []FlowInv
<1>1. FlowInv /\ [Next]_vars => FlowInv'
  BY StepBase, StepLines, StepKept, StepEnds DEF FlowInv, Base, Lines
<1> QED
  BY <1>1, InitFlow, PTL DEF Spec
-----------------------------------------------------------------------------
(* What follows                                                            *)

\* Type correctness: no queue holds more than its size, and no more is read
\* than the bound on the outside world allows.
THEOREM TypeCorrect == Spec => []TypeOK
<1>1. FlowInv => TypeOK
  BY DEF FlowInv, Types, Bounded, TypeOK, PumpRec, Place
<1> QED
  BY <1>1, FlowHolds, PTL

\* Packets that came over one connection reach the applications in order and
\* once, those sent on one connection the gateway (tlsChannel,
\* dtlsChannel, the two writers, PacketFlow and the bridge between them).
THEOREM OrderCorrect == Spec => []InOrder
<1>1. ASSUME FlowInv PROVE InOrder
  <2>1. \A i \in 1..Len(got) : got[i][1] \in {"tls", "dtls", "app"}
    <3>1. \A i \in 1..Len(got) : got[i] \in FromGateway
      BY <1>1 DEF FlowInv, Kinds, Rng
    <3> QED
      BY <3>1 DEF FromGateway, Wires
  <2>2. \A i, j \in 1..Len(got) : i < j => Older(got[i], got[j])
    BY <1>1 DEF FlowInv, InLine, Asc
  <2>3. \A i, j \in 1..Len(got) : i < j /\ got[i][1] = got[j][1] => got[i][2] < got[j][2]
    BY <2>1, <2>2 DEF Older
  <2>4. \A c \in {"tls", "dtls"} : \A i, j \in 1..Len(sent[c]) : i < j => sent[c][i] < sent[c][j]
    BY <1>1 DEF FlowInv, OutLine, Wires
  <2> QED
    BY <2>3, <2>4 DEF InOrder
<1> QED
  BY <1>1, FlowHolds, PTL

\* No goroutine waits with a packet for a queue that nobody empties any more,
\* unless it may drop the packet or the bridge or a late DTLS channel is
\* what it waits for: the select statements listen to the right ends.
THEOREM StuckCorrect == Spec => []NobodyStuck
<1>1. ASSUME FlowInv PROVE NobodyStuck
  <2>0. Ends /\ mode \in {"tun", "socks5"}
    BY <1>1 DEF FlowInv, Types
  <2> SUFFICES ASSUME NEW p \in Pump, At(p, "put"), At(Reader(pump[p].to), "done")
               PROVE  Ended(p) \/ Late \/ (p = "flowR" /\ bridge # "up") \/ (p = "extract" /\ closed)
    BY DEF NobodyStuck
  <2>1. HandOk(p)
    BY <1>1 DEF FlowInv, Kinds, HandsOk
  <2>2. CASE p = "tlsR" /\ pump[p].to \in {"in", "outTLS"}
    <3>1. closed
      BY <2>0, <2>2 DEF Reader, Ends
    <3> QED
      BY <2>2, <3>1 DEF Ended
  <2>3. CASE p = "dtlsR" /\ pump[p].to = "in"
    <3>1. closed
      BY <2>0, <2>3 DEF Reader, Ends
    <3>2. dclosed \/ dconnected
      BY <2>0, <2>3 DEF At, Ends
    <3> QED
      BY <2>3, <3>1, <3>2 DEF Ended, Late
  <2>4. CASE p = "dtlsR" /\ pump[p].to = "outDTLS"
    BY <2>0, <2>4 DEF Reader, Ends, Ended
  <2>5. CASE p = "flowR" /\ pump[p].to = "flowIn"
    BY <2>0, <2>5 DEF Reader, Ends, At
  <2>6. CASE p \in {"tunR", "flowW"} /\ pump[p].to = "outTLS"
    BY <2>0, <2>6 DEF Reader, Ends, Ended
  <2>7. CASE p \in {"tunR", "flowW"} /\ pump[p].to = "outDTLS"
    BY <2>0, <2>7 DEF Reader, Ends, Ended
  <2>8. CASE p = "extract" /\ pump[p].to = "flowOut"
    BY <2>0, <2>8 DEF Reader, Ends
  <2> QED
    BY <2>1, <2>2, <2>3, <2>4, <2>5, <2>6, <2>7, <2>8 DEF HandOk
<1> QED
  BY <1>1, FlowHolds, PTL

\* A packet of an application is in one of the places on its road only.
LEMMA OnePlace ==
  ASSUME FlowInv, NEW x \in FromApps
  PROVE  /\ \A p \in Pump : x \in Hand(p) => p \in {"tunR", "flowW", "extract"}
         /\ \A p, r \in Pump : x \in Hand(p) /\ x \in Hand(r) => p = r
         /\ \A c \in Queue : x \in Rng(q[c]) => c \in {"flowOut", "outTLS", "outDTLS"}
         /\ \A c, d \in Queue : x \in Rng(q[c]) /\ x \in Rng(q[d]) => c = d
         /\ \A c, d \in Wires : x \in Wire(c) /\ x \in Wire(d) => c = d
         /\ \A p \in Pump, c \in Queue, d \in Wires :
              /\ x \in Hand(p) => x \notin Rng(q[c]) /\ x \notin Wire(d)
              /\ x \in Rng(q[c]) => x \notin Wire(d)
<1>0. ~Older(x, x) /\ x \notin FromGateway \cup Dpd \cup {Nothing}
  <2>1. x \notin FromGateway \cup Dpd \cup {Nothing}
    BY DEF FromApps, FromGateway, Dpd, DpdReq, DpdResp, Nothing, Wires
  <2> QED
    BY <2>1, NotOlder DEF FlowInv, Types
<1>t. Types /\ Crew /\ Kinds /\ OutLine /\ Apart
  BY DEF FlowInv
<1>1. ASSUME NEW p \in Pump, x \in Hand(p) PROVE p \in {"tunR", "flowW", "extract"}
  <2>1. pump[p].hand \notin FromGateway \cup Dpd \cup {Nothing}
    BY <1>0, <1>1 DEF Hand
  <2> QED
    BY <2>1, <1>t DEF Kinds, HandsOk, HandOk, Dpd
<1>2. \/ x \notin Hand("tunR")
      \/ x \notin Hand("flowW") /\ x \notin Hand("extract") /\ x \notin Rng(q["flowOut"])
  BY <1>0, <1>t, EmptyHands
<1>3. /\ x \in Hand("flowW") => x \notin Hand("extract") /\ x \notin Rng(q["flowOut"])
      /\ x \in Rng(q["flowOut"]) => x \notin Hand("extract")
  BY <1>0, <1>t DEF OutLine, Before
<1>4. \A c \in Wires :
        /\ x \in Wire(c) => x \notin Rng(q[Out(c)])
        /\ x \in Wire(c) \cup Rng(q[Out(c)]) =>
             x \notin Hand("tunR") \cup Hand("flowW") \cup Rng(q["flowOut"]) \cup Hand("extract")
  BY <1>0, <1>t DEF OutLine, Before
<1>5. ASSUME NEW c \in Queue, x \in Rng(q[c]) PROVE c \in {"flowOut", "outTLS", "outDTLS"}
  BY <1>0, <1>5, <1>t DEF Kinds, Queue
<1>6. x \in Wire("tls") \cup Rng(q["outTLS"]) => x \notin Wire("dtls") \cup Rng(q["outDTLS"])
  BY <1>t, Names DEF Apart, OnWay
<1>7. \A p, r \in Pump : x \in Hand(p) /\ x \in Hand(r) => p = r
  BY <1>1, <1>2, <1>3
<1>8. \A c, d \in Queue : x \in Rng(q[c]) /\ x \in Rng(q[d]) => c = d
  BY <1>4, <1>5, <1>6, Names
<1>9. \A c, d \in Wires : x \in Wire(c) /\ x \in Wire(d) => c = d
  BY <1>6, Names
<1>10. ASSUME NEW p \in Pump, NEW c \in Queue, NEW d \in Wires, x \in Hand(p)
       PROVE  x \notin Rng(q[c]) /\ x \notin Wire(d)
  BY <1>10, <1>1, <1>2, <1>3, <1>4, <1>5, Names
<1>11. ASSUME NEW c \in Queue, NEW d \in Wires, x \in Rng(q[c]) PROVE x \notin Wire(d)
  BY <1>11, <1>4, <1>5, <1>6, Names
<1> QED
  BY <1>1, <1>5, <1>7, <1>8, <1>9, <1>10, <1>11

\* A set of at most one element has that many.
LEMMA AtMostOne ==
  ASSUME NEW S, \A a, b \in S : a = b
  PROVE  Cardinality(S) = IF S = {} THEN 0 ELSE 1
<1>1. CASE S = {}
  BY <1>1, FS_EmptySet
<1>2. CASE S # {}
  <2>1. PICK a : a \in S
    BY <1>2
  <2>2. S = {a}
    BY <2>1
  <2> QED
    BY <1>2, <2>2, FS_Singleton
<1> QED
  BY <1>1, <1>2

\* No packet of an application is sent twice, and none is lost while the
\* session and its DTLS channel last and nobody stops the bridge.
THEOREM KeptCorrect == Spec => []PacketsKept
<1>1. ASSUME FlowInv PROVE PacketsKept
  <2>t. Types /\ Bounded /\ OutLine /\ Kept /\ Kinds
    BY <1>1 DEF FlowInv
  <2>n. outs \in Nat /\ outs <= MaxPackets /\ QueueCap \in Nat
    BY <2>t, BoundAssumption DEF Types
  <2> SUFFICES ASSUME NEW n \in 1..outs
               PROVE  LET c == Cardinality(Holders(n)) + Cardinality(Waits(n)) + Cardinality(Sendings(n)) IN
                      /\ c <= 1
                      /\ ~closed /\ ~dclosed /\ bridge \in {"none", "up"} => c = 1
    BY DEF PacketsKept
  <2>x. PICK x \in FromApps : x = Data("app", n)
    BY DEF FromApps, Data
  <2>o. ~Older(x, x)
    BY <2>t, NotOlder DEF Types
  <2>1. \A p \in Holders(n) : p \in Pump /\ x \in Hand(p)
    BY <2>x DEF Holders, Hand
  <2>2. \A w \in Waits(n) : /\ w \in Queue \X (1..QueueCap) /\ w[2] \in 1..Len(q[w[1]])
                            /\ q[w[1]][w[2]] = x /\ x \in Rng(q[w[1]])
    <3> SUFFICES ASSUME NEW w \in Waits(n)
                 PROVE  /\ w \in Queue \X (1..QueueCap) /\ w[2] \in 1..Len(q[w[1]])
                        /\ q[w[1]][w[2]] = x /\ x \in Rng(q[w[1]])
      OBVIOUS
    <3>1. w \in Queue \X (1..QueueCap) /\ w[2] <= Len(q[w[1]]) /\ q[w[1]][w[2]] = x
      BY <2>x DEF Waits
    <3>2. Len(q[w[1]]) \in Nat
      BY <3>1, <2>t DEF Types
    <3> QED
      BY <3>1, <3>2 DEF Rng
  <2>3. \A w \in Sendings(n) : /\ w \in Wires \X (1..MaxPackets) /\ w[2] \in 1..Len(sent[w[1]])
                               /\ sent[w[1]][w[2]] = n /\ x \in Wire(w[1])
    <3> SUFFICES ASSUME NEW w \in Sendings(n)
                 PROVE  /\ w \in Wires \X (1..MaxPackets) /\ w[2] \in 1..Len(sent[w[1]])
                        /\ sent[w[1]][w[2]] = n /\ x \in Wire(w[1])
      OBVIOUS
    <3>1. w \in Wires \X (1..MaxPackets) /\ w[2] <= Len(sent[w[1]]) /\ sent[w[1]][w[2]] = n
      BY DEF Sendings, Wires
    <3>2. Len(sent[w[1]]) \in Nat
      BY <3>1, <2>t DEF Types
    <3>3. w[2] \in 1..Len(sent[w[1]])
      BY <3>1, <3>2, BoundAssumption
    <3> QED
      BY <3>1, <3>3, <2>x DEF Wire
  <2>4. \A a, b \in Holders(n) : a = b
    BY <1>1, <2>1, OnePlace
  <2>5. \A a, b \in Waits(n) : a = b
    <3> SUFFICES ASSUME NEW a \in Waits(n), NEW b \in Waits(n) PROVE a = b
      OBVIOUS
    <3>1. PICK c \in Queue, i \in 1..QueueCap : a = <<c, i>>
      BY <2>2
    <3>2. PICK d \in Queue, j \in 1..QueueCap : b = <<d, j>>
      BY <2>2
    <3>3. c = d /\ c \in {"flowOut", "outTLS", "outDTLS"}
      BY <1>1, <2>2, <3>1, <3>2, OnePlace
    <3>4. i \in 1..Len(q[c]) /\ j \in 1..Len(q[c]) /\ q[c][i] = x /\ q[c][j] = x
      BY <2>2, <3>1, <3>2, <3>3
    <3>5. Asc(q[c])
      BY <3>3, <2>t, Names DEF OutLine
    <3>6. ~(i < j) /\ ~(j < i)
      BY <3>4, <3>5, <2>o DEF Asc
    <3> QED
      BY <3>1, <3>2, <3>3, <3>6, <2>n
  <2>6. \A a, b \in Sendings(n) : a = b
    <3> SUFFICES ASSUME NEW a \in Sendings(n), NEW b \in Sendings(n) PROVE a = b
      OBVIOUS
    <3>1. PICK c \in Wires, i \in 1..MaxPackets : a = <<c, i>>
      BY <2>3
    <3>2. PICK d \in Wires, j \in 1..MaxPackets : b = <<d, j>>
      BY <2>3
    <3>3. c = d
      BY <1>1, <2>3, <3>1, <3>2, OnePlace
    <3>4. i \in 1..Len(sent[c]) /\ j \in 1..Len(sent[c]) /\ sent[c][i] = n /\ sent[c][j] = n
      BY <2>3, <3>1, <3>2, <3>3
    <3>5. ~(i < j) /\ ~(j < i)
      <4>1. \A k, l \in 1..Len(sent[c]) : k < l => sent[c][k] < sent[c][l]
        BY <2>t DEF OutLine
      <4> QED
        BY <4>1, <3>4, <2>n
    <3> QED
      BY <3>1, <3>2, <3>3, <3>5, BoundAssumption
  <2>7. /\ Holders(n) # {} => Waits(n) = {} /\ Sendings(n) = {}
        /\ Waits(n) # {} => Sendings(n) = {}
    <3>1. ASSUME NEW p \in Holders(n), NEW w \in Waits(n) PROVE FALSE
      <4>1. "tls" \in Wires /\ w[1] \in Queue
        BY <2>2 DEF Wires
      <4> QED
        BY <1>1, <2>1, <2>2, <4>1, OnePlace
    <3>2. ASSUME NEW p \in Holders(n), NEW w \in Sendings(n) PROVE FALSE
      <4>1. w[1] \in Wires /\ "in" \in Queue
        BY <2>3 DEF Queue
      <4> QED
        BY <1>1, <2>1, <2>3, <4>1, OnePlace
    <3>3. ASSUME NEW v \in Waits(n), NEW w \in Sendings(n) PROVE FALSE
      <4>1. w[1] \in Wires /\ v[1] \in Queue /\ "tunR" \in Pump
        BY <2>2, <2>3 DEF Pump
      <4> QED
        BY <1>1, <2>2, <2>3, <4>1, OnePlace
    <3> QED
      BY <3>1, <3>2, <3>3
  <2>8. ASSUME ~closed, ~dclosed, bridge \in {"none", "up"}
        PROVE  Holders(n) # {} \/ Waits(n) # {} \/ Sendings(n) # {}
    <3>1. x \in Road
      BY <2>8, <2>t DEF Kept
    <3>2. ASSUME NEW p \in Pump, x \in Hand(p) PROVE p \in Holders(n)
      BY <3>2, <2>x DEF Holders, Hand
    <3>3. ASSUME NEW c \in Queue, x \in Rng(q[c]) PROVE Waits(n) # {}
      <4>1. PICK i \in 1..Len(q[c]) : q[c][i] = x
        BY <3>3 DEF Rng
      <4>2. Len(q[c]) \in Nat /\ Len(q[c]) <= QueueCap
        BY <2>t DEF Types, Bounded
      <4>3. i \in 1..QueueCap /\ i <= Len(q[c])
        BY <4>2, <2>n
      <4>4. <<c, i>> \in Waits(n)
        BY <4>1, <4>3, <2>x DEF Waits
      <4> QED
        BY <4>4
    <3>4. ASSUME NEW c \in Wires, x \in Wire(c) PROVE Sendings(n) # {}
      <4>1. PICK i \in 1..Len(sent[c]) : x = Data("app", sent[c][i])
        BY <3>4 DEF Wire
      <4>2. sent[c][i] = n /\ sent[c][i] >= i /\ Len(sent[c]) \in Nat
        <5>1. sent[c][i] = n
          BY <4>1, <2>x DEF Data
        <5>2. \A j \in 1..Len(sent[c]) : sent[c][j] >= j
          BY <2>t DEF OutLine
        <5> QED
          BY <5>1, <5>2, <2>t DEF Types
      <4>3. i \in 1..MaxPackets /\ i <= Len(sent[c])
        BY <4>2, <2>n, BoundAssumption
      <4>4. <<c, i>> \in Sendings(n)
        BY <4>2, <4>3 DEF Sendings, Wires
      <4> QED
        BY <4>4
    <3> QED
      BY <3>1, <3>2, <3>3, <3>4, Names DEF Road, OnWay
  <2> DEFINE H == Holders(n)  W == Waits(n)  S == Sendings(n)
  <2>9. /\ Cardinality(H) = IF H = {} THEN 0 ELSE 1
        /\ Cardinality(W) = IF W = {} THEN 0 ELSE 1
        /\ Cardinality(S) = IF S = {} THEN 0 ELSE 1
    BY <2>4, <2>5, <2>6, AtMostOne
  <2>10. /\ H # {} => W = {} /\ S = {}
         /\ W # {} => S = {}
         /\ ~closed /\ ~dclosed /\ bridge \in {"none", "up"} => H # {} \/ W # {} \/ S # {}
    BY <2>7, <2>8
  <2> HIDE DEF H, W, S
  <2>11. /\ Cardinality(H) + Cardinality(W) + Cardinality(S) <= 1
         /\ ~closed /\ ~dclosed /\ bridge \in {"none", "up"} =>
              Cardinality(H) + Cardinality(W) + Cardinality(S) = 1
    BY <2>9, <2>10
  <2> QED
    BY <2>11 DEF H, W, S
<1> QED
  BY <1>1, FlowHolds, PTL
-----------------------------------------------------------------------------
(* What is left when nothing can go on                                     *)

\* How far the goroutines and Tunnel.Close have come tells what has ended.
Course ==
  /\ \A p \in Pump \ {"dtlsR"} : pump[p].at \notin {"dial", "connected"}
  /\ \A p \in PumpsOf(mode) \ {"dtlsR", "dtlsW"} : ~At(p, "off")
  /\ mode = "tun" => dev # "none"
  /\ At("tlsR", "done") => closed
  /\ closer # "no" => closed
  /\ closer = "done" => tls = "closed" /\ dev # "open"
  /\ dtls = "open" => pump["dtlsR"].at \in {"connected", "take", "put"}
  /\ At("dtlsW", "take") => dclosed \/ dconnected
  /\ \A p \in {"tunR", "flowW"} :
       At(p, "put") /\ pump[p].to = "outDTLS" => dclosed \/ dconnected

\* What is true of a goroutine that an action has moved.
Moved(p) ==
  /\ pump'[p].at \in {"take", "put", "done", "connected"}
  /\ pump'[p].at = "connected" => p = "dtlsR"
  /\ p = "tlsR" /\ pump'[p].at = "done" => closed'
  /\ p = "dtlsR" /\ pump'[p].at = "done" => dtls' = "closed" \/ (At("dtlsR", "dial") /\ dtls' = dtls)
  /\ p = "dtlsW" => pump'[p].at # "put"
  /\ p = "dtlsW" /\ pump'[p].at = "take" => dconnected'
  /\ p \in {"tunR", "flowW"} /\ pump'[p].at = "put" /\ pump'[p].to = "outDTLS" => dconnected

\* The course begins when setupTunnel has negotiated.
LEMMA InitCourse == Init => Course
<1> SUFFICES ASSUME Init PROVE Course
  OBVIOUS
<1>0. mode \in {"tun", "socks5"}
  BY ModesAssumption DEF Init
<1>1. PICK d \in {"dial", "off"} :
        pump = [p \in Pump |-> CASE p = "dtlsR" -> [Off EXCEPT !.at = d]
                                 [] p \in PumpsOf(mode) \ {"dtlsR", "dtlsW"} -> Run
                                 [] OTHER -> Off]
  BY DEF Init
<1>2. \A p \in Pump \ {"dtlsR"} :
        pump[p] = IF p \in PumpsOf(mode) \ {"dtlsR", "dtlsW"} THEN Run ELSE Off
  BY <1>1
<1>3. Run.at = "take" /\ Off.at = "off"
  BY DEF Run, Off
<1>4. \A p \in Pump \ {"dtlsR"} : pump[p].at \in {"take", "off"} /\ (p = "dtlsW" => At(p, "off"))
  BY <1>2, <1>3 DEF At
<1>5. PumpsOf(mode) \subseteq Pump
  BY <1>0 DEF PumpsOf, Pump
<1>6. \A p \in PumpsOf(mode) \ {"dtlsR", "dtlsW"} : ~At(p, "off")
  BY <1>2, <1>3, <1>5 DEF At
<1>7. {"tlsR", "dtlsW", "tunR", "flowW"} \subseteq Pump \ {"dtlsR"}
  BY DEF Pump
<1> QED
  BY <1>4, <1>6, <1>7 DEF Init, Course, At

\* Every action moves its goroutine as it should, and no other.
LEMMA StepMoves ==
  ASSUME Types, Kinds, [Next]_vars
  PROVE  \A p \in Pump : pump'[p] = pump[p] \/ Moved(p)
<1> DEFINE Good == \A p \in Pump : pump'[p] = pump[p] \/ Moved(p)
           r == [Off EXCEPT !.at = "done"]
<1> SUFFICES Good
  OBVIOUS
<1>r. r.at = "done" /\ Run.at = "take"
  BY DEF Off, Run
<1>n. Nothing \in Payload /\ DpdResp \in Payload
  BY DEF Payload
<1>d. \A p \in Pump : Done(p) => \A y \in Pump : pump'[y] = IF y = p THEN r ELSE pump[y]
  BY <1>n, PumpMoves, Names
<1> HIDE DEF r
<1>f. ASSUME NEW p \in Pump, Done(p), p = "tlsR" => closed',
             p = "dtlsR" => dtls' = "closed" \/ (At("dtlsR", "dial") /\ dtls' = dtls)
      PROVE  Good
  BY <1>f, <1>d, <1>r DEF Moved
<1>g. ASSUME NEW p \in Pump, Take(p), p # "dtlsW" PROVE Good
  <2>1. \A y \in Pump : pump'[y] = IF y = p THEN Run ELSE pump[y]
    BY <1>g, <1>n, PumpMoves, Names
  <2> QED
    BY <1>g, <2>1, <1>r DEF Moved
<1>h. ASSUME NEW p \in Pump, NEW x \in Payload, NEW c \in Queue, Hold(p, x, c), p # "dtlsW",
             p \in {"tunR", "flowW"} /\ c = "outDTLS" => dconnected
      PROVE  Good
  <2> DEFINE h == [at |-> "put", hand |-> x, to |-> c]
  <2>1. \A y \in Pump : pump'[y] = IF y = p THEN h ELSE pump[y]
    BY <1>h, PumpMoves
  <2>2. h.at = "put" /\ h.to = c
    OBVIOUS
  <2> HIDE DEF h
  <2> QED
    BY <1>h, <2>1, <2>2 DEF Moved
<1>u. ASSUME UNCHANGED pump PROVE Good
  BY <1>u
<1> HIDE DEF Good
<1>1. CASE \E p \in Pump : Put(p)
  <2>1. PICK p \in Pump : Put(p)
    BY <1>1
  <2>2. HandOk(p) /\ At(p, "put")
    BY <2>1 DEF Put, Kinds, HandsOk
  <2>3. p # "dtlsW" /\ (p = "tlsR" => pump[p].to # "outDTLS")
    BY <2>2 DEF HandOk
  <2>4. CASE Take(p)
    BY <2>3, <2>4, <1>g
  <2>5. CASE Done(p) /\ Ended(p) /\ (p = "dtlsR" => dtls' = "closed")
    <3>1. p = "tlsR" => closed
      BY <2>3, <2>5 DEF Ended
    <3>2. UNCHANGED closed
      BY <2>1 DEF Put, sessVars
    <3> QED
      BY <3>1, <3>2, <2>5, <1>f
  <2> QED
    BY <2>1, <2>4, <2>5 DEF Put
<1>2. CASE ReadDevice
  BY <1>2, <1>h, NewPackets, Names DEF ReadDevice, Channel
<1>3. CASE ReadNetstack
  BY <1>3, <1>h, NewPackets, Names DEF ReadNetstack
<1>4. CASE ReadTLS
  <2>1. PICK x \in Payload, c \in Queue : Hold("tlsR", x, c)
    BY <1>4, <1>n, NewPackets, Names DEF ReadTLS, Arrives
  <2> QED
    BY <2>1, <1>h, Names
<1>5. CASE ReadDTLS
  <2>1. PICK x \in Payload, c \in Queue : Hold("dtlsR", x, c)
    BY <1>5, <1>n, NewPackets, Names DEF ReadDTLS, Arrives
  <2> QED
    BY <2>1, <1>h, Names
<1>6. CASE TakeFlowOut
  <2>1. CASE q["flowOut"] # <<>> /\ Hold("flowW", Head(q["flowOut"]), Channel)
    <3>1. Head(q["flowOut"]) \in Payload /\ Channel \in Queue
      BY <2>1, Names, FromTheFront DEF Types, Channel
    <3> QED
      BY <2>1, <3>1, <1>h, Names DEF Channel
  <2>2. CASE Done("flowW")
    BY <2>2, <1>f, Names
  <2> QED
    BY <1>6, <2>1, <2>2 DEF TakeFlowOut
<1>7. CASE TakePayloadIn
  <2>1. CASE q["in"] # <<>> /\ Hold("flowR", Head(q["in"]), "flowIn")
    <3>1. Head(q["in"]) \in Payload
      BY <2>1, Names, FromTheFront DEF Types
    <3> QED
      BY <2>1, <3>1, <1>h, Names
  <2>2. CASE Done("flowR")
    BY <2>2, <1>f, Names
  <2> QED
    BY <1>7, <2>1, <2>2 DEF TakePayloadIn
<1>8. CASE InjectPacket
  BY <1>8, <1>f, <1>u DEF InjectPacket, Pump
<1>9. CASE DeviceReadFails \/ ExtractEnds \/ WriterTLSEnds \/ WriterDTLSEnds \/ ReaderTLSEnds
            \/ ReaderDTLSEnds \/ DeviceWriterEnds
  <2>0. SessionClose => closed'
    BY DEF SessionClose
  <2>1. PICK p \in Pump : Done(p) /\ (p = "tlsR" => closed') /\ (p = "dtlsR" => dtls' = "closed")
    BY <1>9, <2>0 DEF DeviceReadFails, ExtractEnds, WriterTLSEnds, WriterDTLSEnds, ReaderTLSEnds,
                 ReaderDTLSEnds, DeviceWriterEnds, Pump
  <2> QED
    BY <2>1, <1>f
<1>10. CASE DialDTLS
  <2>1. CASE Done("dtlsR") /\ UNCHANGED dtls
    BY <1>10, <2>1, <1>f, Names DEF DialDTLS
  <2>2. CASE pump' = [pump EXCEPT !["dtlsR"].at = "connected"]
    <3>1. /\ \A y \in Pump : y = "dtlsR" \/ pump'[y] = pump[y]
          /\ pump'["dtlsR"].at = "connected"
      BY <2>2, Names DEF Types, PumpRec
    <3> QED
      BY <3>1 DEF Moved, Good
  <2> QED
    BY <1>10, <2>1, <2>2 DEF DialDTLS
<1>11. CASE ConnectDTLS
  <2>1. \A y \in Pump : pump'[y] = pump[y] \/ (y \in {"dtlsR", "dtlsW"} /\ pump'[y] = Run)
    BY <1>11 DEF ConnectDTLS, Types
  <2>2. dconnected'
    BY <1>11 DEF ConnectDTLS
  <2> QED
    BY <2>1, <2>2, <1>r DEF Moved, Good
<1>12. CASE WriteTLS \/ WriteDTLS \/ DPDTimer \/ WriteDevice \/ PeerGone \/ DeviceGone
            \/ CloseTunnel \/ CloseBridge \/ UNCHANGED vars
  <2>1. UNCHANGED pump
    BY <1>12 DEF WriteTLS, WriteDTLS, DPDTimer, WriteDevice, PeerGone, DeviceGone, CloseTunnel,
                CloseBridge, vars
  <2> QED
    BY <2>1, <1>u
<1> QED
  BY <1>1, <1>2, <1>3, <1>4, <1>5, <1>6, <1>7, <1>8, <1>9, <1>10, <1>11, <1>12 DEF Next

\* Connections and the adapter are opened by nobody but the DTLS handshake, and
\* Tunnel.Close does its two steps in order.
LEMMA StepConns ==
  ASSUME Types, [Next]_vars
  PROVE  /\ mode' = mode
         /\ tls' = tls \/ tls' = "closed"
         /\ dev' = dev \/ dev' = "closed"
         /\ dtls' = dtls \/ dtls' = "closed" \/ pump'["dtlsR"].at = "connected"
         /\ \/ closer' = closer
            \/ closer' = "session" /\ closed'
            \/ closer = "session" /\ closer' = "done" /\ tls' = "closed" /\ dev' # "open"
<1>0. "dtlsR" \in Pump
  BY Names
<1>1. CASE \E p \in Pump : Put(p)
  BY <1>1 DEF Put, connVars, stopVars
<1>2. CASE DialDTLS
  <2>1. pump' = [pump EXCEPT !["dtlsR"].at = "connected"] => pump'["dtlsR"].at = "connected"
    BY <1>0 DEF Types, PumpRec
  <2> QED
    BY <1>2, <2>1 DEF DialDTLS, stopVars
<1>3. CASE CloseTunnel
  BY <1>3 DEF CloseTunnel, connVars, SessionClose
<1>4. CASE ReadDevice \/ DeviceReadFails \/ ReadNetstack \/ ExtractEnds \/ TakeFlowOut \/ WriteTLS
           \/ WriterTLSEnds \/ WriteDTLS \/ WriterDTLSEnds \/ DPDTimer \/ ReadTLS \/ ReaderTLSEnds
           \/ ConnectDTLS \/ ReadDTLS \/ ReaderDTLSEnds \/ WriteDevice \/ DeviceWriterEnds
           \/ TakePayloadIn \/ InjectPacket \/ PeerGone \/ DeviceGone \/ CloseBridge
           \/ UNCHANGED vars
  BY <1>4 DEF connVars, stopVars, vars, ReadDevice, DeviceReadFails, ReadNetstack, ExtractEnds,
    TakeFlowOut, WriteTLS, WriterTLSEnds, WriteDTLS, WriterDTLSEnds, DPDTimer, ReadTLS,
    ReaderTLSEnds, ConnectDTLS, ReadDTLS, ReaderDTLSEnds, WriteDevice, DeviceWriterEnds,
    TakePayloadIn, InjectPacket, PeerGone, DeviceGone, CloseBridge
<1> QED
  BY <1>1, <1>2, <1>3, <1>4 DEF Next

\* The course is kept by every action.
LEMMA StepCourse == FlowInv /\ Course /\ [Next]_vars => Course'
<1> SUFFICES ASSUME FlowInv, Course, [Next]_vars PROVE Course'
  OBVIOUS
<1>t. Types /\ Kinds
  BY DEF FlowInv
<1>m. \A p \in Pump : pump'[p] = pump[p] \/ Moved(p)
  BY <1>t, StepMoves
<1>e. /\ closed => closed'
      /\ dclosed => dclosed'
      /\ dconnected => dconnected' \/ dclosed'
  BY <1>t, EndsStay
<1>c. /\ mode' = mode
      /\ tls' = tls \/ tls' = "closed"
      /\ dev' = dev \/ dev' = "closed"
      /\ dtls' = dtls \/ dtls' = "closed" \/ pump'["dtlsR"].at = "connected"
      /\ \/ closer' = closer
         \/ closer' = "session" /\ closed'
         \/ closer = "session" /\ closer' = "done" /\ tls' = "closed" /\ dev' # "open"
  BY <1>t, StepConns
<1>n. {"tlsR", "dtlsR", "dtlsW", "tunR", "flowW"} \subseteq Pump /\ PumpsOf(mode) \subseteq Pump
  BY <1>t DEF Pump, PumpsOf, Types
<1>1. \A p \in Pump \ {"dtlsR"} : pump'[p].at \notin {"dial", "connected"}
  BY <1>m DEF Course, Moved
<1>2. \A p \in PumpsOf(mode)' \ {"dtlsR", "dtlsW"} : ~At(p, "off")'
  <2>1. PumpsOf(mode)' = PumpsOf(mode)
    BY <1>c DEF PumpsOf
  <2> QED
    BY <2>1, <1>m, <1>n DEF Course, Moved, At
<1>3. At("tlsR", "done")' => closed'
  BY <1>m, <1>n, <1>e DEF Course, Moved, At
<1>4. /\ mode' = "tun" => dev' # "none"
      /\ closer' # "no" => closed'
      /\ closer' = "done" => tls' = "closed" /\ dev' # "open"
  BY <1>c, <1>e DEF Course
<1>5. dtls' = "open" => pump'["dtlsR"].at \in {"connected", "take", "put"}
  <2> SUFFICES ASSUME dtls' = "open", pump'["dtlsR"].at # "connected"
               PROVE  pump'["dtlsR"].at \in {"take", "put"}
    OBVIOUS
  <2>1. dtls = "open"
    BY <1>c
  <2>2. pump["dtlsR"].at \in {"connected", "take", "put"}
    BY <2>1 DEF Course
  <2>3. CASE pump'["dtlsR"] = pump["dtlsR"]
    BY <2>2, <2>3
  <2>4. CASE Moved("dtlsR")
    BY <2>2, <2>4 DEF Moved, At
  <2> QED
    BY <2>3, <2>4, <1>m, <1>n
<1>6. At("dtlsW", "take")' => dclosed' \/ dconnected'
  BY <1>m, <1>n, <1>e DEF Course, Moved, At
<1>7. \A p \in {"tunR", "flowW"} :
        At(p, "put")' /\ pump'[p].to = "outDTLS" => dclosed' \/ dconnected'
  BY <1>m, <1>n, <1>e DEF Course, Moved, At
<1> QED
  BY <1>1, <1>2, <1>3, <1>4, <1>5, <1>6, <1>7 DEF Course

LEMMA CourseHolds == Spec => []Course
BY FlowHolds, InitCourse, StepCourse, PTL DEF Spec

\* A queue without room has something in it.
LEMMA Full == ASSUME Types, NEW c \in Queue, ~Room(c) PROVE q[c] # <<>>
<1>1. q[c] \in Seq(Payload)
  BY DEF Types
<1>2. QueueCap > 0
  BY BoundAssumption
<1> QED
  BY <1>1, <1>2 DEF Room

\* While the session lasts, a silent gateway leaves the reader of TLS something
\* to do, or another goroutine further along the line.
LEMMA SilenceIsHeard ==
  ASSUME FlowInv, Course, Quiet, peer = "gone"
  PROVE  closed
<1> SUFFICES ASSUME ~closed PROVE FALSE
  OBVIOUS
<1>t. Types /\ Crew /\ Kinds /\ Ends
  BY DEF FlowInv
<1>n. /\ {"tlsR", "tlsW", "tunW", "flowR", "inject", "extract"} \subseteq Pump
      /\ {"in", "outTLS", "flowIn"} \subseteq Queue
      /\ mode \in {"tun", "socks5"}
  BY <1>t DEF Pump, Queue, Types
<1>g. \A p \in Pump : ~CanGoOn(p)
  BY DEF Quiet
<1>b. bridge \notin {"cancelled", "closed"}
  BY DEF Quiet, Course
<1>p. \A p \in Pump : pump[p].at \in {"off", "dial", "connected", "take", "put", "done"}
  BY <1>t DEF Types, PumpRec, Place
<1>o. /\ ~At("tlsR", "off") /\ ~At("tlsW", "off")
      /\ mode = "tun" => ~At("tunW", "off")
      /\ mode = "socks5" => ~At("flowR", "off") /\ ~At("inject", "off")
  <2>1. /\ {"tlsR", "tlsW"} \subseteq PumpsOf(mode) \ {"dtlsR", "dtlsW"}
        /\ mode = "tun" => "tunW" \in PumpsOf(mode) \ {"dtlsR", "dtlsW"}
        /\ mode = "socks5" => {"flowR", "inject"} \subseteq PumpsOf(mode) \ {"dtlsR", "dtlsW"}
    BY DEF PumpsOf
  <2> QED
    BY <2>1 DEF Course
<1>d. \A p \in Pump \ {"dtlsR"} : pump[p].at \notin {"dial", "connected"}
  BY DEF Course
<1>h. \A p \in Pump : At(p, "put") => HandOk(p)
  BY <1>t DEF Kinds, HandsOk
<1>1. At("tlsR", "put") /\ pump["tlsR"].to \in {"in", "outTLS"}
  <2>1. ~At("tlsR", "take") /\ ~At("tlsR", "done")
    BY <1>g, <1>n DEF CanGoOn, Course
  <2>2. At("tlsR", "put")
    BY <2>1, <1>p, <1>o, <1>d, <1>n DEF At
  <2> QED
    BY <2>2, <1>h, <1>n DEF HandOk
<1>2. ~Room(pump["tlsR"].to)
  BY <1>1, <1>g, <1>n DEF CanGoOn
<1>3. CASE pump["tlsR"].to = "outTLS"
  <2>1. q["outTLS"] # <<>>
    BY <1>2, <1>3, <1>t, <1>n, Full
  <2>2. ~At("tlsW", "take") /\ ~At("tlsW", "done") /\ ~At("tlsW", "put")
    BY <2>1, <1>g, <1>t, <1>h, <1>n DEF CanGoOn, Ends, HandOk
  <2> QED
    BY <2>2, <1>p, <1>o, <1>d, <1>n DEF At
<1>4. CASE pump["tlsR"].to = "in"
  <2>1. q["in"] # <<>>
    BY <1>2, <1>4, <1>t, <1>n, Full
  <2>2. CASE mode = "tun"
    <3>1. ~At("tunW", "take") /\ ~At("tunW", "done") /\ ~At("tunW", "put")
      BY <2>1, <1>g, <1>t, <1>h, <1>n DEF CanGoOn, Ends, HandOk
    <3> QED
      BY <3>1, <2>2, <1>p, <1>o, <1>d, <1>n DEF At
  <2>3. CASE mode = "socks5"
    <3>1. ~At("flowR", "take") /\ ~At("flowR", "done")
      BY <2>1, <1>g, <1>t, <1>n DEF CanGoOn, Ends
    <3>2. At("flowR", "put")
      BY <3>1, <2>3, <1>p, <1>o, <1>d, <1>n DEF At
    <3>3. pump["flowR"].to = "flowIn"
      BY <3>2, <1>h, <1>n DEF HandOk
    <3>4. q["flowIn"] # <<>>
      BY <3>2, <3>3, <1>g, <1>t, <1>n, Full DEF CanGoOn
    <3>5. bridge = "up"
      BY <2>3, <1>b, <1>t DEF Crew, Types
    <3>6. ~At("inject", "take") /\ ~At("inject", "done") /\ ~At("inject", "put")
      BY <3>1, <3>4, <3>5, <1>g, <1>t, <1>h, <1>n DEF CanGoOn, Ends, HandOk
    <3> QED
      BY <3>6, <2>3, <1>p, <1>o, <1>d, <1>n DEF At
  <2> QED
    BY <2>2, <2>3, <1>n
<1> QED
  BY <1>1, <1>3, <1>4

\* After the end of the session nothing is left to do only when all is over.
LEMMA NothingLeft ==
  ASSUME FlowInv, Course, Quiet, closed, ~dconnected
  PROVE  AllOver
<1>t. Types /\ Crew /\ Kinds /\ Ends
  BY DEF FlowInv
<1>n. /\ {"dtlsR", "dtlsW", "inject", "extract", "tunR", "flowW", "tunW", "flowR", "tlsR", "tlsW"} = Pump
      /\ mode \in {"tun", "socks5"}
  BY <1>t DEF Pump, Types
<1>g. \A p \in Pump : ~CanGoOn(p)
  BY DEF Quiet
<1>p. \A p \in Pump : pump[p].at \in {"off", "dial", "connected", "take", "put", "done"}
  BY <1>t DEF Types, PumpRec, Place
<1>h. \A p \in Pump : At(p, "put") => HandOk(p)
  BY <1>t DEF Kinds, HandsOk
<1>1. tls = "closed" /\ dev # "open" /\ bridge # "up"
  BY DEF Quiet, Course
<1>2. ASSUME NEW p \in Pump PROVE pump[p].at \in {"take", "put", "off", "done"}
  BY <1>p, <1>g DEF CanGoOn, At
<1>3. ASSUME NEW p \in Pump, At(p, "put") PROVE FALSE
  <2>1. HandOk(p)
    BY <1>3, <1>h
  <2>2. ~Ended(p)
    BY <1>3, <1>g DEF CanGoOn
  <2>3. p = "dtlsR" => dclosed
    BY <1>3, <1>t DEF Ends, At
  <2>4. p \in {"tunR", "flowW"} /\ pump[p].to = "outDTLS" => dclosed
    BY <1>3 DEF Course
  <2> QED
    BY <2>1, <2>2, <2>3, <2>4, <1>1 DEF HandOk, Ended
<1>4. ASSUME NEW p \in Pump, At(p, "take") PROVE FALSE
  <2>0. ~CanGoOn(p)
    BY <1>g
  <2>1. CASE p = "tlsR"
    BY <2>0, <2>1, <1>1, <1>4 DEF CanGoOn
  <2>2. CASE p = "dtlsR"
    BY <2>0, <2>2, <1>4 DEF CanGoOn
  <2>3. CASE p = "tunR"
    <3>1. mode = "tun"
      BY <2>3, <1>4, <1>t, <1>n DEF Crew, At
    <3>2. dev = "closed"
      BY <3>1, <1>1, <1>t DEF Course, Types
    <3> QED
      BY <3>2, <2>0, <2>3, <1>4 DEF CanGoOn
  <2>4. CASE p \in {"extract", "inject"}
    BY <2>0, <2>4, <1>1, <1>4 DEF CanGoOn
  <2>5. CASE p \in {"flowR", "flowW", "tunW", "tlsW"}
    BY <2>0, <2>5, <1>4 DEF CanGoOn
  <2>6. CASE p = "dtlsW"
    <3>1. dclosed
      BY <2>6, <1>4 DEF Course
    <3> QED
      BY <3>1, <2>0, <2>6, <1>4 DEF CanGoOn
  <2> QED
    BY <2>1, <2>2, <2>3, <2>4, <2>5, <2>6, <1>n
<1>5. \A p \in Pump : pump[p].at \in {"off", "done"}
  BY <1>2, <1>3, <1>4 DEF At
<1>6. dtls # "open"
  BY <1>5, <1>n DEF Course
<1>7. bridge \in {"none", "closed"}
  <2> SUFFICES ASSUME bridge = "cancelled" PROVE FALSE
    BY <1>1, <1>t DEF Types
  <2>1. mode = "socks5"
    BY <1>t, <1>n DEF Crew
  <2>2. {"inject", "extract"} \subseteq PumpsOf(mode) \ {"dtlsR", "dtlsW"}
    BY <2>1 DEF PumpsOf
  <2>3. At("inject", "done") /\ At("extract", "done")
    BY <2>2, <1>5, <1>n DEF Course, At
  <2> QED
    BY <2>3 DEF Quiet
<1> QED
  BY <1>1, <1>5, <1>6, <1>7 DEF AllOver

\* Whatever the order in which the goroutines, the two Close, the gateway and
\* the adapter act: when nothing is left to do but for the outside world, a
\* gateway that has gone has ended the session, and after the end of the
\* session all is over, but for a DTLS channel that comes up after it.
THEOREM EndsCorrect == Spec => []EverythingEnds
<1>1. FlowInv /\ Course => EverythingEnds
  BY SilenceIsHeard, NothingLeft DEF EverythingEnds, Late
<1> QED
  BY <1>1, FlowHolds, CourseHolds, PTL
=============================================================================
