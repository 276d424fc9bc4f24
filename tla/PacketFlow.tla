------------------------------ MODULE PacketFlow ------------------------------
(***************************************************************************)
(* The packets of one established tunnel: the goroutines of                *)
(* src/internal/vpn/sslcon/tunnel.go that carry them between the TLS and   *)
(* the DTLS connection to the gateway and the TUN adapter or, through      *)
(* PacketFlow, the bridge (src/internal/socks5/bridge.go); DPDTimer and the*)
(* two Close of session.go; Tunnel.Close and Bridge.Close, which Manager   *)
(* and TunnelClient call in either order.                                  *)
(*                                                                         *)
(* A goroutine takes a packet (which ends when its connection does) and    *)
(* then puts it into a queue (which may have to wait); one that only writes*)
(* to a connection, the adapter or the netstack does both in one step.     *)
(* A read of the TLS connection yields one frame, as the gateway sends one *)
(* per record.  When a silent peer is found is the matter of DeadPeer: here*)
(* the read fails some time after the peer has gone silent.  UDP may lose  *)
(* packets: those sent count as delivered.                                 *)
(***************************************************************************)
EXTENDS Naturals, Sequences, FiniteSets

CONSTANTS
  Modes,   \* "tun", "socks5"
  QueueCap,\* size of PayloadIn, PayloadOutTLS, PayloadOutDTLS, flowIn, flowOut
  MaxPackets \* bound: packets of the applications and the gateway, ticks of the DPD timer

ASSUME ModesAssumption == Modes \subseteq {"tun", "socks5"} /\ Modes # {}
ASSUME BoundAssumption == QueueCap \in Nat \ {0} /\ MaxPackets \in Nat

Queue == {"in", "outTLS", "outDTLS", "flowIn", "flowOut"}
Pump  == {"tlsR", "tlsW", "dtlsR", "dtlsW", "tunR", "tunW", "flowR", "flowW", "inject", "extract"}
PumpsOf(m) == {"tlsR", "tlsW", "dtlsR", "dtlsW"}
              \cup IF m = "tun" THEN {"tunR", "tunW"} ELSE {"flowR", "flowW", "inject", "extract"}

VARIABLES
  mode,      \* Tunnel.mode
  closed,    \* ConnSession.CloseChan is closed
  dclosed,   \* DtlsSession.CloseChan is closed
  dconnected,\* ConnSession.DtlsConnected
  tls,       \* the TLS connection
  dtls,      \* the DTLS connection
  dtlsConn,  \* Tunnel.dtlsConn is set
  dev,       \* the TUN adapter
  q,         \* the queues
  pump,      \* the goroutines: place, packet in hand, queue chosen for it
  closer,    \* Tunnel.Close
  bridge,    \* Bridge.Close
  peer,      \* the gateway
  ins, outs, ticks, \* packets of the gateway and of the applications, ticks so far
  got,       \* history: packets the applications have received
  sent       \* history: packets written to each connection

sessVars == <<closed, dclosed, dconnected>>
connVars == <<tls, dtls, dtlsConn, dev>>
stopVars == <<closer, bridge, peer>>
histVars == <<ins, outs, ticks, got, sent>>
vars == <<mode, sessVars, connVars, q, pump, stopVars, histVars>>

\* by: who made the packet ("req", "resp": DPD); n: which of them it is.
Data(by, n) == <<by, n>>
DpdReq      == <<"req", 0>>
DpdResp     == <<"resp", 0>>
Nothing     == <<"none", 0>>
Payload     == {Nothing, DpdReq, DpdResp} \cup ({"tls", "dtls", "app"} \X (1..MaxPackets))

Off == [at |-> "off", hand |-> Nothing, to |-> "in"]
Run == [at |-> "take", hand |-> Nothing, to |-> "in"]

At(p, l) == pump[p].at = l
Take(p)  == pump' = [pump EXCEPT ![p] = Run]
Hold(p, pl, to) == pump' = [pump EXCEPT ![p] = [at |-> "put", hand |-> pl, to |-> to]]
Done(p)  == pump' = [pump EXCEPT ![p] = [Off EXCEPT !.at = "done"]]

\* setupTunnel has negotiated; the DTLS channel is dialled unless NoDTLS is
\* set or the gateway named no port.  SetupTUN, PacketFlow and Bridge.Start
\* follow before any packet of an application.
Init ==
  /\ mode \in Modes
  /\ closed = FALSE /\ dclosed = FALSE /\ dconnected = FALSE
  /\ tls = "open" /\ dtls = "none" /\ dtlsConn = FALSE
  /\ dev = IF mode = "tun" THEN "open" ELSE "none"
  /\ q = [c \in Queue |-> <<>>]
  /\ \E d \in {"dial", "off"} :
       pump = [p \in Pump |-> CASE p = "dtlsR" -> [Off EXCEPT !.at = d]
                                [] p \in PumpsOf(mode) \ {"dtlsR", "dtlsW"} -> Run
                                [] OTHER -> Off]
  /\ closer = "no" /\ bridge = IF mode = "socks5" THEN "up" ELSE "none"
  /\ peer = "alive"
  /\ ins = 0 /\ outs = 0 /\ ticks = 0 /\ got = <<>> /\ sent = [c \in {"tls", "dtls"} |-> <<>>]

Room(c) == Len(q[c]) < QueueCap
-----------------------------------------------------------------------------
(* ConnSession.Close and DtlsSession.Close                                 *)

DtlsClose == /\ dclosed' = TRUE
             /\ dconnected' = IF dclosed THEN dconnected ELSE FALSE

\* The DTLS channel is closed with the session if it is connected by now.
SessionClose ==
  /\ closed' = TRUE
  /\ IF ~closed /\ dconnected THEN DtlsClose ELSE UNCHANGED <<dclosed, dconnected>>
-----------------------------------------------------------------------------
(* Putting the packet in hand                                              *)

\* Faulty variant: as DPDTimer does, what finds no room is left out.
PutOrDrop(p) ==
  /\ At(p, "put")
  /\ q' = [q EXCEPT ![pump[p].to] = IF Room(pump[p].to) THEN Append(@, pump[p].hand) ELSE @]
  /\ Take(p)
  /\ UNCHANGED <<mode, sessVars, connVars, stopVars, histVars>>

\* The end that the select statement of each goroutine listens to.
Ended(p) ==
  CASE p = "extract" -> bridge # "up"
    [] pump[p].to = "outDTLS" \/ p = "dtlsR" -> dclosed
    [] OTHER -> closed

\* Faulty variant: nobody listens to the end of the session.
PutDeaf(p) ==
  /\ At(p, "put") /\ Room(pump[p].to)
  /\ q' = [q EXCEPT ![pump[p].to] = Append(@, pump[p].hand)]
  /\ Take(p)
  /\ UNCHANGED <<mode, sessVars, connVars, stopVars, histVars>>

\* Without room the goroutine waits, until the end of the session, of the DTLS
\* channel or of the bridge: the packet is dropped then.  Those that
\* chose DTLS go on after it.
Put(p) ==
  /\ At(p, "put")
  /\ \/ /\ Room(pump[p].to)
        /\ q' = [q EXCEPT ![pump[p].to] = Append(@, pump[p].hand)]
        /\ Take(p)
        /\ UNCHANGED <<sessVars, connVars>>
     \/ /\ Ended(p) /\ p \in {"tunR", "flowW"} /\ pump[p].to = "outDTLS"
        /\ Take(p)
        /\ UNCHANGED <<sessVars, connVars, q>>
     \/ /\ Ended(p) /\ p \in {"flowR", "flowW", "extract"} /\ pump[p].to # "outDTLS"
        /\ Done(p)
        /\ UNCHANGED <<sessVars, connVars, q>>
     \/ /\ Ended(p) /\ p = "tunR" /\ pump[p].to # "outDTLS"
        /\ Done(p) /\ dev' = "closed"
        /\ UNCHANGED <<sessVars, tls, dtls, dtlsConn, q>>
     \/ /\ Ended(p) /\ p = "tlsR"
        /\ Done(p) /\ tls' = "closed"
        /\ UNCHANGED <<sessVars, dtls, dtlsConn, dev, q>>
     \/ /\ Ended(p) /\ p = "dtlsR"
        /\ IF pump[p].to = "outDTLS" THEN Take(p) /\ UNCHANGED dtls
           ELSE Done(p) /\ dtls' = "closed"
        /\ UNCHANGED <<sessVars, tls, dtlsConn, dev, q>>
  /\ UNCHANGED <<mode, stopVars, histVars>>
-----------------------------------------------------------------------------
(* From the applications                                                   *)

Channel == IF dconnected THEN "outDTLS" ELSE "outTLS"

\* tunToPayloadOut: a packet is read, then the queue chosen.
ReadDevice ==
  /\ At("tunR", "take") /\ dev = "open" /\ ins + outs + ticks < MaxPackets
  /\ outs' = outs + 1
  /\ Hold("tunR", Data("app", outs + 1), Channel)
  /\ UNCHANGED <<mode, sessVars, connVars, q, stopVars, ins, ticks, got, sent>>

DeviceReadFails ==
  /\ At("tunR", "take") /\ dev = "closed"
  /\ Done("tunR")
  /\ UNCHANGED <<mode, sessVars, connVars, q, stopVars, histVars>>

\* extractPackets: a packet of the netstack.
ReadNetstack ==
  /\ At("extract", "take") /\ bridge = "up" /\ ins + outs + ticks < MaxPackets
  /\ outs' = outs + 1
  /\ Hold("extract", Data("app", outs + 1), "flowOut")
  /\ UNCHANGED <<mode, sessVars, connVars, q, stopVars, ins, ticks, got, sent>>

ExtractEnds ==
  /\ At("extract", "take") /\ bridge # "up"
  /\ Done("extract")
  /\ UNCHANGED <<mode, sessVars, connVars, q, stopVars, histVars>>

\* The consumer side of PacketFlow and WritePacket.
TakeFlowOut ==
  /\ At("flowW", "take")
  /\ \/ /\ q["flowOut"] # <<>>
        /\ q' = [q EXCEPT !["flowOut"] = Tail(@)]
        /\ Hold("flowW", Head(q["flowOut"]), Channel)
     \/ closed /\ Done("flowW") /\ UNCHANGED q
  /\ UNCHANGED <<mode, sessVars, connVars, stopVars, histVars>>

Sent(c, pl) == sent' = [sent EXCEPT ![c] = IF pl[2] > 0 THEN Append(@, pl[2]) ELSE @]

\* payloadOutTLSToServer; a write may fail once the peer is gone.
WriteTLS ==
  /\ At("tlsW", "take") /\ q["outTLS"] # <<>> /\ tls = "open"
  /\ q' = [q EXCEPT !["outTLS"] = Tail(@)]
  /\ Sent("tls", Head(q["outTLS"]))
  /\ UNCHANGED <<mode, sessVars, connVars, pump, stopVars, ins, outs, ticks, got>>

\* Faulty variant: the session is left open.
WriterTLSEndsAlone ==
  /\ At("tlsW", "take")
  /\ closed \/ (q["outTLS"] # <<>> /\ (tls = "closed" \/ peer # "alive"))
  /\ Done("tlsW") /\ tls' = "closed"
  /\ UNCHANGED <<mode, sessVars, dtls, dtlsConn, dev, q, stopVars, histVars>>

WriterTLSEnds ==
  /\ At("tlsW", "take")
  /\ closed \/ (q["outTLS"] # <<>> /\ (tls = "closed" \/ peer # "alive"))
  /\ Done("tlsW") /\ tls' = "closed" /\ SessionClose
  /\ UNCHANGED <<mode, dtls, dtlsConn, dev, q, stopVars, histVars>>

\* payloadOutDTLSToServer.
WriteDTLS ==
  /\ At("dtlsW", "take") /\ q["outDTLS"] # <<>> /\ dtls = "open"
  /\ q' = [q EXCEPT !["outDTLS"] = Tail(@)]
  /\ Sent("dtls", Head(q["outDTLS"]))
  /\ UNCHANGED <<mode, sessVars, connVars, pump, stopVars, ins, outs, ticks, got>>

WriterDTLSEnds ==
  /\ At("dtlsW", "take")
  /\ dclosed \/ (q["outDTLS"] # <<>> /\ dtls = "closed")
  /\ Done("dtlsW") /\ dtls' = "closed" /\ DtlsClose
  /\ UNCHANGED <<mode, closed, tls, dtlsConn, dev, q, stopVars, histVars>>

\* DPDTimer: what finds no room is left out.
DPDTimer ==
  /\ ~closed /\ ins + outs + ticks < MaxPackets /\ ticks' = ticks + 1
  /\ Room("outTLS") \/ (dconnected /\ Room("outDTLS"))
  /\ q' = [q EXCEPT !["outTLS"] = IF Room("outTLS") THEN Append(@, DpdReq) ELSE @,
                    !["outDTLS"] = IF dconnected /\ Room("outDTLS") THEN Append(@, DpdReq) ELSE @]
  /\ UNCHANGED <<mode, sessVars, connVars, pump, stopVars, ins, outs, got, sent>>
-----------------------------------------------------------------------------
(* From the gateway                                                        *)

\* A frame arrives for goroutine p on a connection: data, a DPD request (its
\* answer goes out the same way) or an answer.
Arrives(p, by, answers) ==
  \/ /\ ins + outs + ticks < MaxPackets /\ ins' = ins + 1
     /\ Hold(p, Data(by, ins + 1), "in")
  \/ /\ ins + outs + ticks < MaxPackets /\ ins' = ins + 1
     /\ Hold(p, DpdResp, answers)

\* tlsChannel.
ReadTLS ==
  /\ At("tlsR", "take") /\ tls = "open" /\ peer = "alive"
  /\ Arrives("tlsR", "tls", "outTLS")
  /\ UNCHANGED <<mode, sessVars, connVars, q, stopVars, outs, ticks, got, sent>>

\* Faulty variant: a read that fails leaves the session open.
ReaderTLSEndsAlone ==
  /\ At("tlsR", "take") /\ (tls = "closed" \/ peer # "alive")
  /\ Done("tlsR") /\ tls' = "closed"
  /\ UNCHANGED <<mode, sessVars, dtls, dtlsConn, dev, q, stopVars, histVars>>

\* The connection is closed at either end, or its deadline has passed.
ReaderTLSEnds ==
  /\ At("tlsR", "take") /\ (tls = "closed" \/ peer # "alive")
  /\ Done("tlsR") /\ tls' = "closed" /\ SessionClose
  /\ UNCHANGED <<mode, dtls, dtlsConn, dev, q, stopVars, histVars>>

\* dtlsChannel: the handshake ends, with a connection or within 5 seconds.
DialDTLS ==
  /\ At("dtlsR", "dial")
  /\ \/ /\ dtls' = "open" /\ dtlsConn' = TRUE
        /\ pump' = [pump EXCEPT !["dtlsR"].at = "connected"]
     \/ Done("dtlsR") /\ UNCHANGED <<dtls, dtlsConn>>
  /\ UNCHANGED <<mode, sessVars, tls, dev, q, stopVars, histVars>>

\* Then it is announced and its writer started.
ConnectDTLS ==
  /\ At("dtlsR", "connected")
  /\ dconnected' = TRUE
  /\ pump' = [pump EXCEPT !["dtlsR"] = Run, !["dtlsW"] = Run]
  /\ UNCHANGED <<mode, closed, dclosed, connVars, q, stopVars, histVars>>

ReadDTLS ==
  /\ At("dtlsR", "take") /\ dtls = "open" /\ peer = "alive"
  /\ Arrives("dtlsR", "dtls", "outDTLS")
  /\ UNCHANGED <<mode, sessVars, connVars, q, stopVars, outs, ticks, got, sent>>

\* Closed, a DISCONNECT, or the deadline: a lossy path may miss it at any time.
ReaderDTLSEnds ==
  /\ At("dtlsR", "take")
  /\ Done("dtlsR") /\ dtls' = "closed" /\ DtlsClose
  /\ UNCHANGED <<mode, closed, tls, dtlsConn, dev, q, stopVars, histVars>>

\* Faulty variant: a packet is written again.
WriteDeviceAgain ==
  /\ At("tunW", "take") /\ q["in"] # <<>> /\ dev = "open" /\ Len(got) < MaxPackets
  /\ got' = Append(got, Head(q["in"]))
  /\ UNCHANGED <<mode, sessVars, connVars, q, pump, stopVars, ins, outs, ticks, sent>>

\* payloadInToTun.
WriteDevice ==
  /\ At("tunW", "take") /\ q["in"] # <<>> /\ dev = "open"
  /\ q' = [q EXCEPT !["in"] = Tail(@)]
  /\ got' = Append(got, Head(q["in"]))
  /\ UNCHANGED <<mode, sessVars, connVars, pump, stopVars, ins, outs, ticks, sent>>

DeviceWriterEnds ==
  /\ At("tunW", "take") /\ (closed \/ (q["in"] # <<>> /\ dev = "closed"))
  /\ Done("tunW") /\ SessionClose /\ dev' = "closed"
  /\ UNCHANGED <<mode, tls, dtls, dtlsConn, q, stopVars, histVars>>

\* The other side of PacketFlow, with ReadPacket; it closes flowIn at its end.
TakePayloadIn ==
  /\ At("flowR", "take")
  /\ \/ /\ q["in"] # <<>>
        /\ q' = [q EXCEPT !["in"] = Tail(@)]
        /\ Hold("flowR", Head(q["in"]), "flowIn")
     \/ closed /\ Done("flowR") /\ UNCHANGED q
  /\ UNCHANGED <<mode, sessVars, connVars, stopVars, histVars>>

\* injectPackets.
InjectPacket ==
  /\ At("inject", "take")
  /\ \/ /\ q["flowIn"] # <<>>
        /\ q' = [q EXCEPT !["flowIn"] = Tail(@)]
        /\ got' = Append(got, Head(q["flowIn"])) /\ UNCHANGED pump
     \/ /\ bridge # "up" \/ (At("flowR", "done") /\ q["flowIn"] = <<>>)
        /\ Done("inject") /\ UNCHANGED <<q, got>>
  /\ UNCHANGED <<mode, sessVars, connVars, stopVars, ins, outs, ticks, sent>>
-----------------------------------------------------------------------------
(* The end                                                                 *)

\* The gateway closes the connection or falls silent, the adapter is removed.
PeerGone ==
  /\ peer = "alive" /\ peer' = "gone"
  /\ UNCHANGED <<mode, sessVars, connVars, q, pump, closer, bridge, histVars>>

DeviceGone ==
  /\ dev = "open" /\ dev' = "closed"
  /\ UNCHANGED <<mode, sessVars, tls, dtls, dtlsConn, q, pump, stopVars, histVars>>

\* Tunnel.Close, when the user stops the tunnel or the session has ended.
CloseTunnel ==
  /\ \/ /\ closer = "no" /\ closer' = "session"
        /\ SessionClose /\ UNCHANGED connVars
     \/ /\ closer = "session" /\ closer' = "done"
        /\ tls' = "closed"
        /\ dtls' = IF dtlsConn THEN "closed" ELSE dtls
        /\ dev' = IF dev = "none" THEN dev ELSE "closed"
        /\ UNCHANGED <<sessVars, dtlsConn>>
  /\ UNCHANGED <<mode, q, pump, bridge, peer, histVars>>

\* Bridge.Close: cancel, then wait for both goroutines.
CloseBridge ==
  /\ \/ bridge = "up" /\ bridge' = "cancelled"
     \/ bridge = "cancelled" /\ At("inject", "done") /\ At("extract", "done") /\ bridge' = "closed"
  /\ UNCHANGED <<mode, sessVars, connVars, q, pump, closer, peer, histVars>>
-----------------------------------------------------------------------------
Next ==
  \/ \E p \in Pump : Put(p)
  \/ ReadDevice \/ DeviceReadFails \/ ReadNetstack \/ ExtractEnds \/ TakeFlowOut
  \/ WriteTLS \/ WriterTLSEnds \/ WriteDTLS \/ WriterDTLSEnds \/ DPDTimer
  \/ ReadTLS \/ ReaderTLSEnds \/ DialDTLS \/ ConnectDTLS \/ ReadDTLS \/ ReaderDTLSEnds
  \/ WriteDevice \/ DeviceWriterEnds \/ TakePayloadIn \/ InjectPacket
  \/ PeerGone \/ DeviceGone \/ CloseTunnel \/ CloseBridge

\* What the goroutines do when they can, the read that fails once the
\* connection is closed or the peer gone (its deadline), and Close when due.
\* Nothing is assumed of the gateway, the applications or the DPD timer.
Work ==
  \/ \E p \in Pump : Put(p)
  \/ DeviceReadFails \/ ExtractEnds \/ TakeFlowOut
  \/ WriteTLS \/ WriterTLSEnds \/ WriteDTLS \/ WriterDTLSEnds
  \/ ReaderTLSEnds \/ DialDTLS \/ ConnectDTLS
  \/ (dtls = "closed" \/ peer = "gone" \/ closed) /\ ReaderDTLSEnds
  \/ WriteDevice \/ DeviceWriterEnds \/ TakePayloadIn \/ InjectPacket
  \/ (closed \/ bridge \in {"cancelled", "closed"}) /\ CloseTunnel
  \/ (closed \/ bridge = "cancelled") /\ CloseBridge

\* Some goroutine that can go on does: less than Go's scheduler gives each.
Fairness == WF_vars(Work)

Spec == Init /\ [][Next]_vars
FairSpec == Spec /\ Fairness
-----------------------------------------------------------------------------
(* Safety                                                                  *)

TypeOK ==
  /\ {closed, dclosed, dconnected, dtlsConn} \subseteq BOOLEAN
  /\ mode \in Modes /\ tls \in {"open", "closed"}
  /\ dtls \in {"none", "open", "closed"} /\ dev \in {"none", "open", "closed"}
  /\ \A c \in Queue : q[c] \in Seq(Payload) /\ Len(q[c]) <= QueueCap
  /\ \A p \in Pump : pump[p].at \in {"off", "dial", "connected", "take", "put", "done"}
                     /\ pump[p].hand \in Payload /\ pump[p].to \in Queue
  /\ closer \in {"no", "session", "done"} /\ bridge \in {"none", "up", "cancelled", "closed"}
  /\ peer \in {"alive", "gone"}
  /\ ins + outs + ticks <= MaxPackets

\* The places in which packet n of the applications is: hands, positions in
\* queues, positions in what was sent.
Holders(n) == {p \in Pump : pump[p].hand = Data("app", n)}
Waits(n)   == {x \in Queue \X (1..QueueCap) :
                 x[2] <= Len(q[x[1]]) /\ q[x[1]][x[2]] = Data("app", n)}
Sendings(n) == {x \in {"tls", "dtls"} \X (1..MaxPackets) :
                 x[2] <= Len(sent[x[1]]) /\ sent[x[1]][x[2]] = n}

\* No packet of an application is sent twice, and none is lost while the
\* session and its DTLS channel last and nobody stops the bridge: whatever the
\* order of the goroutines it is in one hand, in one queue, or sent on one of
\* the two connections.
PacketsKept ==
  \A n \in 1..outs :
    LET c == Cardinality(Holders(n)) + Cardinality(Waits(n)) + Cardinality(Sendings(n)) IN
    /\ c <= 1
    /\ ~closed /\ ~dclosed /\ bridge \in {"none", "up"} => c = 1

\* Packets that came over one connection reach the applications in order,
\* each once; so do those sent on one connection reach the gateway.
InOrder ==
  /\ \A i, j \in 1..Len(got) : i < j /\ got[i][1] = got[j][1] => got[i][2] < got[j][2]
  /\ \A c \in {"tls", "dtls"} : \A i, j \in 1..Len(sent[c]) : i < j => sent[c][i] < sent[c][j]

\* The goroutine that empties queue c.
Reader(c) == CASE c = "in"      -> IF mode = "tun" THEN "tunW" ELSE "flowR"
               [] c = "outTLS"  -> "tlsW"
               [] c = "outDTLS" -> "dtlsW"
               [] c = "flowIn"  -> "inject"
               [] c = "flowOut" -> "flowW"

\* The DTLS channel has come up after the session had ended.
Late == closed /\ dconnected

\* No goroutine waits with a packet for a queue that nobody empties any more:
\* then the session, the DTLS channel or the bridge it listens to has ended
\* too.  Between the ends of the bridge and of the tunnel, which Manager and
\* TunnelClient bring about together, flowIn or flowOut may stay full;
\* excepted is also a DTLS channel that comes up after the end of the session.
NobodyStuck ==
  \A p \in Pump : At(p, "put") /\ At(Reader(pump[p].to), "done") =>
    Ended(p) \/ Late \/ (p = "flowR" /\ bridge # "up") \/ (p = "extract" /\ closed)

\* A goroutine can go on by itself: it has room for its packet or hears of an
\* end, something lies in the queue it empties, its connection or adapter is
\* gone, or its handshake is over sooner or later.
CanGoOn(p) ==
  \/ At(p, "dial") \/ At(p, "connected")
  \/ At(p, "put") /\ (Room(pump[p].to) \/ Ended(p))
  \/ At(p, "take") /\
       CASE p = "tlsR"    -> tls = "closed" \/ peer = "gone"
         [] p = "dtlsR"   -> dtls = "closed" \/ peer = "gone" \/ closed
         [] p = "tunR"    -> dev = "closed"
         [] p = "extract" -> bridge # "up"
         [] p = "inject"  -> q["flowIn"] # <<>> \/ bridge # "up" \/ At("flowR", "done")
         [] p = "flowR"   -> q["in"] # <<>> \/ closed
         [] p = "flowW"   -> q["flowOut"] # <<>> \/ closed
         [] p = "tunW"    -> q["in"] # <<>> \/ closed
         [] p = "tlsW"    -> q["outTLS"] # <<>> \/ closed
         [] p = "dtlsW"   -> q["outDTLS"] # <<>> \/ dclosed

\* Nothing is left to do but for the outside world: no goroutine can go on, and
\* neither Close is due.
Quiet ==
  /\ \A p \in Pump : ~CanGoOn(p)
  /\ closed \/ bridge \in {"cancelled", "closed"} => closer = "done"
  /\ closed => bridge # "up"
  /\ bridge = "cancelled" => ~(At("inject", "done") /\ At("extract", "done"))

\* All is over: every goroutine has ended and every connection, the adapter and
\* the bridge are closed.
AllOver ==
  /\ \A p \in Pump : pump[p].at \in {"off", "done"}
  /\ tls = "closed" /\ dtls # "open" /\ dev # "open"
  /\ bridge \in {"none", "closed"}

\* When nothing is left to do, a gateway that has closed the connection or
\* fallen silent has ended the session, and after the end of the session,
\* however it came about, all is over; excepted is a DTLS channel that comes up
\* after it.
EverythingEnds == Quiet /\ (closed \/ peer = "gone") => closed /\ (Late \/ AllOver)

(* Liveness                                                                *)

\* Once the session has ended or the gateway is gone, all is over sooner or
\* later, with nothing assumed of the gateway, the applications and the timer.
EndsAtLast == (closed \/ peer = "gone") ~> (Late \/ AllOver)

(* What the comments of the code promise and the code does not keep        *)

\* Tunnel.Close closes the DTLS channel too.
CloseClosesDtls == (closer = "done") ~> (dtls # "open")
=============================================================================
