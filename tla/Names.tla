-------------------------------- MODULE Names --------------------------------
(***************************************************************************)
(* Which network a host belongs to: the text of the PAC script             *)
(* (src/internal/pac/pac.go), the resolver of the SOCKS5 proxies           *)
(* (src/internal/socks5/resolver.go) and the NRPT rules of TUN mode        *)
(* (src/internal/nrpt/nrpt.go), all built from what one gateway has sent,  *)
(* and one request of the browser from the script to the answer.           *)
(*                                                                         *)
(* A tunnel is the rank of its name in the order of sort.Slice.  A DNS name*)
(* is a record: its labels, whether it is written with capitals, and       *)
(* whether it has the dots or blanks at its ends that Trim and TrimSpace   *)
(* take off.  An address has Width bits, a subnet is an address, the length*)
(* of its mask and the way it is written.  Gaining or losing a rule and the*)
(* refresh of the script are one step here (Proxy has them apart).         *)
(***************************************************************************)
EXTENDS Naturals, Sequences, FiniteSets, SequencesExt

CONSTANTS
  Gateways, \* what a gateway may send: [zones, nets, servers, all]
  Configs,  \* socks_port of each tunnel of a configuration, as a sequence
  Hosts,    \* hosts of a browser: [name, ip]
  Width     \* bound: bits of an address

ASSUME WidthAssumption == Width \in Nat
ASSUME ConfigsAssumption == \A c \in Configs : c \in Seq(Nat) /\ Len(c) > 0

DnsName == [labels : Seq(STRING), upper : BOOLEAN, dots : BOOLEAN]

\* The servers of DNS are numbers, 0 for a blank one.
ASSUME GatewaysAssumption ==
  \A g \in Gateways : Range(g.zones) \subseteq DnsName /\ g.servers \in Seq(Nat)
ASSUME HostsAssumption == Hosts # {} /\ \A h \in Hosts : h.name \in DnsName

VARIABLES
  ports,  \* the configuration
  sent,   \* what the gateway of each tunnel has sent
  up,     \* tunnels whose proxy listens and whose rule is in the manager
  script, \* the script of the PAC server, as the rules it is made of
  req,    \* the request
  asked   \* history: whom the resolver has asked for the host

vars == <<ports, sent, up, script, req, asked>>

Tunnel  == DOMAIN ports
NoAddr  == 2 ^ Width
System  == <<0, 0>>   \* the resolver of the host system in asked
-----------------------------------------------------------------------------
\* Faulty variant: two tunnels may have one port.
ValidateEach(c) == \A i \in DOMAIN c : c[i] > 0 /\ c[i] <= 65535

\* tunnels[i].SocksPort of a configuration that Config.Validate accepts.
Validate(c) ==
  /\ \A i \in DOMAIN c : c[i] > 0 /\ c[i] <= 65535
  /\ \A i, j \in DOMAIN c : c[i] = c[j] => i = j

\* strings.ToLower(strings.Trim(strings.TrimSpace(d), ".")).
Canon(d) == [labels |-> d.labels, upper |-> FALSE, dots |-> FALSE]

Within(name, zone) == name.upper = zone.upper /\ IsSuffix(zone.labels, name.labels)

Reverse4(zone) == IsSuffix(<<"in-addr", "arpa">>, zone.labels)

\* Faulty variant: capitals are kept.
NormalizeDomainsAsWritten(in) ==
  {d \in Range(in) : d.labels # <<>> /\ ~Reverse4(d)}

\* The conditions of one rule come in any order: they lead to one proxy.
NormalizeDomains(in) ==
  {d \in {Canon(z) : z \in Range(in)} : d.labels # <<>> /\ ~Reverse4(d)}

\* The address as it stands before a mask, cut by ParseCIDR before a length.
ParseSubnet(n) ==
  [net  |-> IF n.form = "cidr" THEN n.addr - (n.addr % 2 ^ (Width - n.bits)) ELSE n.addr,
   bits |-> n.bits]

NormalizeSubnets(in) ==
  {ParseSubnet(n) : n \in {m \in Range(in) : m.form \in {"mask", "cidr"}}}

\* Script: the rules by their places; a tunnel with neither domains nor subnets
\* has none.
Script(ts) ==
  LET Rule(t) == [tunnel |-> t, port |-> ports[t],
                  domains |-> NormalizeDomains(sent[t].zones),
                  nets    |-> NormalizeSubnets(sent[t].nets)]
      ruled   == {i \in DOMAIN ts : Rule(ts[i]).domains # {} \/ Rule(ts[i]).nets # {}}
  IN  [i \in ruled |-> Rule(ts[i])]

\* Faulty variant: the order of the map.
ByMap(ts) == ts

\* The order in which refreshPAC hands the rules over.
ByName(ts) ==
  CHOOSE s \in SetToSeqs(Range(ts)) : \A i, j \in DOMAIN s : i < j => s[i] < s[j]

\* isInNet of the browser masks both addresses.
IsInNet(ip, n) == ip \div 2 ^ (Width - n.bits) = n.net \div 2 ^ (Width - n.bits)

\* The condition of a rule: host === d || dnsDomainIs(host, "." + d), with
\* the host in lower case but with its last dot, or isIP && isInNet(...).
Applies(r, h) ==
  IF h.ip = NoAddr
  THEN \E d \in r.domains : ~h.name.dots /\ Within([h.name EXCEPT !.upper = FALSE], d)
  ELSE \E n \in r.nets : IsInNet(h.ip, n)

\* FindProxyForURL: the first rule that applies, or 0 for DIRECT.
FindProxy(s, h) ==
  LET hits == {i \in DOMAIN s : Applies(s[i], h)}
  IN  IF hits = {} THEN 0
      ELSE s[CHOOSE i \in hits : \A j \in hits : i <= j].port
-----------------------------------------------------------------------------
\* matchesSplitDomain: the dot at the end of the host is taken off first.
MatchesSplitDomain(t, name) ==
  \E d \in Range(sent[t].zones) :
    d.labels # <<>> /\ Within(Canon(name), Canon(d))

UseTunnel(t, name) ==
  /\ sent[t].servers # <<>>
  /\ sent[t].all \/ sent[t].zones = <<>> \/ MatchesSplitDomain(t, name)

\* Faulty variant: as in the PAC script, no reverse zones.
BuildRulesForward(t) ==
  IF \A s \in Range(sent[t].servers) : s = 0 THEN {}
  ELSE {d \in {Canon(z) : z \in Range(sent[t].zones)} : d.labels # <<>> /\ ~Reverse4(d)}

\* nrpt.BuildRules: the namespaces; a blank server (0) is left out.
BuildRules(t) ==
  IF \A s \in Range(sent[t].servers) : s = 0 THEN {}
  ELSE {d \in {Canon(z) : z \in Range(sent[t].zones)} : d.labels # <<>>}
-----------------------------------------------------------------------------
NoReq == [at |-> "idle", host |-> CHOOSE h \in Hosts : TRUE, rule |-> 0, port |-> 0,
          scripted |-> FALSE, by |-> 0, server |-> 0, source |-> "none"]

Init ==
  /\ ports \in {c \in Configs : Validate(c)}
  /\ sent \in [Tunnel -> Gateways]
  /\ up = {} /\ script = <<>>
  /\ req = NoReq /\ asked = {}

\* refreshPAC after a change: the order of the map is not known.
Refresh == \E order \in SetToSeqs(up') : script' = Script(ByName(order))

\* TunnelSetup of the manager: only one program can listen on a port.
Connect(t) ==
  /\ t \notin up /\ \A u \in up : ports[u] # ports[t]
  /\ up' = up \cup {t} /\ Refresh
  /\ UNCHANGED <<ports, sent, req, asked>>

\* The end of a tunnel, in forwardEvents or Stop.
Disconnect(t) ==
  /\ t \in up
  /\ up' = up \ {t} /\ Refresh
  /\ UNCHANGED <<ports, sent, req, asked>>

\* EnablePAC for another address: the rules are handed over again.
RefreshAgain ==
  /\ up' = up /\ Refresh
  /\ UNCHANGED <<ports, sent, req, asked>>
-----------------------------------------------------------------------------
\* The browser runs the script; without a proxy the host system resolves.
Browse(h) ==
  /\ req.at = "idle"
  /\ LET p == FindProxy(script, h) IN
     req' = [req EXCEPT !.host = h, !.port = p, !.scripted = TRUE, !.at = IF p = 0 THEN "done" ELSE "dial",
                        !.source = IF p = 0 THEN "direct" ELSE "none",
                        !.rule = IF p = 0 THEN 0 ELSE CHOOSE t \in up : ports[t] = p]
  /\ UNCHANGED <<ports, sent, up, script, asked>>

\* A program that is set to the port of a tunnel by hand.
UseProxy(h, t) ==
  /\ req.at = "idle" /\ t \in up
  /\ req' = [req EXCEPT !.host = h, !.port = ports[t], !.rule = t, !.at = "dial"]
  /\ UNCHANGED <<ports, sent, up, script, asked>>

\* The program connects to the port; a proxy that is gone is an error.
Dial ==
  /\ req.at = "dial"
  /\ LET here == {t \in up : ports[t] = req.port} IN
     req' = IF here = {} THEN [req EXCEPT !.at = "done", !.source = "refused"]
            ELSE [req EXCEPT !.at = "resolve", !.by = CHOOSE t \in here : TRUE]
  /\ UNCHANGED <<ports, sent, up, script, asked>>

\* resolveWithSource up to the first question.
Resolve ==
  /\ req.at = "resolve"
  /\ req' = IF req.host.ip # NoAddr
            THEN [req EXCEPT !.at = "done", !.source = "literal"]
            ELSE IF UseTunnel(req.by, req.host.name)
            THEN [req EXCEPT !.at = "udp", !.server = 1]
            ELSE [req EXCEPT !.at = "system"]
  /\ UNCHANGED <<ports, sent, up, script, asked>>

Ask == asked' = asked \cup {<<req.by, req.server>>}

\* A record A in the answer, over UDP or TCP.
Answer ==
  /\ req.at \in {"udp", "tcp"} /\ req.by \in up
  /\ sent[req.by].servers[req.server] # 0
  /\ Ask /\ req' = [req EXCEPT !.at = "done", !.source = "vpn"]
  /\ UNCHANGED <<ports, sent, up, script>>

\* The answer over UDP is cut: the question is put again over TCP.
Truncated ==
  /\ req.at = "udp" /\ req.by \in up
  /\ sent[req.by].servers[req.server] # 0
  /\ Ask /\ req' = [req EXCEPT !.at = "tcp"]
  /\ UNCHANGED <<ports, sent, up, script>>

\* Faulty variant: a name of the network goes on to the system as well.
GiveUpToSystem(r) == [r EXCEPT !.at = "system"]

\* All servers have failed: a name of the network goes no further.
GiveUp(r) ==
  IF MatchesSplitDomain(r.by, r.host.name)
  THEN [r EXCEPT !.at = "done", !.source = "failed"]
  ELSE [r EXCEPT !.at = "system"]

\* An error of one server, five seconds without an answer included.
QueryFails ==
  /\ req.at \in {"udp", "tcp"}
  /\ Ask
  /\ req' = IF req.server < Len(sent[req.by].servers)
            THEN [req EXCEPT !.at = "udp", !.server = @ + 1]
            ELSE GiveUp(req)
  /\ UNCHANGED <<ports, sent, up, script>>

\* The resolver of the host system, whatever it answers.
AskSystem ==
  /\ req.at = "system"
  /\ asked' = asked \cup {System}
  /\ req' = [req EXCEPT !.at = "done", !.source = "system"]
  /\ UNCHANGED <<ports, sent, up, script>>

\* The next request.
Again ==
  /\ req.at = "done"
  /\ req' = NoReq /\ asked' = {}
  /\ UNCHANGED <<ports, sent, up, script>>
-----------------------------------------------------------------------------
Step == Dial \/ Resolve \/ Answer \/ Truncated \/ QueryFails \/ AskSystem

Next ==
  \/ \E t \in Tunnel : Connect(t) \/ Disconnect(t)
  \/ \E h \in Hosts : Browse(h) \/ \E t \in Tunnel : UseProxy(h, t)
  \/ RefreshAgain \/ Step \/ Again

Spec == Init /\ [][Next]_vars
-----------------------------------------------------------------------------
Request ==
  [at : {"idle", "dial", "resolve", "udp", "tcp", "system", "done"},
   host : Hosts, rule : Tunnel \cup {0}, port : Nat, scripted : BOOLEAN,
   by : Tunnel \cup {0}, server : Nat,
   source : {"none", "direct", "refused", "literal", "vpn", "failed", "system"}]

TypeOK ==
  /\ ports \in Configs /\ Validate(ports) /\ sent \in [Tunnel -> Gateways]
  /\ up \subseteq Tunnel /\ \A i \in DOMAIN script : script[i].tunnel \in Tunnel
  /\ req \in Request
  /\ req.at \in {"udp", "tcp"} => req.server \in DOMAIN sent[req.by].servers
  /\ asked \subseteq {System} \cup (Tunnel \X (Nat \ {0}))

\* Behind a tunnel whose gateway has DNS servers the system is the last resort:
\* it is asked only for a name that is none of the network, never for one that
\* a domain rule of the script has sent here, and, where the tunnel is to be
\* asked at all, only after each of its servers has failed (resolver.go:72,
\* resolver.go:121; the zones of the script are zones of the resolver).
StaysInside ==
  req.by # 0 /\ sent[req.by].servers # <<>> /\ System \in asked =>
    /\ ~req.scripted /\ ~MatchesSplitDomain(req.by, req.host.name)
    /\ UseTunnel(req.by, req.host.name) =>
         \A i \in DOMAIN sent[req.by].servers : <<req.by, i>> \in asked

\* A host goes past all tunnels only if no tunnel that is up when the script
\* runs takes its name for its own, reverse zones and a dot at the end of the
\* host left aside: normalizeDomains loses no zone the resolver knows.
NoZoneLost ==
  [][\A h \in Hosts :
       Browse(h) /\ h.ip = NoAddr /\ ~h.name.dots /\ req'.source = "direct" =>
         \A t \in up : MatchesSplitDomain(t, h.name) => Reverse4(h.name)]_vars

\* As long as the same tunnels are up, the same host goes to the same proxy,
\* overlapping zones included: refreshPAC sorts what it takes out of a map
\* (manager.go:145).
StableChoice ==
  [][up' = up => \A h \in Hosts : FindProxy(script', h) = FindProxy(script, h)]_vars

\* The proxy that answers is the one of the tunnel whose rule was chosen, even
\* if tunnels have come and gone in between: Config.Validate gives each
\* tunnel its port.
RightNetwork == req.by # 0 => req.by = req.rule

\* With DNS servers that are no blanks, TUN mode sends exactly the names to the
\* servers of a tunnel that SOCKS5 mode takes for names of its network.
ModesAgree ==
  \A t \in Tunnel : \A h \in Hosts :
    h.ip = NoAddr /\ (\E s \in Range(sent[t].servers) : s # 0) =>
      (MatchesSplitDomain(t, h.name) <=> \E d \in BuildRules(t) : Within(Canon(h.name), d))
=============================================================================
