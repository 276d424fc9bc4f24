----------------------------- MODULE Names_proofs -----------------------------
(* What Names promises, for all gateways, configurations and hosts.        *)
EXTENDS Names, FiniteSetTheorems, WellFoundedInduction, TLAPS
-----------------------------------------------------------------------------
(***************************************************************************)
(* Numbers and sequences                                                   *)
(***************************************************************************)
\* A set of numbers that is not empty has a least one.
LEMMA Least ==
  ASSUME NEW S \in SUBSET Nat, S # {}
  PROVE  \E m \in S : \A k \in S : m <= k
<1>1. \E R : IsWellFoundedOn(R, Nat) /\ \A x, y \in Nat : y < x => <<y, x>> \in R
  <2>1. \A x, y \in Nat : y < x => <<y, x>> \in OpToRel(<, Nat)
    BY DEF OpToRel
  <2> QED
    BY <2>1, NatLessThanWellFounded
<1>2. PICK R : IsWellFoundedOn(R, Nat) /\ \A x, y \in Nat : y < x => <<y, x>> \in R
  BY <1>1
<1>3. PICK x \in S : \A y \in S : ~ (<<y, x>> \in R)
  BY <1>2, WFMin
<1>4. \A y \in S : ~(y < x)
  BY <1>2, <1>3
<1>5. \A y \in S : y \in Nat /\ x \in Nat
  OBVIOUS
<1> QED
  BY <1>4, <1>5

Rising(s) == \A i, j \in DOMAIN s : i < j => s[i] < s[j]

\* The orders of a finite set: each of its elements once.
LEMMA Orders ==
  ASSUME NEW S, IsFiniteSet(S), NEW s \in SetToSeqs(S)
  PROVE  s \in Seq(S) /\ Range(s) = S /\ DOMAIN s = 1..Cardinality(S)
<1> DEFINE D == 1..Cardinality(S)
<1>1. Cardinality(S) \in Nat
  BY FS_CardinalityType
<1>2. s \in [D -> S] /\ \A i, j \in D : i # j => s[i] # s[j]
  BY DEF SetToSeqs
<1>3. s \in Injection(D, S)
  BY <1>2 DEF Injection, IsInjective
<1>4. Cardinality(D) = Cardinality(S) /\ IsFiniteSet(D)
  BY <1>1, FS_Interval
<1>5. s \in Surjection(D, S)
  BY <1>3, <1>4, FS_Injection
<1>6. Range(s) = S
  BY <1>5 DEF Surjection, Range
<1> QED
  BY <1>1, <1>2, <1>6

\* A finite set of numbers has an order in which they rise (sort.Slice).
LEMMA Sorted ==
  ASSUME NEW S \in SUBSET Nat, IsFiniteSet(S)
  PROVE  \E s \in SetToSeqs(S) : Rising(s)
<1> DEFINE Bad == {T \in SUBSET S : ~ \E s \in SetToSeqs(T) : Rising(s)}
           Sizes == {Cardinality(T) : T \in Bad}
<1> SUFFICES ASSUME Bad # {} PROVE FALSE
  OBVIOUS
<1>1. \A T \in SUBSET S : IsFiniteSet(T) /\ Cardinality(T) \in Nat
  BY FS_Subset, FS_CardinalityType
<1>2. Sizes \in SUBSET Nat /\ Sizes # {}
  BY <1>1
<1>3. PICK n \in Sizes : \A k \in Sizes : n <= k
  BY <1>2, Least
<1>4. PICK T \in Bad : Cardinality(T) = n
  BY <1>3
<1>5. T # {}
  <2> SUFFICES ASSUME T = {} PROVE FALSE
    OBVIOUS
  <2>1. Cardinality({}) = 0
    BY FS_EmptySet
  <2>2. <<>> \in SetToSeqs({}) /\ Rising(<<>>)
    BY <2>1 DEF SetToSeqs, Rising
  <2> QED
    BY <1>4, <2>2
<1>6. PICK m \in T : \A k \in T : m <= k
  BY <1>5, Least
<1> DEFINE U == T \ {m}
<1>7. U \in SUBSET S /\ IsFiniteSet(T) /\ n \in Nat /\ Cardinality(U) = n - 1
  BY <1>1, <1>4, <1>6, FS_RemoveElement
<1>8. U \notin Bad
  BY <1>1, <1>3, <1>7
<1>9. PICK u \in SetToSeqs(U) : Rising(u)
  BY <1>7, <1>8
<1>10. u \in [1..(n - 1) -> U] /\ \A i, j \in 1..(n - 1) : i # j => u[i] # u[j]
  BY <1>7, <1>9 DEF SetToSeqs
<1> DEFINE s == [i \in 1..n |-> IF i = 1 THEN m ELSE u[i - 1]]
<1>11. s \in [1..n -> T]
  BY <1>6, <1>7, <1>10
<1>12. \A i \in 1..n : i # 1 => i - 1 \in 1..(n - 1) /\ s[i] = u[i - 1] /\ s[i] \in U
  BY <1>7, <1>10
<1>13. \A i, j \in 1..n : i # j => s[i] # s[j]
  <2> SUFFICES ASSUME NEW i \in 1..n, NEW j \in 1..n, i # j
               PROVE  s[i] # s[j]
    OBVIOUS
  <2>1. CASE i # 1 /\ j # 1
    <3>1. i - 1 # j - 1
      BY <1>7, <2>1
    <3> QED
      BY <1>10, <1>12, <2>1, <3>1
  <2>2. CASE i = 1 \/ j = 1
    BY <1>12, <2>2
  <2> QED
    BY <2>1, <2>2
<1>14. Rising(s)
  <2> SUFFICES ASSUME NEW i \in 1..n, NEW j \in 1..n, i < j
               PROVE  s[i] < s[j]
    BY DEF Rising
  <2>1. CASE i = 1
    <3>1. s[j] \in U /\ s[i] = m
      BY <1>7, <1>12, <2>1
    <3>2. m \in Nat /\ s[j] \in Nat /\ m <= s[j] /\ m # s[j]
      <4> HIDE DEF s
      <4> QED
        BY <1>6, <1>7, <3>1
    <3> QED
      BY <3>1, <3>2
  <2>2. CASE i # 1
    <3>1. i - 1 \in 1..(n - 1) /\ j - 1 \in 1..(n - 1) /\ i - 1 < j - 1
      BY <1>7, <2>2
    <3>2. u[i - 1] < u[j - 1]
      BY <1>9, <1>10, <3>1 DEF Rising
    <3> QED
      BY <1>7, <2>2, <3>2
  <2> QED
    BY <2>1, <2>2
<1>15. s \in SetToSeqs(T)
  BY <1>4, <1>11, <1>13 DEF SetToSeqs
<1> QED
  BY <1>4, <1>14, <1>15
-----------------------------------------------------------------------------
(***************************************************************************)
(* Names: the end of an end of a name is an end of the name.               *)
(***************************************************************************)
LEMMA Suffix ==
  ASSUME NEW A, NEW B, NEW s \in Seq(A), NEW t \in Seq(B)
  PROVE  IsSuffix(s, t) <=>
           /\ Len(s) <= Len(t)
           /\ \A i \in 1..Len(s) : s[Len(s) - i + 1] = t[Len(t) - i + 1]
<1>1. /\ Len(s) \in Nat /\ Reverse(s) \in Seq(A) /\ Len(Reverse(s)) = Len(s)
      /\ \A i \in 1..Len(s) : Reverse(s)[i] = s[Len(s) - i + 1]
  BY DEF Reverse
<1>2. /\ Len(t) \in Nat /\ Reverse(t) \in Seq(B) /\ Len(Reverse(t)) = Len(t)
      /\ \A i \in 1..Len(t) : Reverse(t)[i] = t[Len(t) - i + 1]
  BY DEF Reverse
<1> HIDE DEF Reverse
<1>3. ASSUME Len(s) <= Len(t)
      PROVE  /\ SubSeq(Reverse(s), 1, Len(s)) = [i \in 1..Len(s) |-> Reverse(s)[i]]
             /\ SubSeq(Reverse(t), 1, Len(s)) = [i \in 1..Len(s) |-> Reverse(t)[i]]
  BY <1>1, <1>2, <1>3
<1>4. ASSUME Len(s) <= Len(t)
      PROVE  SubSeq(Reverse(s), 1, Len(s)) = SubSeq(Reverse(t), 1, Len(s)) <=>
               \A i \in 1..Len(s) : Reverse(s)[i] = Reverse(t)[i]
  BY <1>3, <1>4
<1>5. ASSUME Len(s) <= Len(t) PROVE 1..Len(s) \subseteq 1..Len(t)
  BY <1>1, <1>2, <1>5
<1>6. IsSuffix(s, t) <=>
        Len(s) <= Len(t) /\ SubSeq(Reverse(s), 1, Len(s)) = SubSeq(Reverse(t), 1, Len(s))
  <2> HIDE DEF Reverse
  <2> QED
    BY <1>1, <1>2 DEF IsSuffix, IsPrefix
<1>7. ASSUME Len(s) <= Len(t), NEW i \in 1..Len(s)
      PROVE  Reverse(s)[i] = Reverse(t)[i] <=> s[Len(s) - i + 1] = t[Len(t) - i + 1]
  BY <1>1, <1>2, <1>5, <1>7
<1> QED
  BY <1>4, <1>6, <1>7

LEMMA SuffixOfSuffix ==
  ASSUME NEW A, NEW r \in Seq(A), NEW B, NEW s \in Seq(B), NEW C, NEW t \in Seq(C),
         IsSuffix(r, s), IsSuffix(s, t)
  PROVE  IsSuffix(r, t)
<1>1. /\ Len(r) \in Nat /\ Len(s) \in Nat /\ Len(t) \in Nat
      /\ Len(r) <= Len(s) /\ Len(s) <= Len(t)
  BY Suffix
<1>2. 1..Len(r) \subseteq 1..Len(s)
  BY <1>1
<1>3. \A i \in 1..Len(r) : r[Len(r) - i + 1] = t[Len(t) - i + 1]
  BY <1>2, Suffix
<1> QED
  BY <1>1, <1>3, Suffix
-----------------------------------------------------------------------------
(***************************************************************************)
(* The inductive invariant                                                 *)
(***************************************************************************)
\* The script is the one of the tunnels that are up, by name.
Written == \E order \in SetToSeqs(up) : script = Script(ByName(order))

\* A request has the port of its rule until the proxy behind that port has it.
Routed ==
  /\ req.at = "idle" => req = NoReq
  /\ req.at \in {"idle", "dial", "resolve"} => asked = {}
  /\ req.at = "dial" => req.rule \in Tunnel /\ req.port = ports[req.rule] /\ req.by = 0
  /\ req.at \in {"resolve", "udp", "tcp", "system"} => req.by \in Tunnel
  /\ RightNetwork

\* A rule that has sent a name to a tunnel comes from a zone of this tunnel.
Zoned ==
  req.scripted /\ req.rule # 0 /\ req.host.ip = NoAddr =>
    MatchesSplitDomain(req.rule, req.host.name)

\* What the servers before this one have been asked, and what leads to the system.
Questioned ==
  /\ req.at \in {"udp", "tcp"} =>
       /\ req.host.ip = NoAddr /\ System \notin asked
       /\ UseTunnel(req.by, req.host.name)
       /\ \A i \in 1..(req.server - 1) : <<req.by, i>> \in asked
  /\ req.at = "system" =>
       /\ req.host.ip = NoAddr /\ System \notin asked
       /\ sent[req.by].servers # <<>> =>
            /\ ~MatchesSplitDomain(req.by, req.host.name)
            /\ UseTunnel(req.by, req.host.name) =>
                 \A i \in DOMAIN sent[req.by].servers : <<req.by, i>> \in asked
  /\ StaysInside

IInv == TypeOK /\ Written /\ Routed /\ Zoned /\ Questioned
-----------------------------------------------------------------------------
(***************************************************************************)
(* The operators of the model                                              *)
(***************************************************************************)
\* Tunnels are numbers from one on, and there are finitely many.
LEMMA Tunnels ==
  ASSUME ports \in Configs
  PROVE  Tunnel \subseteq Nat \ {0} /\ IsFiniteSet(Tunnel) /\ ports \in [Tunnel -> Nat]
<1>1. ports \in Seq(Nat)
  BY ConfigsAssumption
<1>2. Tunnel = 1..Len(ports) /\ Len(ports) \in Nat
  BY <1>1 DEF Tunnel
<1>3. IsFiniteSet(1..Len(ports))
  BY <1>2, FS_Interval
<1>4. ports \in [Tunnel -> Nat]
  BY <1>1, <1>2
<1> QED
  BY <1>2, <1>3, <1>4

\* refreshPAC hands each rule over once, whatever the order of the map.
LEMMA ByNameOrders ==
  ASSUME ports \in Configs, NEW S \in SUBSET Tunnel, NEW order \in SetToSeqs(S)
  PROVE  Range(order) = S /\ ByName(order) \in Seq(S) /\ Range(ByName(order)) = S
<1>1. IsFiniteSet(S) /\ S \in SUBSET Nat
  BY Tunnels, FS_Subset
<1>2. Range(order) = S
  BY <1>1, Orders
<1>3. \E s \in SetToSeqs(S) : \A i, j \in DOMAIN s : i < j => s[i] < s[j]
  BY <1>1, Sorted DEF Rising
<1>4. ByName(order) \in SetToSeqs(S)
  BY <1>2, <1>3 DEF ByName
<1> QED
  BY <1>1, <1>2, <1>4, Orders

\* The rules of a script are those of the tunnels it is made for, all that
\* have a zone or a subnet, each with its port and its zones.
LEMMA ScriptRules ==
  ASSUME ports \in Configs, NEW S \in SUBSET Tunnel, NEW order \in SetToSeqs(S),
         NEW s, s = Script(ByName(order))
  PROVE  /\ DOMAIN s \in SUBSET Nat
         /\ \A i \in DOMAIN s :
              /\ s[i].tunnel \in S
              /\ s[i].port = ports[s[i].tunnel]
              /\ s[i].domains = NormalizeDomains(sent[s[i].tunnel].zones)
         /\ \A t \in S : NormalizeDomains(sent[t].zones) # {} =>
              \E i \in DOMAIN s : s[i].tunnel = t
<1> DEFINE ts == ByName(order)
           Rule(t) == [tunnel |-> t, port |-> ports[t],
                       domains |-> NormalizeDomains(sent[t].zones),
                       nets |-> NormalizeSubnets(sent[t].nets)]
           ruled == {i \in DOMAIN ts : Rule(ts[i]).domains # {} \/ Rule(ts[i]).nets # {}}
<1>1. s = [i \in ruled |-> Rule(ts[i])]
  BY DEF Script
<1>2. ts \in Seq(S) /\ Range(ts) = S
  BY ByNameOrders
<1> HIDE DEF ts
<1>3. DOMAIN ts \in SUBSET Nat /\ \A i \in DOMAIN ts : ts[i] \in S
  BY <1>2
<1>4. \A i \in ruled : s[i] = Rule(ts[i]) /\ i \in DOMAIN ts
  BY <1>1
<1>5. \A t \in S : \E i \in DOMAIN ts : ts[i] = t
  BY <1>2 DEF Range
<1>6. DOMAIN s = ruled
  BY <1>1
<1>7. ASSUME NEW t \in S, NormalizeDomains(sent[t].zones) # {}
      PROVE  \E i \in DOMAIN s : s[i].tunnel = t
  <2>1. PICK i \in DOMAIN ts : ts[i] = t
    BY <1>5
  <2>2. i \in ruled
    BY <1>7, <2>1
  <2>3. s[i].tunnel = t
    <3>1. s[i] = Rule(ts[i])
      BY <1>4, <2>2
    <3>2. Rule(t).tunnel = t
      OBVIOUS
    <3> HIDE DEF Rule
    <3> QED
      BY <2>1, <3>1, <3>2
  <2> HIDE DEF ruled
  <2> QED
    BY <1>6, <2>2, <2>3
<1> HIDE DEF ruled
<1> QED
  BY <1>3, <1>4, <1>6, <1>7

\* FindProxyForURL takes a rule that applies, and none only if none does.
LEMMA FirstRule ==
  ASSUME NEW s, DOMAIN s \in SUBSET Nat, NEW h
  PROVE  \/ FindProxy(s, h) = 0 /\ \A i \in DOMAIN s : ~Applies(s[i], h)
         \/ \E i \in DOMAIN s : Applies(s[i], h) /\ FindProxy(s, h) = s[i].port
<1> DEFINE hits == {i \in DOMAIN s : Applies(s[i], h)}
<1>1. CASE hits = {}
  BY <1>1 DEF FindProxy
<1>2. CASE hits # {}
  <2>1. hits \in SUBSET Nat
    OBVIOUS
  <2>2. \E i \in hits : \A j \in hits : i <= j
    <3> HIDE DEF hits
    <3> QED
      BY <1>2, <2>1, Least
  <2> DEFINE i == CHOOSE i \in hits : \A j \in hits : i <= j
  <2>3. i \in hits
    BY <2>2
  <2>4. FindProxy(s, h) = s[i].port
    BY <1>2 DEF FindProxy
  <2> HIDE DEF i
  <2> QED
    BY <2>3, <2>4
<1> QED
  BY <1>1, <1>2

\* A rule applies to a name only if it is one of its network for the resolver.
LEMMA RuleZones ==
  ASSUME sent \in [Tunnel -> Gateways], NEW t \in Tunnel, NEW h \in Hosts, h.ip = NoAddr,
         NEW r, r.domains = NormalizeDomains(sent[t].zones), Applies(r, h)
  PROVE  MatchesSplitDomain(t, h.name)
<1>1. PICK d \in r.domains : ~h.name.dots /\ Within([h.name EXCEPT !.upper = FALSE], d)
  BY DEF Applies
<1>2. PICK z \in Range(sent[t].zones) : d = Canon(z) /\ d.labels # <<>>
  BY <1>1 DEF NormalizeDomains
<1>3. h.name \in DnsName
  BY HostsAssumption
<1>4. Within(Canon(h.name), Canon(z)) /\ z.labels # <<>>
  BY <1>1, <1>2, <1>3 DEF Within, Canon, DnsName
<1> QED
  BY <1>4 DEF MatchesSplitDomain

\* Names of the network are names of the rule, but for the reverse zones.
LEMMA ZonesRule ==
  ASSUME sent \in [Tunnel -> Gateways], NEW t \in Tunnel, NEW h \in Hosts, h.ip = NoAddr,
         ~h.name.dots, ~Reverse4(h.name), MatchesSplitDomain(t, h.name),
         NEW r, r.domains = NormalizeDomains(sent[t].zones)
  PROVE  r.domains # {} /\ Applies(r, h)
<1>1. PICK z \in Range(sent[t].zones) : z.labels # <<>> /\ Within(Canon(h.name), Canon(z))
  BY DEF MatchesSplitDomain
<1>2. z \in DnsName /\ h.name \in DnsName
  BY GatewaysAssumption, HostsAssumption
<1>3. /\ z.labels \in Seq(STRING) /\ h.name.labels \in Seq(STRING)
      /\ Canon(z).labels = z.labels /\ IsSuffix(z.labels, h.name.labels)
      /\ ~Canon(z).upper
  BY <1>1, <1>2 DEF DnsName, Canon, Within
<1>4. ~Reverse4(Canon(z))
  <2> SUFFICES ASSUME Reverse4(Canon(z)) PROVE FALSE
    OBVIOUS
  <2>1. <<"in-addr", "arpa">> \in Seq({"in-addr", "arpa"})
    OBVIOUS
  <2>2. IsSuffix(<<"in-addr", "arpa">>, z.labels)
    BY <1>3 DEF Reverse4
  <2>3. IsSuffix(<<"in-addr", "arpa">>, h.name.labels)
    <3>1. \A a \in Seq({"in-addr", "arpa"}) : \A b, c \in Seq(STRING) :
            IsSuffix(a, b) /\ IsSuffix(b, c) => IsSuffix(a, c)
      BY SuffixOfSuffix
    <3> QED
      BY <1>3, <2>1, <2>2, <3>1
  <2> QED
    BY <2>3 DEF Reverse4
<1>5. Canon(z) \in r.domains
  BY <1>1, <1>3, <1>4 DEF NormalizeDomains
<1>6. Within([h.name EXCEPT !.upper = FALSE], Canon(z))
  <2>1. [h.name EXCEPT !.upper = FALSE].upper = FALSE
    BY <1>2 DEF DnsName
  <2>2. [h.name EXCEPT !.upper = FALSE].labels = h.name.labels
    BY <1>2 DEF DnsName
  <2>3. Canon(z).upper = FALSE
    BY DEF Canon
  <2> QED
    BY <1>3, <2>1, <2>2, <2>3, Zenon DEF Within
<1> QED
  BY <1>5, <1>6 DEF Applies

\* What the model says of one tunnel stays: its gateway has sent it all.
LEMMA Settled ==
  ASSUME UNCHANGED <<ports, sent>>
  PROVE  /\ Tunnel' = Tunnel /\ Request' = Request
         /\ \A t, n : MatchesSplitDomain(t, n)' <=> MatchesSplitDomain(t, n)
         /\ \A t, n : UseTunnel(t, n)' <=> UseTunnel(t, n)
<1>1. Tunnel' = Tunnel
  BY DEF Tunnel
<1>2. \A t, n : MatchesSplitDomain(t, n)' <=> MatchesSplitDomain(t, n)
  BY DEF MatchesSplitDomain
<1>3. \A t, n : UseTunnel(t, n)' <=> UseTunnel(t, n)
  BY <1>2 DEF UseTunnel
<1> QED
  BY <1>1, <1>2, <1>3 DEF Request

\* The servers of a tunnel are numbered from one on.
LEMMA Servers ==
  ASSUME TypeOK, NEW t \in Tunnel
  PROVE  LET n == Len(sent[t].servers)
         IN  /\ n \in Nat /\ DOMAIN sent[t].servers = 1..n
             /\ sent[t].servers # <<>> => n > 0
<1>1. sent[t].servers \in Seq(Nat)
  BY GatewaysAssumption DEF TypeOK
<1> DEFINE q == sent[t].servers
<1>2. q \in Seq(Nat)
  BY <1>1
<1> HIDE DEF q
<1>3. Len(q) \in Nat /\ DOMAIN q = 1..Len(q) /\ (q # <<>> => Len(q) > 0)
  BY <1>2
<1> QED
  BY <1>3 DEF q

\* What the browser finds in the script: the one proxy of a tunnel that is up,
\* and for a name a tunnel whose network it belongs to.
LEMMA Chosen ==
  ASSUME TypeOK, Written, NEW h \in Hosts
  PROVE  /\ FindProxy(script, h) = 0 => \A i \in DOMAIN script : ~Applies(script[i], h)
         /\ FindProxy(script, h) # 0 =>
              \E t \in up :
                /\ \A u \in up : ports[u] = FindProxy(script, h) <=> u = t
                /\ h.ip = NoAddr => MatchesSplitDomain(t, h.name)
<1>1. ports \in Configs /\ up \in SUBSET Tunnel /\ sent \in [Tunnel -> Gateways]
  BY DEF TypeOK
<1>2. \A t, u \in Tunnel : ports[t] # 0 /\ (ports[t] = ports[u] => t = u)
  <2>1. Validate(ports)
    BY DEF TypeOK
  <2>2. ports \in [Tunnel -> Nat]
    BY <1>1, Tunnels
  <2>3. /\ \A i \in Tunnel : ports[i] > 0
        /\ \A i, j \in Tunnel : ports[i] = ports[j] => i = j
    BY <2>1 DEF Validate, Tunnel
  <2> QED
    BY <2>2, <2>3
<1>3. PICK order \in SetToSeqs(up) : script = Script(ByName(order))
  BY DEF Written
<1>4. /\ DOMAIN script \in SUBSET Nat
      /\ \A i \in DOMAIN script :
           /\ script[i].tunnel \in up
           /\ script[i].port = ports[script[i].tunnel]
           /\ script[i].domains = NormalizeDomains(sent[script[i].tunnel].zones)
  BY <1>1, <1>3, ScriptRules
<1>5. CASE FindProxy(script, h) = 0 /\ \A i \in DOMAIN script : ~Applies(script[i], h)
  BY <1>5
<1>6. CASE \E i \in DOMAIN script : Applies(script[i], h) /\ FindProxy(script, h) = script[i].port
  <2>1. PICK i \in DOMAIN script : Applies(script[i], h) /\ FindProxy(script, h) = script[i].port
    BY <1>6
  <2> DEFINE t == script[i].tunnel
  <2>2. t \in up /\ FindProxy(script, h) = ports[t]
    BY <1>4, <2>1
  <2>3. FindProxy(script, h) # 0 /\ \A u \in up : ports[u] = FindProxy(script, h) <=> u = t
    <3>1. t \in Tunnel /\ ports[t] # 0
      BY <1>1, <1>2, <2>2
    <3> HIDE DEF t
    <3> QED
      BY <1>1, <1>2, <2>2, <3>1
  <2>4. h.ip = NoAddr => MatchesSplitDomain(t, h.name)
    BY <1>1, <1>4, <2>1, <2>2, RuleZones
  <2> QED
    BY <2>2, <2>3, <2>4
<1> QED
  BY <1>4, <1>5, <1>6, FirstRule
-----------------------------------------------------------------------------
(***************************************************************************)
(* The steps                                                               *)
(***************************************************************************)
\* A step of the manager: the rules change, no request does.
Ruling ==
  /\ up' \in SUBSET Tunnel /\ Refresh
  /\ UNCHANGED <<ports, sent, req, asked>>

LEMMA InitInv == Init => IInv
<1> SUFFICES ASSUME Init PROVE IInv
  OBVIOUS
<1>1. ports \in Configs /\ Validate(ports) /\ sent \in [Tunnel -> Gateways]
  BY DEF Init
<1>2. /\ req.at = "idle" /\ req.by = 0 /\ req.rule = 0 /\ ~req.scripted
      /\ req = NoReq /\ asked = {} /\ up = {} /\ script = <<>>
  BY DEF Init, NoReq
<1>3. NoReq \in Request
  <2>1. (CHOOSE h \in Hosts : TRUE) \in Hosts
    BY HostsAssumption
  <2> QED
    BY <2>1 DEF NoReq, Request
<1>4. TypeOK
  BY <1>1, <1>2, <1>3 DEF TypeOK
<1>5. Written
  <2>1. <<>> \in SetToSeqs({})
    BY FS_EmptySet DEF SetToSeqs
  <2>2. ByName(<<>>) \in Seq({})
    BY <1>1, <2>1, ByNameOrders
  <2>3. ByName(<<>>) = <<>>
    BY <2>2
  <2>4. Script(<<>>) = <<>>
    BY DEF Script
  <2> QED
    BY <1>2, <2>1, <2>3, <2>4 DEF Written
<1>6. Routed /\ Zoned /\ Questioned
  BY <1>2 DEF Routed, RightNetwork, Zoned, Questioned, StaysInside, System
<1> QED
  BY <1>4, <1>5, <1>6 DEF IInv

\* What a step is: the rules change, or the request moves on.
LEMMA Cases ==
  ASSUME TypeOK, [Next]_vars
  PROVE  /\ UNCHANGED <<ports, sent>>
         /\ Ruling \/ UNCHANGED <<up, script>>
         /\ \/ UNCHANGED <<req, asked>>
            \/ \E h \in Hosts : Browse(h) \/ \E t \in Tunnel : UseProxy(h, t)
            \/ Step \/ Again
<1>1. ASSUME NEW t \in Tunnel, Connect(t) \/ Disconnect(t) PROVE Ruling
  BY <1>1 DEF Connect, Disconnect, Ruling, TypeOK
<1>2. ASSUME RefreshAgain PROVE Ruling
  BY <1>2 DEF RefreshAgain, Ruling, TypeOK
<1>3. ASSUME Ruling PROVE UNCHANGED <<ports, sent, req, asked>>
  BY <1>3 DEF Ruling
<1>4. ASSUME NEW h \in Hosts, Browse(h) \/ \E t \in Tunnel : UseProxy(h, t)
      PROVE  UNCHANGED <<ports, sent, up, script>>
  BY <1>4 DEF Browse, UseProxy
<1>5. ASSUME Step \/ Again PROVE UNCHANGED <<ports, sent, up, script>>
  BY <1>5 DEF Step, Dial, Resolve, Answer, Truncated, QueryFails, AskSystem, Again
<1>6. CASE UNCHANGED vars
  BY <1>6 DEF vars
<1>7. CASE Next
  BY <1>1, <1>2, <1>3, <1>4, <1>5, <1>7 DEF Next
<1> QED
  BY <1>6, <1>7

\* The script after a step is that of the tunnels that are up then.
LEMMA WrittenStep ==
  ASSUME TypeOK, Written, [Next]_vars
  PROVE  Written' /\ up' \subseteq Tunnel /\ \A i \in DOMAIN script' : script'[i].tunnel \in Tunnel
<1>1. UNCHANGED <<ports, sent>> /\ (Ruling \/ UNCHANGED <<up, script>>)
  BY Cases
<1>2. CASE Ruling
  <2>1. PICK order \in SetToSeqs(up') : script' = Script(ByName(order))
    BY <1>2 DEF Ruling, Refresh
  <2>2. up' \in SUBSET Tunnel
    BY <1>2 DEF Ruling
  <2>3. \A i \in DOMAIN script' : script'[i].tunnel \in up'
    BY <2>1, <2>2, ScriptRules DEF TypeOK
  <2>4. Script(ByName(order))' = Script(ByName(order))
    BY <1>1 DEF Script
  <2>5. Written'
    BY <2>1, <2>4 DEF Written
  <2> QED
    BY <2>2, <2>3, <2>5
<1>3. CASE UNCHANGED <<up, script>>
  <2>1. PICK order \in SetToSeqs(up) : script = Script(ByName(order))
    BY DEF Written
  <2>2. Script(ByName(order))' = Script(ByName(order))
    BY <1>1 DEF Script
  <2>3. Written'
    BY <1>3, <2>1, <2>2 DEF Written
  <2> QED
    BY <1>3, <2>3 DEF TypeOK
<1> QED
  BY <1>1, <1>2, <1>3

\* The server that is asked is one of the tunnel of the request.
Asking == <<req.by, req.server>> \in Tunnel \X (Nat \ {0})

LEMMA AskingOK ==
  ASSUME TypeOK, Routed, req.at \in {"udp", "tcp"}
  PROVE  Asking /\ req.server \in 1..Len(sent[req.by].servers)
<1>1. req.by \in Tunnel /\ req.server \in DOMAIN sent[req.by].servers
  BY DEF TypeOK, Routed
<1>2. Len(sent[req.by].servers) \in Nat /\ DOMAIN sent[req.by].servers = 1..Len(sent[req.by].servers)
  BY <1>1, Servers
<1> QED
  BY <1>1, <1>2 DEF Asking

LEMMA TypeStep ==
  ASSUME TypeOK, Written, Routed, [Next]_vars
  PROVE  TypeOK'
<1> DEFINE Good(r, a) ==
             /\ r \in Request
             /\ r.at \in {"udp", "tcp"} => r.server \in DOMAIN sent[r.by].servers
             /\ a \subseteq {System} \cup (Tunnel \X (Nat \ {0}))
<1>1. /\ UNCHANGED <<ports, sent>>
      /\ \/ UNCHANGED <<req, asked>>
         \/ \E h \in Hosts : Browse(h) \/ \E t \in Tunnel : UseProxy(h, t)
         \/ Step \/ Again
  BY Cases
<1>2. up' \subseteq Tunnel /\ \A i \in DOMAIN script' : script'[i].tunnel \in Tunnel
  BY WrittenStep
<1>3. Tunnel' = Tunnel /\ Request' = Request
  BY <1>1, Settled
<1>4. Good(req, asked)
  BY DEF TypeOK
<1>5. /\ req.at \in {"idle", "dial", "resolve", "udp", "tcp", "system", "done"}
      /\ req.host \in Hosts /\ req.rule \in Tunnel \cup {0} /\ req.port \in Nat
      /\ req.scripted \in BOOLEAN /\ req.by \in Tunnel \cup {0} /\ req.server \in Nat
  BY <1>4 DEF Request
<1>6. ports \in [Tunnel -> Nat] /\ up \subseteq Tunnel
  BY Tunnels DEF TypeOK
<1> SUFFICES Good(req', asked')
  BY <1>1, <1>2, <1>3 DEF TypeOK
<1>7. CASE UNCHANGED <<req, asked>>
  BY <1>4, <1>7
<1>8. ASSUME NEW h \in Hosts, Browse(h)
      PROVE  Good(req', asked')
  <2> DEFINE p == FindProxy(script, h)
             t == CHOOSE u \in up : ports[u] = p
  <2>1. p = 0 \/ (p \in Nat /\ t \in Tunnel)
    <3>1. ASSUME p # 0 PROVE p \in Nat /\ t \in Tunnel
      <4>1. PICK u \in up : ports[u] = p
        BY <3>1, Chosen
      <4> QED
        BY <1>6, <4>1
    <3> HIDE DEF p, t
    <3> QED
      BY <3>1
  <2>2. /\ asked' = asked
        /\ req' = [req EXCEPT !.host = h, !.port = p, !.scripted = TRUE,
                              !.at = IF p = 0 THEN "done" ELSE "dial",
                              !.source = IF p = 0 THEN "direct" ELSE "none",
                              !.rule = IF p = 0 THEN 0 ELSE t]
    BY <1>8 DEF Browse
  <2> HIDE DEF p, t
  <2>3. req' \in Request
    <3>1. CASE p = 0
      BY <1>4, <2>2, <3>1 DEF Request
    <3>2. CASE p # 0
      BY <1>4, <2>1, <2>2, <3>2 DEF Request
    <3> QED
      BY <3>1, <3>2
  <2>4. req'.at \in {"done", "dial"}
    BY <1>4, <2>2 DEF Request
  <2> QED
    BY <1>4, <2>2, <2>3, <2>4
<1>9. ASSUME NEW h \in Hosts, NEW t \in Tunnel, UseProxy(h, t)
      PROVE  Good(req', asked')
  <2>1. ports[t] \in Nat
    BY <1>6
  <2> QED
    BY <1>4, <1>9, <2>1 DEF UseProxy, Request
<1>10. CASE Dial
  <2> DEFINE here == {t \in up : ports[t] = req.port}
  <2>1. here # {} => (CHOOSE t \in here : TRUE) \in Tunnel
    BY <1>6
  <2>2. /\ asked' = asked
        /\ req' = IF here = {} THEN [req EXCEPT !.at = "done", !.source = "refused"]
                  ELSE [req EXCEPT !.at = "resolve", !.by = CHOOSE t \in here : TRUE]
    BY <1>10 DEF Dial
  <2> HIDE DEF here
  <2> QED
    BY <1>4, <2>1, <2>2 DEF Request
<1>11. CASE Resolve
  <2>1. req.by \in Tunnel
    BY <1>11 DEF Resolve, Routed
  <2>2. UseTunnel(req.by, req.host.name) => 1 \in DOMAIN sent[req.by].servers
    BY <2>1, Servers DEF UseTunnel
  <2> QED
    BY <1>4, <1>11, <2>2 DEF Resolve, Request
<1>12. CASE Answer \/ Truncated
  <2>1. asked' = asked \cup {<<req.by, req.server>>} /\ Asking
    BY <1>12, AskingOK DEF Answer, Truncated, Ask
  <2>2. \/ req' = [req EXCEPT !.at = "done", !.source = "vpn"]
        \/ req.at = "udp" /\ req' = [req EXCEPT !.at = "tcp"]
    BY <1>12 DEF Answer, Truncated
  <2> QED
    BY <1>4, <2>1, <2>2 DEF Asking, Request
<1>13. CASE QueryFails
  <2> DEFINE n == Len(sent[req.by].servers)
  <2>1. /\ asked' = asked \cup {<<req.by, req.server>>} /\ Asking
        /\ req.server \in 1..n /\ req.by \in Tunnel
    BY <1>13, AskingOK DEF QueryFails, Ask, Routed
  <2>2. n \in Nat /\ DOMAIN sent[req.by].servers = 1..n
    BY <2>1, Servers
  <2>3. req' = IF req.server < n THEN [req EXCEPT !.at = "udp", !.server = @ + 1]
               ELSE GiveUp(req)
    BY <1>13 DEF QueryFails
  <2>4. GiveUp(req) \in {[req EXCEPT !.at = "done", !.source = "failed"],
                         [req EXCEPT !.at = "system"]}
    BY DEF GiveUp
  <2>5. req.server < n => req.server + 1 \in 1..n
    BY <2>1, <2>2
  <2> HIDE DEF n
  <2>6. CASE req.server < n
    <3>1. req' = [req EXCEPT !.at = "udp", !.server = req.server + 1] /\ req.server + 1 \in Nat
      BY <2>2, <2>3, <2>5, <2>6
    <3>2. /\ req' \in Request /\ req'.server = req.server + 1 /\ req'.by = req.by
      BY <1>4, <3>1 DEF Request
    <3> QED
      BY <1>4, <2>1, <2>2, <2>5, <2>6, <3>2 DEF Asking
  <2>7. CASE ~(req.server < n)
    BY <1>4, <2>1, <2>3, <2>4, <2>7 DEF Asking, Request
  <2> QED
    BY <2>6, <2>7
<1>14. CASE AskSystem
  BY <1>4, <1>14 DEF AskSystem, Request
<1>15. CASE Again
  <2>1. NoReq \in Request
    <3>1. (CHOOSE h \in Hosts : TRUE) \in Hosts
      BY HostsAssumption
    <3> QED
      BY <3>1 DEF NoReq, Request
  <2> QED
    BY <1>15, <2>1 DEF Again, NoReq
<1> HIDE DEF Good
<1> QED
  BY <1>1, <1>7, <1>8, <1>9, <1>10, <1>11, <1>12, <1>13, <1>14, <1>15 DEF Step

\* The steps after the choice of a proxy keep the host and the rule.
LEMMA Carried ==
  ASSUME TypeOK, Step
  PROVE  /\ req'.host = req.host /\ req'.rule = req.rule /\ req'.scripted = req.scripted
         /\ req.at # "dial" => req'.by = req.by /\ req'.at \in {"done", "udp", "tcp", "system"}
<1>1. req \in Request
  BY DEF TypeOK
<1>2. CASE Dial
  BY <1>1, <1>2 DEF Dial, Request
<1>3. CASE Resolve
  BY <1>1, <1>3 DEF Resolve, Request
<1>4. CASE Answer \/ Truncated
  BY <1>1, <1>4 DEF Answer, Truncated, Request
<1>5. CASE QueryFails
  <2>1. req' = IF req.server < Len(sent[req.by].servers)
               THEN [req EXCEPT !.at = "udp", !.server = req.server + 1]
               ELSE GiveUp(req)
    BY <1>5 DEF QueryFails
  <2>2. GiveUp(req) \in {[req EXCEPT !.at = "done", !.source = "failed"],
                         [req EXCEPT !.at = "system"]}
    BY DEF GiveUp
  <2> QED
    BY <1>1, <2>1, <2>2 DEF Request
<1>6. CASE AskSystem
  BY <1>1, <1>6 DEF AskSystem, Request
<1> QED
  BY <1>2, <1>3, <1>4, <1>5, <1>6 DEF Step

\* A request that is answered is answered behind the port of its rule: no two
\* tunnels have one port.
LEMMA RoutedStep ==
  ASSUME TypeOK, Written, Routed, [Next]_vars
  PROVE  Routed'
<1> DEFINE Good(r, a) ==
             /\ r.at = "idle" => r = NoReq
             /\ r.at \in {"idle", "dial", "resolve"} => a = {}
             /\ r.at = "dial" => r.rule \in Tunnel /\ r.port = ports[r.rule] /\ r.by = 0
             /\ r.at \in {"resolve", "udp", "tcp", "system"} => r.by \in Tunnel
             /\ r.by # 0 => r.by = r.rule
<1>1. /\ UNCHANGED <<ports, sent>>
      /\ \/ UNCHANGED <<req, asked>>
         \/ \E h \in Hosts : Browse(h) \/ \E t \in Tunnel : UseProxy(h, t)
         \/ Step \/ Again
  BY Cases
<1>2. Good(req, asked) /\ req \in Request
  BY DEF Routed, RightNetwork, TypeOK
<1>3. /\ up \subseteq Tunnel
      /\ \A t, u \in Tunnel : ports[t] = ports[u] => t = u
  <2>1. up \subseteq Tunnel /\ Validate(ports)
    BY DEF TypeOK
  <2> QED
    BY <2>1 DEF Validate, Tunnel
<1> SUFFICES Good(req', asked')
  <2>1. Tunnel' = Tunnel /\ NoReq' = NoReq
    BY <1>1, Settled DEF NoReq
  <2> QED
    BY <1>1, <2>1 DEF Routed, RightNetwork
<1>4. CASE UNCHANGED <<req, asked>>
  BY <1>2, <1>4
<1>5. ASSUME NEW h \in Hosts, Browse(h)
      PROVE  Good(req', asked')
  <2> DEFINE p == FindProxy(script, h)
             t == CHOOSE u \in up : ports[u] = p
  <2>1. p = 0 \/ (ports[t] = p /\ t \in Tunnel)
    <3>1. ASSUME p # 0 PROVE ports[t] = p /\ t \in Tunnel
      <4>1. PICK u \in up : ports[u] = p
        BY <3>1, Chosen
      <4> QED
        BY <1>3, <4>1
    <3> HIDE DEF p, t
    <3> QED
      BY <3>1
  <2>2. /\ asked' = asked /\ req.at = "idle"
        /\ req' = [req EXCEPT !.host = h, !.port = p, !.scripted = TRUE,
                              !.at = IF p = 0 THEN "done" ELSE "dial",
                              !.source = IF p = 0 THEN "direct" ELSE "none",
                              !.rule = IF p = 0 THEN 0 ELSE t]
    BY <1>5 DEF Browse
  <2>3. asked' = {} /\ req.by = 0
    BY <1>2, <2>2 DEF NoReq
  <2> HIDE DEF p, t
  <2>4. /\ req'.by = 0 /\ req'.at = (IF p = 0 THEN "done" ELSE "dial")
        /\ req'.rule = (IF p = 0 THEN 0 ELSE t) /\ req'.port = p
    BY <1>2, <2>2, <2>3 DEF Request
  <2> QED
    BY <2>1, <2>3, <2>4
<1>6. ASSUME NEW h \in Hosts, NEW t \in Tunnel, UseProxy(h, t)
      PROVE  Good(req', asked')
  <2>1. asked' = {} /\ req.by = 0
    BY <1>2, <1>6 DEF UseProxy, NoReq
  <2>2. /\ req'.by = 0 /\ req'.at = "dial" /\ req'.rule = t /\ req'.port = ports[t]
    BY <1>2, <1>6, <2>1 DEF UseProxy, Request
  <2> QED
    BY <2>1, <2>2
<1>7. CASE Dial
  <2> DEFINE here == {t \in up : ports[t] = req.port}
             t == CHOOSE t \in here : TRUE
  <2>1. /\ asked' = asked /\ req.at = "dial"
        /\ req' = IF here = {} THEN [req EXCEPT !.at = "done", !.source = "refused"]
                  ELSE [req EXCEPT !.at = "resolve", !.by = t]
    BY <1>7 DEF Dial
  <2>2. req.rule \in Tunnel /\ req.port = ports[req.rule] /\ req.by = 0 /\ asked = {}
    BY <1>2, <2>1
  <2>3. here # {} => t = req.rule
    <3>1. here # {} => t \in here
      OBVIOUS
    <3> QED
      BY <1>3, <2>2, <3>1
  <2> HIDE DEF here, t
  <2>4. CASE here = {}
    BY <1>2, <2>1, <2>2, <2>4 DEF Request
  <2>5. CASE here # {}
    <3>1. req'.at = "resolve" /\ req'.by = req.rule /\ req'.rule = req.rule
      BY <1>2, <2>1, <2>3, <2>5 DEF Request
    <3> QED
      BY <2>1, <2>2, <3>1
  <2> QED
    BY <2>4, <2>5
<1>8. CASE Resolve \/ Answer \/ Truncated \/ QueryFails \/ AskSystem
  <2>1. req.at \in {"resolve", "udp", "tcp", "system"}
    BY <1>8 DEF Resolve, Answer, Truncated, QueryFails, AskSystem
  <2>2. /\ req'.by = req.by /\ req'.rule = req.rule
        /\ req'.at \in {"done", "udp", "tcp", "system"}
    BY <1>8, <2>1, Carried DEF Step
  <2> QED
    BY <1>2, <2>1, <2>2
<1>9. CASE Again
  BY <1>9 DEF Again, NoReq
<1> HIDE DEF Good
<1> QED
  BY <1>1, <1>4, <1>5, <1>6, <1>7, <1>8, <1>9 DEF Step

\* A name that a rule sends to a tunnel stays a name of this tunnel's network.
LEMMA ZonedStep ==
  ASSUME TypeOK, Written, Routed, Zoned, [Next]_vars
  PROVE  Zoned'
<1> DEFINE Good(r) ==
             r.scripted /\ r.rule # 0 /\ r.host.ip = NoAddr =>
               MatchesSplitDomain(r.rule, r.host.name)
<1>1. /\ UNCHANGED <<ports, sent>>
      /\ \/ UNCHANGED <<req, asked>>
         \/ \E h \in Hosts : Browse(h) \/ \E t \in Tunnel : UseProxy(h, t)
         \/ Step \/ Again
  BY Cases
<1>2. Good(req) /\ req \in Request
  BY DEF Zoned, TypeOK
<1> SUFFICES Good(req')
  <2>1. \A t, n : MatchesSplitDomain(t, n)' <=> MatchesSplitDomain(t, n)
    BY <1>1, Settled
  <2>2. NoAddr' = NoAddr
    BY DEF NoAddr
  <2>3. Zoned' <=>
          (req'.scripted /\ req'.rule # 0 /\ req'.host.ip = NoAddr =>
             MatchesSplitDomain(req.rule, req.host.name)')
    BY <2>2 DEF Zoned
  <2>4. MatchesSplitDomain(req.rule, req.host.name)' <=> MatchesSplitDomain(req'.rule, req'.host.name)
    BY <1>1 DEF MatchesSplitDomain
  <2> QED
    BY <2>3, <2>4
<1>3. CASE UNCHANGED <<req, asked>>
  BY <1>2, <1>3
<1>4. ASSUME NEW h \in Hosts, Browse(h)
      PROVE  Good(req')
  <2> DEFINE p == FindProxy(script, h)
             t == CHOOSE u \in up : ports[u] = p
  <2>1. p # 0 /\ h.ip = NoAddr => MatchesSplitDomain(t, h.name)
    <3>1. ASSUME p # 0, h.ip = NoAddr PROVE MatchesSplitDomain(t, h.name)
      <4>1. PICK v \in up : /\ \A u \in up : ports[u] = p <=> u = v
                            /\ h.ip = NoAddr => MatchesSplitDomain(v, h.name)
        BY <3>1, Chosen
      <4>2. t = v
        BY <4>1
      <4> QED
        BY <3>1, <4>1, <4>2
    <3> HIDE DEF p, t
    <3> QED
      BY <3>1
  <2>2. req' = [req EXCEPT !.host = h, !.port = p, !.scripted = TRUE,
                           !.at = IF p = 0 THEN "done" ELSE "dial",
                           !.source = IF p = 0 THEN "direct" ELSE "none",
                           !.rule = IF p = 0 THEN 0 ELSE t]
    BY <1>4 DEF Browse
  <2> HIDE DEF p, t
  <2>3. req'.host = h /\ req'.rule = (IF p = 0 THEN 0 ELSE t)
    BY <1>2, <2>2 DEF Request
  <2> QED
    BY <2>1, <2>3
<1>5. ASSUME NEW h \in Hosts, NEW t \in Tunnel, UseProxy(h, t)
      PROVE  Good(req')
  <2>1. ~req.scripted
    BY <1>5 DEF UseProxy, Routed, NoReq
  <2>2. ~req'.scripted
    BY <1>2, <1>5, <2>1 DEF UseProxy, Request
  <2> QED
    BY <2>2
<1>6. CASE Step
  BY <1>2, <1>6, Carried
<1>7. CASE Again
  BY <1>7 DEF Again, NoReq
<1> HIDE DEF Good
<1> QED
  BY <1>1, <1>3, <1>4, <1>5, <1>6, <1>7

\* The system is asked last, and only for what is none of the network's.
LEMMA QuestionedStep ==
  ASSUME TypeOK, Written, Routed, Zoned, Questioned, [Next]_vars
  PROVE  Questioned'
<1> DEFINE
      All(r, a) == UseTunnel(r.by, r.host.name) =>
                     \A i \in DOMAIN sent[r.by].servers : <<r.by, i>> \in a
      Put(r, a) ==
        r.at \in {"udp", "tcp"} =>
          /\ r.host.ip = NoAddr /\ System \notin a
          /\ UseTunnel(r.by, r.host.name)
          /\ \A i \in 1..(r.server - 1) : <<r.by, i>> \in a
      Left(r, a) ==
        r.at = "system" =>
          /\ r.host.ip = NoAddr /\ System \notin a
          /\ sent[r.by].servers # <<>> =>
               ~MatchesSplitDomain(r.by, r.host.name) /\ All(r, a)
      Inside(r, a) ==
        r.by # 0 /\ sent[r.by].servers # <<>> /\ System \in a =>
          ~r.scripted /\ ~MatchesSplitDomain(r.by, r.host.name) /\ All(r, a)
      Good(r, a) == Put(r, a) /\ Left(r, a) /\ Inside(r, a)
<1>1. /\ UNCHANGED <<ports, sent>>
      /\ \/ UNCHANGED <<req, asked>>
         \/ \E h \in Hosts : Browse(h) \/ \E t \in Tunnel : UseProxy(h, t)
         \/ Step \/ Again
  BY Cases
<1>2. Good(req, asked) /\ req \in Request
  BY DEF Questioned, StaysInside, TypeOK
<1> SUFFICES Good(req', asked')
  <2>1. /\ MatchesSplitDomain(req.by, req.host.name)' <=> MatchesSplitDomain(req'.by, req'.host.name)
        /\ UseTunnel(req.by, req.host.name)' <=> UseTunnel(req'.by, req'.host.name)
    BY <1>1 DEF UseTunnel, MatchesSplitDomain
  <2>2. NoAddr' = NoAddr /\ System' = System
    BY DEF NoAddr, System
  <2>3. Questioned' <=>
          /\ req'.at \in {"udp", "tcp"} =>
               /\ req'.host.ip = NoAddr /\ System \notin asked'
               /\ UseTunnel(req.by, req.host.name)'
               /\ \A i \in 1..(req'.server - 1) : <<req'.by, i>> \in asked'
          /\ req'.at = "system" =>
               /\ req'.host.ip = NoAddr /\ System \notin asked'
               /\ sent[req'.by].servers # <<>> =>
                    /\ ~MatchesSplitDomain(req.by, req.host.name)'
                    /\ UseTunnel(req.by, req.host.name)' =>
                         \A i \in DOMAIN sent[req'.by].servers : <<req'.by, i>> \in asked'
          /\ StaysInside'
    BY <1>1, <2>2 DEF Questioned
  <2>4. StaysInside' <=>
          (req'.by # 0 /\ sent[req'.by].servers # <<>> /\ System \in asked' =>
             /\ ~req'.scripted /\ ~MatchesSplitDomain(req.by, req.host.name)'
             /\ UseTunnel(req.by, req.host.name)' =>
                  \A i \in DOMAIN sent[req'.by].servers : <<req'.by, i>> \in asked')
    BY <1>1, <2>2 DEF StaysInside
  <2> QED
    BY <2>1, <2>3, <2>4
<1>3. CASE UNCHANGED <<req, asked>>
  BY <1>2, <1>3
<1>4. ASSUME NEW h \in Hosts, Browse(h) \/ \E t \in Tunnel : UseProxy(h, t)
      PROVE  Good(req', asked')
  <2>1. asked' = {}
    BY <1>4 DEF Browse, UseProxy, Routed
  <2>2. req'.at \in {"done", "dial"}
    BY <1>2, <1>4 DEF Browse, UseProxy, Request
  <2> QED
    BY <2>1, <2>2
<1>5. CASE Dial
  <2>1. asked' = {}
    BY <1>5 DEF Dial, Routed
  <2>2. req'.at \in {"done", "resolve"}
    BY <1>2, <1>5 DEF Dial, Request
  <2> QED
    BY <2>1, <2>2
<1>6. CASE Again
  BY <1>6 DEF Again, NoReq
<1>7. ASSUME Step, ~Dial
      PROVE  req'.by = req.by /\ req'.host = req.host /\ req'.scripted = req.scripted /\ req.by \in Tunnel
  <2>1. req.at \in {"resolve", "udp", "tcp", "system"}
    BY <1>7 DEF Step, Resolve, Answer, Truncated, QueryFails, AskSystem
  <2> QED
    BY <1>7, <2>1, Carried DEF Routed
<1>8. ASSUME req.by \in Tunnel
      PROVE  <<req.by, req.server>> # System
  BY <1>8, Tunnels DEF System, TypeOK
<1>9. CASE Resolve
  <2>1. asked' = {} /\ ~Dial
    BY <1>9 DEF Resolve, Routed, Dial
  <2>2. CASE req.host.ip # NoAddr
    <3>1. req'.at = "done"
      BY <1>2, <1>9, <2>2 DEF Resolve, Request
    <3> QED
      BY <2>1, <3>1
  <2>3. CASE req.host.ip = NoAddr /\ UseTunnel(req.by, req.host.name)
    <3>1. req'.at = "udp" /\ req'.server = 1
      BY <1>2, <1>9, <2>3 DEF Resolve, Request
    <3> QED
      BY <1>7, <1>9, <2>1, <2>3, <3>1 DEF Step
  <2>4. CASE req.host.ip = NoAddr /\ ~UseTunnel(req.by, req.host.name)
    <3>1. req'.at = "system"
      BY <1>2, <1>9, <2>4 DEF Resolve, Request
    <3>2. sent[req.by].servers # <<>> => ~MatchesSplitDomain(req.by, req.host.name)
      BY <2>4 DEF UseTunnel
    <3> QED
      BY <1>7, <1>9, <2>1, <2>4, <3>1, <3>2 DEF Step
  <2> QED
    BY <2>2, <2>3, <2>4
<1>10. CASE Answer \/ Truncated
  <2>1. /\ req.at \in {"udp", "tcp"} /\ ~Dial
        /\ asked' = asked \cup {<<req.by, req.server>>}
    BY <1>10 DEF Answer, Truncated, Dial, Ask
  <2>2. System \notin asked'
    BY <1>2, <1>7, <1>8, <1>10, <2>1 DEF Step
  <2>3. req'.at = "done" \/ (req'.at = "tcp" /\ req'.server = req.server)
    BY <1>2, <1>10 DEF Answer, Truncated, Request
  <2> QED
    BY <1>2, <1>7, <1>10, <2>1, <2>2, <2>3 DEF Step
<1>11. CASE QueryFails
  <2> DEFINE n == Len(sent[req.by].servers)
  <2>1. /\ req.at \in {"udp", "tcp"} /\ ~Dial
        /\ asked' = asked \cup {<<req.by, req.server>>}
        /\ req' = IF req.server < n THEN [req EXCEPT !.at = "udp", !.server = req.server + 1]
                  ELSE GiveUp(req)
    BY <1>11 DEF QueryFails, Dial, Ask
  <2>2. System \notin asked'
    BY <1>2, <1>7, <1>8, <1>11, <2>1 DEF Step
  <2>3. req.server \in 1..n /\ n \in Nat /\ DOMAIN sent[req.by].servers = 1..n
    BY <1>7, <1>11, <2>1, AskingOK, Servers DEF Step
  <2>4. \A i \in 1..req.server : <<req.by, i>> \in asked'
    <3> SUFFICES ASSUME NEW i \in 1..req.server, i # req.server
                 PROVE  <<req.by, i>> \in asked
      BY <2>1
    <3>1. i \in 1..(req.server - 1)
      BY <2>3
    <3> QED
      BY <1>2, <2>1, <3>1
  <2> HIDE DEF n
  <2>5. CASE req.server < n
    <3>1. req'.at = "udp" /\ req'.server = req.server + 1 /\ req'.server - 1 = req.server
      BY <1>2, <2>1, <2>3, <2>5 DEF Request
    <3> QED
      BY <1>2, <1>7, <1>11, <2>1, <2>2, <2>4, <3>1 DEF Step
  <2>6. CASE ~(req.server < n)
    <3>1. req.server = n /\ req' = GiveUp(req)
      BY <2>1, <2>3, <2>6
    <3>2. All(req, asked')
      BY <2>3, <2>4, <3>1
    <3>3. CASE MatchesSplitDomain(req.by, req.host.name)
      <4>1. req'.at = "done"
        BY <1>2, <3>1, <3>3 DEF GiveUp, Request
      <4> QED
        BY <2>2, <4>1
    <3>4. CASE ~MatchesSplitDomain(req.by, req.host.name)
      <4>1. req'.at = "system"
        BY <1>2, <3>1, <3>4 DEF GiveUp, Request
      <4> QED
        BY <1>2, <1>7, <1>11, <2>1, <2>2, <3>2, <3>4, <4>1 DEF Step
    <3> QED
      BY <3>3, <3>4
  <2> QED
    BY <2>5, <2>6
<1>12. CASE AskSystem
  <2>1. req.at = "system" /\ ~Dial /\ asked' = asked \cup {System}
    BY <1>12 DEF AskSystem, Dial
  <2>2. req'.at = "done"
    BY <1>2, <1>12 DEF AskSystem, Request
  <2>3. /\ req.host.ip = NoAddr
        /\ sent[req.by].servers # <<>> =>
             ~MatchesSplitDomain(req.by, req.host.name) /\ All(req, asked)
    BY <1>2, <2>1
  <2>4. req.by # 0 /\ sent[req.by].servers # <<>> => ~req.scripted
    BY <2>3 DEF Zoned, Routed, RightNetwork
  <2>5. All(req, asked) => All(req, asked')
    BY <2>1
  <2> QED
    BY <1>7, <1>12, <2>1, <2>2, <2>3, <2>4, <2>5 DEF Step
<1> HIDE DEF Good
<1> QED
  BY <1>1, <1>3, <1>4, <1>5, <1>6, <1>9, <1>10, <1>11, <1>12 DEF Step
-----------------------------------------------------------------------------
(***************************************************************************)
(* The theorems                                                            *)
(***************************************************************************)
\* The invariant holds in every state.
LEMMA Invariant == Spec => []IInv
<1>1. IInv /\ [Next]_vars => IInv'
  BY TypeStep, WrittenStep, RoutedStep, ZonedStep, QuestionedStep DEF IInv
<1> QED
  BY InitInv, <1>1, PTL DEF Spec

\* The variables have their types in every state.
THEOREM TypeCorrect == Spec => []TypeOK
<1>1. IInv => TypeOK
  BY DEF IInv
<1> QED
  BY <1>1, Invariant, PTL

\* Behind a tunnel that has DNS servers the system is asked last, and only for
\* names that are none of the network's (resolver.go:72, resolver.go:121).
THEOREM InsideCorrect == Spec => []StaysInside
<1>1. IInv => StaysInside
  BY DEF IInv, Questioned
<1> QED
  BY <1>1, Invariant, PTL

\* The proxy that answers belongs to the tunnel of the rule that was chosen,
\* whatever has come and gone in between (config.go:177).
THEOREM NetworkCorrect == Spec => []RightNetwork
<1>1. IInv => RightNetwork
  BY DEF IInv, Routed
<1> QED
  BY <1>1, Invariant, PTL

\* TUN mode and SOCKS5 mode take the same names for names of a network
\* (nrpt.go:41, resolver.go:107).
THEOREM ModesCorrect == Spec => []ModesAgree
<1>1. ModesAgree
  <2> SUFFICES ASSUME NEW t \in Tunnel, NEW h \in Hosts,
                      \E s \in Range(sent[t].servers) : s # 0
               PROVE  MatchesSplitDomain(t, h.name) <=>
                        \E d \in BuildRules(t) : Within(Canon(h.name), d)
    BY DEF ModesAgree
  <2>1. BuildRules(t) = {d \in {Canon(z) : z \in Range(sent[t].zones)} : d.labels # <<>>}
    BY DEF BuildRules
  <2>2. \A z : Canon(z).labels = z.labels
    BY DEF Canon
  <2>3. \A d : d \in BuildRules(t) <=>
               \E z \in Range(sent[t].zones) : z.labels # <<>> /\ d = Canon(z)
    BY <2>1, <2>2
  <2> QED
    BY <2>3 DEF MatchesSplitDomain
<1> QED
  BY <1>1, PTL

\* No zone of a tunnel that is up is lost on the way to the browser (pac.go:76).
THEOREM ZonesCorrect == Spec => NoZoneLost
<1> DEFINE Lost == \E h \in Hosts :
                     /\ Browse(h) /\ h.ip = NoAddr /\ ~h.name.dots /\ req'.source = "direct"
                     /\ \E t \in up : MatchesSplitDomain(t, h.name) /\ ~Reverse4(h.name)
<1>1. IInv => ~Lost
  <2> SUFFICES ASSUME IInv, NEW h \in Hosts, Browse(h), h.ip = NoAddr, ~h.name.dots,
                      req'.source = "direct", NEW t \in up,
                      MatchesSplitDomain(t, h.name), ~Reverse4(h.name)
               PROVE  FALSE
    OBVIOUS
  <2>1. TypeOK /\ Written /\ req \in Request
    BY DEF IInv, TypeOK
  <2>2. FindProxy(script, h) = 0
    <3> DEFINE p == FindProxy(script, h)
    <3>1. req'.source = (IF p = 0 THEN "direct" ELSE "none")
      BY <2>1 DEF Browse, Request
    <3> QED
      BY <3>1
  <2>3. \A i \in DOMAIN script : ~Applies(script[i], h)
    BY <2>1, <2>2, Chosen
  <2>4. PICK order \in SetToSeqs(up) : script = Script(ByName(order))
    BY <2>1 DEF Written
  <2>5. ports \in Configs /\ up \in SUBSET Tunnel /\ sent \in [Tunnel -> Gateways]
    BY <2>1 DEF TypeOK
  <2>6. NormalizeDomains(sent[t].zones) # {}
    <3> DEFINE r == [domains |-> NormalizeDomains(sent[t].zones)]
    <3>1. r.domains = NormalizeDomains(sent[t].zones)
      OBVIOUS
    <3> HIDE DEF r
    <3>2. r.domains # {}
      BY <2>5, <3>1, ZonesRule
    <3> QED
      BY <3>1, <3>2
  <2>7. PICK i \in DOMAIN script : script[i].tunnel = t
    BY <2>4, <2>5, <2>6, ScriptRules
  <2>8. script[i].domains = NormalizeDomains(sent[t].zones)
    BY <2>4, <2>5, <2>7, ScriptRules
  <2>9. Applies(script[i], h)
    BY <2>5, <2>8, ZonesRule
  <2> QED
    BY <2>3, <2>9
<1>2. ~Lost =>
        \A h \in Hosts :
          Browse(h) /\ h.ip = NoAddr /\ ~h.name.dots /\ req'.source = "direct" =>
            \A t \in up : MatchesSplitDomain(t, h.name) => Reverse4(h.name)
  OBVIOUS
<1> QED
  BY <1>1, <1>2, Invariant, PTL DEF NoZoneLost

\* As long as the same tunnels are up, a host goes to the same proxy
\* (manager.go:145).
THEOREM ChoiceCorrect == Spec => StableChoice
<1> DEFINE Same == up' = up => \A h \in Hosts : FindProxy(script', h) = FindProxy(script, h)
<1>1. IInv /\ [Next]_vars => Same
  <2> SUFFICES ASSUME IInv, [Next]_vars, up' = up PROVE script' = script
    OBVIOUS
  <2>1. TypeOK /\ ports \in Configs /\ up \in SUBSET Tunnel /\ (Ruling \/ UNCHANGED script)
    BY Cases DEF IInv, TypeOK
  <2>2. CASE Ruling
    <3>1. PICK a \in SetToSeqs(up) : script = Script(ByName(a))
      BY DEF IInv, Written
    <3>2. PICK b \in SetToSeqs(up) : script' = Script(ByName(b))
      BY <2>2 DEF Ruling, Refresh
    <3>3. Range(a) = up /\ Range(b) = up
      BY <2>1, <3>1, <3>2, ByNameOrders
    <3>4. ByName(a) = ByName(b)
      BY <3>3 DEF ByName
    <3> QED
      BY <3>1, <3>2, <3>4
  <2> QED
    BY <2>1, <2>2
<1> QED
  BY <1>1, Invariant, PTL DEF StableChoice, Spec
=============================================================================
