----------------------------- MODULE Proxy_proofs -----------------------------
(* Theorems about Proxy: for all tunnels, numbers of frontend calls and of *)
(* refreshers, and all bounds.                                             *)
EXTENDS Proxy, TLAPS

Label == {"idle", "startPAC", "listen", "swap", "closeOld", "disable", "close", "snap", "set", "notify",
          "url", "addr", "nonce", "write", "flag", "clear", "unflag", "sync", "syncClear", "exit",
          "exitClear", "mode", "stop", "replace"}
OpName == {"none", "apply", "clear", "tun", "socks5", "auto", "exit"}
ProcRec == [at : Label, op : OpName, back : {"idle", "stop"}, snap : SUBSET Tunnels, of : Nat,
            srv : Server \cup {Nil}, url : Port, nonce : 0..MaxNonce, todo : SUBSET Tunnels]

Types ==
  /\ mode \in {"socks5", "tun"} /\ tunnelMode \in {"socks5", "tun"}
  /\ rules \subseteq Tunnels /\ version \in Nat
  /\ pac \in Server \cup {Nil} /\ open \subseteq Server /\ made \in 0..MaxServers
  /\ port \in [Server -> Port] /\ script \in [Server -> SUBSET Tunnels] /\ built \in [Server -> Nat]
  /\ {foreign, applied, alive, overtaken, left, missed, crossed, torn} \subseteq BOOLEAN
  /\ nonce \in 0..MaxNonce
  /\ reg \in Address \cup {None} /\ written \subseteq Address
  /\ cache \subseteq [addr : Address, rules : SUBSET Tunnels]
  /\ calls \in 0..MaxCalls /\ changes \in 0..MaxChanges
  /\ proc \in [Procs -> ProcRec]

\* Which call a process carries out, by its place.
Role(p) ==
  /\ proc[p].op = "apply" => proc[p].at \in {"url", "addr", "nonce", "write", "flag"}
  /\ At(p, "flag") => proc[p].op = "apply"
  /\ proc[p].at \in {"exit", "exitClear"} => proc[p].op = "exit"
  /\ proc[p].op = "exit" =>
       proc[p].at \in {"exit", "exitClear", "stop", "snap", "set", "notify", "url", "addr", "nonce", "write"}
  /\ proc[p].at \in {"swap", "set", "addr"} => proc[p].srv \in Server
  /\ At(p, "write") => proc[p].nonce # 0
Roles == \A p \in Procs : Role(p)

\* A server is put into use once, and closed only after that.
Servers ==
  /\ \A s \in open : s <= made
  /\ pac # Nil => pac \in open
  /\ \A s, t \in open : port[s] = port[t] => s = t
  /\ \A s \in open : port[s] \in {0, s}
  /\ \A p \in Procs : At(p, "swap") => proc[p].srv \in open \ {pac}
  /\ \A p, r \in Procs : At(p, "swap") /\ At(r, "swap") /\ proc[p].srv = proc[r].srv => p = r
  /\ \A p \in Procs : proc[p].at \in {"closeOld", "close"} /\ proc[p].srv # Nil =>
       /\ proc[p].srv <= made /\ proc[p].srv # pac
       /\ \A r \in Procs : At(r, "swap") => proc[r].srv # proc[p].srv

\* What was built from the rules of now has the rules of now.
Versions ==
  /\ \A s \in Server : built[s] <= version /\ (built[s] = version => script[s] = rules)
  /\ \A p \in Procs : At(p, "set") => proc[p].of <= version /\ (proc[p].of = version => proc[p].snap = rules)

\* A script of older rules is about to be built anew.
Rebuilt ==
  ~overtaken /\ pac # Nil /\ built[pac] # version =>
    \E p \in Procs : \/ proc[p].at \in {"closeOld", "snap"}
                     \/ At(p, "set") /\ proc[p].srv = pac /\ proc[p].of = version

\* No call writes the setting while another takes it back, or leaves.
Whole == ~torn => \A p, r \in Procs : p # r =>
  /\ ~(Clearing(p) /\ Writing(r))
  /\ ~(Leaving(p) /\ (Writing(r) \/ Clearing(r)))

\* The flag tells what is done with the setting.
Fits(p) ==
  /\ Writing(p) /\ proc[p].op # "apply" => applied
  /\ proc[p].at \in {"syncClear", "exitClear", "disable"} \/ Leaving(p) => ~applied
  /\ At(p, "flag") => reg # None
  /\ At(p, "unflag") => reg = None
Flagged == ~torn => \A p \in Procs : Fits(p)

\* Where flag and setting differ, some call is between the two, or a removal has failed.
Between ==
  /\ left => reg # None
  /\ ~crossed =>
       /\ reg # None /\ ~applied /\ ~left => \E p \in Procs : proc[p].at \in {"flag", "syncClear", "exitClear"}
       /\ reg = None /\ applied => \E p \in Procs : At(p, "unflag")
       /\ ~alive => ~applied /\ (reg # None => left)

\* Calls that are not torn do not cross, and a setting in use is not one that was left.
Untouched == ~torn => ~crossed /\ (applied \/ (\E p \in Procs : At(p, "flag")) => ~left)

\* The address to be written is that of the server in use.
Held == ~torn => \A p \in Procs :
  /\ At(p, "addr") => proc[p].srv = pac
  /\ proc[p].at \in {"nonce", "write"} => pac # Nil /\ proc[p].url = port[pac]

Refreshing(p) ==
  /\ proc[p].at \in {"closeOld", "snap", "set", "notify", "url", "addr", "nonce", "write"}
  /\ proc[p].op # "apply"
TakingBack    == \E p \in Procs : proc[p].at \in {"syncClear", "exitClear"}

\* A setting leads to the server in use, or soon will, or is being taken back.
Led == ~torn /\ ~left /\ ~missed /\ reg # None =>
  /\ pac = Nil => TakingBack
  /\ pac # Nil => port[pac] = reg.port \/ TakingBack \/ \E p \in Procs : Refreshing(p)

\* Addresses are used once.
Fresh ==
  /\ reg \in written \cup {None} /\ \A e \in cache : e.addr \in written
  /\ \A a \in written : a.nonce <= nonce
  /\ \A p \in Procs : At(p, "write") =>
       /\ proc[p].nonce \in 1..nonce /\ \A a \in written : a.nonce # proc[p].nonce
       /\ \A r \in Procs \ {p} : At(r, "write") => proc[r].nonce # proc[p].nonce

\* What the browser has read is what is served, or a new address follows.
Followed == ~torn /\ ~left /\ ~missed /\ reg # None /\ (applied \/ \E p \in Procs : At(p, "flag")) =>
  \/ \A e \in cache : e.addr = reg => pac # Nil /\ e.rules = script[pac]
  \/ \E p \in Procs : Refreshing(p)

ProxyInv ==
  /\ Types /\ Roles /\ Servers /\ Versions /\ Rebuilt
  /\ Whole /\ Flagged /\ Between /\ Untouched /\ Held /\ Led /\ Fresh /\ Followed
-----------------------------------------------------------------------------
(* The way of a process                                                    *)

Others(p)   == proc' \in [Procs -> ProcRec] /\ \A x \in Procs \ {p} : proc'[x] = proc[x]
Goes(p, l)  == Others(p) /\ proc'[p].at = l /\ proc'[p].op = proc[p].op
Ends(p)     == Others(p) /\ proc'[p] = Idle

\* A process that goes on to another place.
LEMMA Becomes ==
  ASSUME Types, NEW p \in Procs, NEW r \in ProcRec, proc' = [proc EXCEPT ![p] = r]
  PROVE  Others(p) /\ proc'[p] = r
  BY DEF Types, Others

\* A process that has nothing to do.
LEMMA IdleType ==
  /\ Idle \in ProcRec /\ Idle.at = "idle" /\ Idle.op = "none" /\ Idle.back = "idle" /\ Idle.srv = Nil
  BY BoundAssumption DEF Idle, ProcRec, Label, OpName, Server, Port, Nil

\* Where the calls of the PAC server lead their process.
LEMMA ServerMoves ==
  ASSUME Types, Roles, NEW p \in Procs
  PROVE  /\ StartPAC(p) => Goes(p, "listen") \/ Ends(p)
         /\ Listen(p) => Goes(p, "swap") /\ proc'[p].srv = made + 1
         /\ EnablePAC(p) => Goes(p, "closeOld") /\ proc'[p].srv = pac
         /\ CloseOld(p) => Goes(p, "snap")
         /\ DisablePAC(p) => Goes(p, "close") /\ proc'[p].srv = pac
         /\ CloseServer(p) => Ends(p)
<1>0. proc[p] \in ProcRec /\ made \in Nat /\ MaxServers \in Nat /\ pac \in Server \cup {Nil} /\ made <= MaxServers
  BY BoundAssumption DEF Types
<1>1. ASSUME StartPAC(p) PROVE Goes(p, "listen") \/ Ends(p)
  <2> DEFINE r == [proc[p] EXCEPT !.at = "listen"]
  <2>1. r \in ProcRec /\ r.at = "listen" /\ r.op = proc[p].op
    BY <1>0 DEF ProcRec, Label
  <2>2. proc' = [proc EXCEPT ![p] = r] \/ proc' = [proc EXCEPT ![p] = Idle]
    BY <1>1 DEF StartPAC, Goto, Done
  <2> HIDE DEF r
  <2> QED
    BY <2>1, <2>2, IdleType, Becomes DEF Goes, Ends
<1>2. ASSUME Listen(p) PROVE Goes(p, "swap") /\ proc'[p].srv = made + 1
  <2> DEFINE r == [proc[p] EXCEPT !.at = "swap", !.srv = made + 1]
  <2>0. made + 1 \in Server
    BY <1>0, <1>2 DEF Listen, Server
  <2>1. r \in ProcRec /\ r.at = "swap" /\ r.op = proc[p].op /\ r.srv = made + 1
    BY <1>0, <2>0 DEF ProcRec, Label
  <2>2. proc' = [proc EXCEPT ![p] = r]
    BY <1>2, <1>0 DEF Listen, Types
  <2> HIDE DEF r
  <2> QED
    BY <2>1, <2>2, Becomes DEF Goes
<1>3. ASSUME EnablePAC(p) PROVE Goes(p, "closeOld") /\ proc'[p].srv = pac
  <2> DEFINE r == [proc[p] EXCEPT !.at = "closeOld", !.srv = pac]
  <2>1. r \in ProcRec /\ r.at = "closeOld" /\ r.op = proc[p].op /\ r.srv = pac
    BY <1>0 DEF ProcRec, Label
  <2>2. proc' = [proc EXCEPT ![p] = r]
    BY <1>3, <1>0 DEF EnablePAC, Types
  <2> HIDE DEF r
  <2> QED
    BY <2>1, <2>2, Becomes DEF Goes
<1>4. ASSUME CloseOld(p) PROVE Goes(p, "snap")
  <2> DEFINE r == [proc[p] EXCEPT !.at = "snap", !.back = "idle", !.srv = Nil]
  <2>1. r \in ProcRec /\ r.at = "snap" /\ r.op = proc[p].op
    BY <1>0 DEF ProcRec, Label
  <2>2. proc' = [proc EXCEPT ![p] = r]
    BY <1>4 DEF CloseOld
  <2> HIDE DEF r
  <2> QED
    BY <2>1, <2>2, Becomes DEF Goes
<1>5. ASSUME DisablePAC(p) PROVE Goes(p, "close") /\ proc'[p].srv = pac
  <2> DEFINE r == [proc[p] EXCEPT !.at = "close", !.srv = pac]
  <2>1. r \in ProcRec /\ r.at = "close" /\ r.op = proc[p].op /\ r.srv = pac
    BY <1>0 DEF ProcRec, Label
  <2>2. proc' = [proc EXCEPT ![p] = r]
    BY <1>5, <1>0 DEF DisablePAC, Types
  <2> HIDE DEF r
  <2> QED
    BY <2>1, <2>2, Becomes DEF Goes
<1>6. ASSUME CloseServer(p) PROVE Ends(p)
  BY <1>6, IdleType, Becomes DEF CloseServer, Done, Ends
<1> QED
  BY <1>1, <1>2, <1>3, <1>4, <1>5, <1>6

Returns(p) == Ends(p) \/ Goes(p, "stop")

\* The end of a refresh.
LEMMA ReturnMoves ==
  ASSUME Types, NEW p \in Procs, Return(p)
  PROVE  Returns(p)
<1>0. proc[p] \in ProcRec
  BY DEF Types
<1> DEFINE r == [Idle EXCEPT !.at = proc[p].back, !.op = proc[p].op, !.todo = proc[p].todo]
<1>1. CASE proc[p].back = "idle"
  <2>1. proc' = [proc EXCEPT ![p] = Idle]
    BY <1>1 DEF Return
  <2> QED
    BY <2>1, IdleType, Becomes DEF Returns, Ends
<1>2. CASE proc[p].back # "idle"
  <2>1. proc' = [proc EXCEPT ![p] = r]
    BY <1>2 DEF Return
  <2>2. r.at = "stop" /\ r.op = proc[p].op
    BY <1>0, <1>2 DEF ProcRec, Idle
  <2>3. r \in ProcRec
    BY <1>0, IdleType DEF ProcRec, Label
  <2> HIDE DEF r
  <2> QED
    BY <2>1, <2>2, <2>3, Becomes DEF Returns, Goes
<1> QED
  BY <1>1, <1>2

\* Where refreshPAC leads.
LEMMA RefreshMoves ==
  ASSUME Types, Roles, NEW p \in Procs
  PROVE  /\ Snapshot(p) => \/ pac = Nil /\ Returns(p)
                           \/ /\ pac # Nil /\ Goes(p, "set") /\ proc'[p].srv = pac
                              /\ proc'[p].snap = rules /\ proc'[p].of = version
         /\ SetTunnels(p) => Goes(p, "notify")
         /\ OnPACChanged(p) => (applied /\ Goes(p, "url")) \/ (~applied /\ Returns(p))
<1>0. proc[p] \in ProcRec /\ pac \in Server \cup {Nil} /\ rules \subseteq Tunnels /\ version \in Nat
  BY DEF Types
<1>1. ASSUME Snapshot(p), pac # Nil
      PROVE  Goes(p, "set") /\ proc'[p].srv = pac /\ proc'[p].snap = rules /\ proc'[p].of = version
  <2> DEFINE r == [proc[p] EXCEPT !.at = "set", !.srv = pac, !.snap = rules, !.of = version]
  <2>1. r \in ProcRec /\ r.at = "set" /\ r.op = proc[p].op /\ r.srv = pac /\ r.snap = rules /\ r.of = version
    BY <1>0 DEF ProcRec, Label
  <2>2. proc' = [proc EXCEPT ![p] = r]
    BY <1>1 DEF Snapshot
  <2> HIDE DEF r
  <2> QED
    BY <2>1, <2>2, Becomes DEF Goes
<1>2. ASSUME SetTunnels(p) PROVE Goes(p, "notify")
  <2> DEFINE r == [proc[p] EXCEPT !.at = "notify", !.srv = Nil, !.snap = {}, !.of = 0]
  <2>1. r \in ProcRec /\ r.at = "notify" /\ r.op = proc[p].op
    BY <1>0 DEF ProcRec, Label
  <2>2. proc' = [proc EXCEPT ![p] = r]
    BY <1>2 DEF SetTunnels
  <2> HIDE DEF r
  <2> QED
    BY <2>1, <2>2, Becomes DEF Goes
<1>3. ASSUME OnPACChanged(p), applied PROVE Goes(p, "url")
  <2> DEFINE r == [proc[p] EXCEPT !.at = "url"]
  <2>1. r \in ProcRec /\ r.at = "url" /\ r.op = proc[p].op
    BY <1>0 DEF ProcRec, Label
  <2>2. proc' = [proc EXCEPT ![p] = r]
    BY <1>3 DEF OnPACChanged, Goto
  <2> HIDE DEF r
  <2> QED
    BY <2>1, <2>2, Becomes DEF Goes
<1> QED
  BY <1>1, <1>2, <1>3, ReturnMoves DEF Snapshot, OnPACChanged

\* The end of applyProxy.
LEMMA ApplyMoves ==
  ASSUME Types, NEW p \in Procs, NEW ok \in BOOLEAN, ApplyReturns(p, ok)
  PROVE  IF proc[p].op # "apply" THEN Returns(p) ELSE IF ok THEN Goes(p, "flag") ELSE Ends(p)
<1>1. CASE proc[p].op # "apply"
  BY <1>1, ReturnMoves DEF ApplyReturns
<1>2. CASE proc[p].op = "apply" /\ ok
  <2> DEFINE r == [Idle EXCEPT !.at = "flag", !.op = "apply"]
  <2>1. r \in ProcRec /\ r.at = "flag" /\ r.op = "apply"
    BY IdleType DEF ProcRec, Label, OpName
  <2>2. proc' = [proc EXCEPT ![p] = r]
    BY <1>2 DEF ApplyReturns
  <2> HIDE DEF r
  <2> QED
    BY <1>2, <2>1, <2>2, Becomes DEF Goes
<1>3. CASE proc[p].op = "apply" /\ ~ok
  BY <1>3, IdleType, Becomes DEF ApplyReturns, Done, Ends
<1> QED
  BY <1>1, <1>2, <1>3

\* Where applyProxy leads, and ApplySystemProxy.
LEMMA WriteMoves ==
  ASSUME Types, Roles, NEW p \in Procs
  PROVE  /\ ReadServer(p) => \/ pac = Nil /\ (Returns(p) \/ Ends(p))
                             \/ pac # Nil /\ Goes(p, "addr") /\ proc'[p].srv = pac
         /\ ReadAddress(p) => \/ proc[p].srv \notin open /\ (Returns(p) \/ Ends(p))
                              \/ proc[p].srv \in open /\ Goes(p, "nonce") /\ proc'[p].url = port[proc[p].srv]
         /\ TakeNonce(p) => Goes(p, "write") /\ proc'[p].url = proc[p].url /\ proc'[p].nonce = nonce + 1
         /\ WriteAddress(p) => \/ /\ reg' = reg /\ left' = left
                                  /\ IF proc[p].op = "apply" THEN missed' = missed /\ Ends(p) ELSE missed' /\ Returns(p)
                               \/ /\ reg' = [port |-> proc[p].url, nonce |-> proc[p].nonce] /\ ~left' /\ ~missed'
                                  /\ IF proc[p].op = "apply" THEN Goes(p, "flag") ELSE Returns(p)
         /\ SetApplied(p) => Ends(p)
<1>0. /\ proc[p] \in ProcRec /\ pac \in Server \cup {Nil} /\ port \in [Server -> Port]
      /\ nonce \in 0..MaxNonce /\ MaxNonce \in Nat
  BY BoundAssumption DEF Types
<1>1. ASSUME ReadServer(p), pac # Nil PROVE Goes(p, "addr") /\ proc'[p].srv = pac
  <2> DEFINE r == [proc[p] EXCEPT !.at = "addr", !.srv = pac]
  <2>1. r \in ProcRec /\ r.at = "addr" /\ r.op = proc[p].op /\ r.srv = pac
    BY <1>0 DEF ProcRec, Label
  <2>2. proc' = [proc EXCEPT ![p] = r]
    BY <1>1, <1>0 DEF ReadServer, Types
  <2> HIDE DEF r
  <2> QED
    BY <2>1, <2>2, Becomes DEF Goes
<1>2. ASSUME ReadAddress(p), proc[p].srv \in open PROVE Goes(p, "nonce") /\ proc'[p].url = port[proc[p].srv]
  <2> DEFINE r == [proc[p] EXCEPT !.at = "nonce", !.srv = Nil, !.url = port[proc[p].srv]]
  <2>0. proc[p].srv \in Server
    BY <1>2 DEF ReadAddress, At, Roles, Role
  <2>1. r \in ProcRec /\ r.at = "nonce" /\ r.op = proc[p].op /\ r.url = port[proc[p].srv]
    BY <1>0, <2>0 DEF ProcRec, Label
  <2>2. proc' = [proc EXCEPT ![p] = r]
    BY <1>2, <1>0 DEF ReadAddress, Types
  <2> HIDE DEF r
  <2> QED
    BY <2>1, <2>2, Becomes DEF Goes
<1>3. ASSUME TakeNonce(p) PROVE Goes(p, "write") /\ proc'[p].url = proc[p].url /\ proc'[p].nonce = nonce + 1
  <2> DEFINE r == [proc[p] EXCEPT !.at = "write", !.nonce = nonce + 1]
  <2>0. nonce + 1 \in 0..MaxNonce
    BY <1>0, <1>3 DEF TakeNonce
  <2>1. r \in ProcRec /\ r.at = "write" /\ r.op = proc[p].op /\ r.url = proc[p].url /\ r.nonce = nonce + 1
    BY <1>0, <2>0 DEF ProcRec, Label
  <2>2. proc' = [proc EXCEPT ![p] = r]
    BY <1>3, <1>0 DEF TakeNonce, Types
  <2> HIDE DEF r
  <2> QED
    BY <2>1, <2>2, Becomes DEF Goes
<1>4. ASSUME SetApplied(p) PROVE Ends(p)
  BY <1>4, IdleType, Becomes DEF SetApplied, Done, Ends
<1>5. ASSUME WriteAddress(p)
      PROVE  \/ /\ reg' = reg /\ left' = left
                /\ IF proc[p].op = "apply" THEN missed' = missed /\ Ends(p) ELSE missed' /\ Returns(p)
             \/ /\ reg' = [port |-> proc[p].url, nonce |-> proc[p].nonce] /\ ~left' /\ ~missed'
                /\ IF proc[p].op = "apply" THEN Goes(p, "flag") ELSE Returns(p)
  <2>0. missed \in BOOLEAN
    BY DEF Types
  <2>1. CASE /\ reg' = [port |-> proc[p].url, nonce |-> proc[p].nonce] /\ left' = FALSE /\ missed' = FALSE
             /\ ApplyReturns(p, TRUE)
    BY <2>1, ApplyMoves
  <2>2. CASE reg' = reg /\ left' = left /\ missed' = (missed \/ proc[p].op # "apply") /\ ApplyReturns(p, FALSE)
    BY <2>0, <2>2, ApplyMoves
  <2> QED
    BY <1>5, <2>1, <2>2 DEF WriteAddress
<1>6. ASSUME ApplyReturns(p, FALSE) PROVE Returns(p) \/ Ends(p)
  BY <1>6, ApplyMoves
<1> QED
  BY <1>1, <1>2, <1>3, <1>4, <1>5, <1>6 DEF ReadServer, ReadAddress

\* Where the calls lead that take the setting back, and syncPAC.
LEMMA ClearMoves ==
  ASSUME Types, Roles, NEW p \in Procs
  PROVE  /\ ClearProxy(p) => (reg' = None /\ Goes(p, "unflag")) \/ (reg' = reg /\ left' = left /\ Ends(p))
         /\ ResetApplied(p) => Ends(p)
         /\ SyncPAC(p) => \/ applied' = applied /\ (Goes(p, "startPAC") \/ Ends(p))
                          \/ applied' = FALSE /\ Goes(p, IF applied THEN "syncClear" ELSE "disable")
         /\ SyncClear(p) => Goes(p, "disable")
         /\ ShutdownFlag(p) => Goes(p, IF applied THEN "exitClear" ELSE "stop")
         /\ ShutdownClear(p) => Goes(p, "stop")
<1>0. proc[p] \in ProcRec
  BY DEF Types
<1>1. \A l \in Label : Goto(p, l) => Goes(p, l)
  <2> SUFFICES ASSUME NEW l \in Label, Goto(p, l) PROVE Goes(p, l)
    OBVIOUS
  <2> DEFINE r == [proc[p] EXCEPT !.at = l]
  <2>1. r \in ProcRec /\ r.at = l /\ r.op = proc[p].op
    BY <1>0 DEF ProcRec
  <2>2. proc' = [proc EXCEPT ![p] = r]
    BY DEF Goto
  <2> HIDE DEF r
  <2> QED
    BY <2>1, <2>2, Becomes DEF Goes
<1>2. Done(p) => Ends(p)
  BY IdleType, Becomes DEF Done, Ends
<1>3. {"unflag", "startPAC", "syncClear", "disable", "stop"} \subseteq Label
  BY DEF Label
<1>4. ASSUME ShutdownFlag(p) PROVE Goes(p, IF applied THEN "exitClear" ELSE "stop")
  <2> DEFINE l == IF applied THEN "exitClear" ELSE "stop"
             r == [proc[p] EXCEPT !.at = l, !.todo = Tunnels]
  <2>0. l \in Label
    BY DEF Label
  <2>1. proc' = [proc EXCEPT ![p] = r]
    BY <1>4, <1>0 DEF ShutdownFlag, Types
  <2> HIDE DEF l
  <2>2. r \in ProcRec /\ r.at = l /\ r.op = proc[p].op
    BY <1>0, <2>0 DEF ProcRec
  <2> HIDE DEF r
  <2>3. Goes(p, l)
    BY <2>1, <2>2, Becomes DEF Goes
  <2> QED
    BY <2>3 DEF l
<1>5. ClearProxy(p) => (reg' = None /\ Goes(p, "unflag")) \/ (reg' = reg /\ left' = left /\ Ends(p))
  BY <1>1, <1>2, <1>3 DEF ClearProxy
<1>6. ResetApplied(p) => Ends(p)
  BY <1>2 DEF ResetApplied
<1>7. SyncPAC(p) => \/ applied' = applied /\ (Goes(p, "startPAC") \/ Ends(p))
                    \/ applied' = FALSE /\ Goes(p, IF applied THEN "syncClear" ELSE "disable")
  BY <1>1, <1>2, <1>3 DEF SyncPAC
<1>8. (SyncClear(p) => Goes(p, "disable")) /\ (ShutdownClear(p) => Goes(p, "stop"))
  BY <1>1, <1>3 DEF SyncClear, ShutdownClear
<1> QED
  BY <1>4, <1>5, <1>6, <1>7, <1>8

\* Where the calls lead that stop and replace the tunnels.
LEMMA TunnelMoves ==
  ASSUME Types, Roles, NEW p \in Procs
  PROVE  /\ Call(p) => /\ Others(p)
                       /\ \/ proc'[p].at = "url" /\ proc'[p].op = "apply"
                          \/ proc'[p].at = "mode" /\ proc'[p].op \in {"tun", "socks5", "auto"}
                          \/ proc'[p].at = "clear" /\ proc'[p].op = "clear"
                          \/ proc'[p].at = "exit" /\ proc'[p].op = "exit"
         /\ SwitchMode(p) => Others(p) /\ proc'[p].at = "stop" /\ proc'[p].op \in {"tun", "socks5"}
         /\ StopNext(p) => Goes(p, "snap") \/ (proc[p].op # "exit" /\ Goes(p, "replace"))
                            \/ (proc[p].op = "exit" /\ Ends(p))
         /\ ReplaceTunnels(p) => Goes(p, "sync")
         /\ ChangeRule(p) => Goes(p, "snap")
<1>0. proc[p] \in ProcRec
  BY DEF Types
<1>1. \A l \in Label : Goto(p, l) => Goes(p, l)
  <2> SUFFICES ASSUME NEW l \in Label, Goto(p, l) PROVE Goes(p, l)
    OBVIOUS
  <2> DEFINE r == [proc[p] EXCEPT !.at = l]
  <2>1. r \in ProcRec /\ r.at = l /\ r.op = proc[p].op
    BY <1>0 DEF ProcRec
  <2>2. proc' = [proc EXCEPT ![p] = r]
    BY DEF Goto
  <2> HIDE DEF r
  <2> QED
    BY <2>1, <2>2, Becomes DEF Goes
<1>2. Done(p) => Ends(p)
  BY IdleType, Becomes DEF Done, Ends
<1>3. {"replace", "sync", "snap"} \subseteq Label
  BY DEF Label
<1>4. ASSUME Call(p)
      PROVE  /\ Others(p)
             /\ \/ proc'[p].at = "url" /\ proc'[p].op = "apply"
                \/ proc'[p].at = "mode" /\ proc'[p].op \in {"tun", "socks5", "auto"}
                \/ proc'[p].at = "clear" /\ proc'[p].op = "clear"
                \/ proc'[p].at = "exit" /\ proc'[p].op = "exit"
  <2>1. PICK o \in Ops :
          proc' = [proc EXCEPT ![p].op = o,
                               ![p].at = CASE o = "apply" -> "url"
                                           [] o \in {"tun", "socks5", "auto"} -> "mode"
                                           [] OTHER -> o]
    BY <1>4 DEF Call
  <2>2. o \in {"apply", "clear", "tun", "socks5", "auto", "exit"}
    BY OpsAssumption
  <2> DEFINE l == CASE o = "apply" -> "url"
                    [] o \in {"tun", "socks5", "auto"} -> "mode"
                    [] OTHER -> o
             r == [proc[p] EXCEPT !.op = o, !.at = l]
  <2>3. \/ l = "url" /\ o = "apply"
        \/ l = "mode" /\ o \in {"tun", "socks5", "auto"}
        \/ l = "clear" /\ o = "clear"
        \/ l = "exit" /\ o = "exit"
    BY <2>2
  <2>4. proc' = [proc EXCEPT ![p] = r]
    BY <2>1, <1>0 DEF Types
  <2> HIDE DEF l
  <2>5. r \in ProcRec /\ r.at = l /\ r.op = o
    BY <1>0, <2>2, <2>3 DEF ProcRec, Label, OpName
  <2> HIDE DEF r
  <2> QED
    BY <2>3, <2>4, <2>5, Becomes
<1>5. ASSUME SwitchMode(p) PROVE Others(p) /\ proc'[p].at = "stop" /\ proc'[p].op \in {"tun", "socks5"}
  <2>1. PICK m \in {"tun", "socks5"} :
          proc' = [proc EXCEPT ![p].at = "stop", ![p].op = m, ![p].todo = Tunnels]
    BY <1>5 DEF SwitchMode
  <2> DEFINE r == [proc[p] EXCEPT !.at = "stop", !.op = m, !.todo = Tunnels]
  <2>2. proc' = [proc EXCEPT ![p] = r]
    BY <2>1, <1>0 DEF Types
  <2>3. r \in ProcRec /\ r.at = "stop" /\ r.op = m
    BY <1>0 DEF ProcRec, Label, OpName
  <2> HIDE DEF r
  <2> QED
    BY <2>2, <2>3, Becomes
<1>6. ASSUME StopNext(p)
      PROVE  Goes(p, "snap") \/ (proc[p].op # "exit" /\ Goes(p, "replace")) \/ (proc[p].op = "exit" /\ Ends(p))
  <2>1. ASSUME NEW t \in proc[p].todo,
               proc' = [proc EXCEPT ![p].at = "snap", ![p].back = "stop", ![p].todo = @ \ {t}]
        PROVE  Goes(p, "snap")
    <3> DEFINE r == [proc[p] EXCEPT !.at = "snap", !.back = "stop", !.todo = proc[p].todo \ {t}]
    <3>1. proc' = [proc EXCEPT ![p] = r]
      BY <2>1, <1>0 DEF Types
    <3>2. r \in ProcRec /\ r.at = "snap" /\ r.op = proc[p].op
      BY <1>0 DEF ProcRec, Label
    <3> HIDE DEF r
    <3> QED
      BY <3>1, <3>2, Becomes DEF Goes
  <2> QED
    BY <1>6, <2>1, <1>1, <1>2, <1>3 DEF StopNext
<1>7. (ReplaceTunnels(p) => Goes(p, "sync")) /\ (ChangeRule(p) => Goes(p, "snap"))
  BY <1>1, <1>3 DEF ReplaceTunnels, ChangeRule
<1> QED
  BY <1>4, <1>5, <1>6, <1>7

\* A process that ends has no role, one that returns the role it had.
LEMMA RolesEnd ==
  ASSUME Types, NEW p \in Procs, Role(p),
         Ends(p) \/ (Returns(p) /\ proc[p].op # "apply")
  PROVE  Others(p) /\ Role(p)'
<1>1. CASE Ends(p)
  BY <1>1, IdleType DEF Ends, Role, At
<1>2. CASE Goes(p, "stop") /\ proc[p].op # "apply"
  BY <1>2 DEF Goes, Role, At
<1> QED
  BY <1>1, <1>2 DEF Returns

\* Whatever a process does, it has the role of its place, and moves alone.
LEMMA StepRoles ==
  ASSUME Types, Roles, NEW p \in Procs, Step(p)
  PROVE  Others(p) /\ Role(p)'
<1>0. Role(p) /\ pac \in Server \cup {Nil} /\ made \in 0..MaxServers
  BY DEF Roles, Types
<1>1. CASE StartPAC(p) \/ CloseOld(p) \/ DisablePAC(p) \/ CloseServer(p) \/ EnablePAC(p)
  BY <1>0, <1>1, ServerMoves, RolesEnd
     DEF StartPAC, CloseOld, DisablePAC, CloseServer, EnablePAC, Goes, At, Role
<1>2. CASE Listen(p)
  <2>1. made + 1 \in Server
    BY <1>2, <1>0, BoundAssumption DEF Listen, Server
  <2> QED
    BY <1>0, <1>2, <2>1, ServerMoves DEF Listen, Goes, At, Role
<1>3. CASE Snapshot(p) \/ SetTunnels(p) \/ OnPACChanged(p)
  <2>1. proc[p].op # "apply"
    BY <1>0, <1>3 DEF Snapshot, SetTunnels, OnPACChanged, At, Role
  <2> QED
    BY <1>0, <1>3, <2>1, RefreshMoves, RolesEnd DEF Snapshot, SetTunnels, OnPACChanged, Goes, At, Role
<1>4. CASE ReadServer(p)
  <2>1. CASE pac = Nil
    <3>1. ApplyReturns(p, FALSE)
      BY <1>4, <2>1 DEF ReadServer
    <3> QED
      BY <1>0, <3>1, ApplyMoves, RolesEnd
  <2>2. CASE pac # Nil
    BY <1>0, <1>4, <2>2, WriteMoves DEF ReadServer, Goes, At, Role
  <2> QED
    BY <2>1, <2>2
<1>5. CASE ReadAddress(p)
  <2>1. CASE proc[p].srv \notin open
    <3>1. ApplyReturns(p, FALSE)
      BY <1>5, <2>1 DEF ReadAddress
    <3> QED
      BY <1>0, <3>1, ApplyMoves, RolesEnd
  <2>2. CASE proc[p].srv \in open
    BY <1>0, <1>5, <2>2, WriteMoves DEF ReadAddress, Goes, At, Role
  <2> QED
    BY <2>1, <2>2
<1>6. CASE WriteAddress(p)
  <2>1. PICK ok \in BOOLEAN : ApplyReturns(p, ok)
    BY <1>6 DEF WriteAddress
  <2>2. CASE proc[p].op = "apply" /\ ok
    <3>1. Goes(p, "flag")
      BY <2>1, <2>2, ApplyMoves
    <3> QED
      BY <3>1, <2>2 DEF Goes, Role, At
  <2>3. CASE ~(proc[p].op = "apply" /\ ok)
    BY <1>0, <2>1, <2>3, ApplyMoves, RolesEnd
  <2> QED
    BY <2>2, <2>3
<1>7. CASE TakeNonce(p) \/ SetApplied(p)
  <2>1. nonce + 1 # 0
    BY BoundAssumption DEF Types
  <2> QED
    BY <1>0, <1>7, <2>1, WriteMoves, RolesEnd DEF TakeNonce, Goes, At, Role
<1>8. CASE ClearProxy(p) \/ ResetApplied(p) \/ SyncPAC(p) \/ SyncClear(p) \/ ShutdownFlag(p) \/ ShutdownClear(p)
  BY <1>0, <1>8, ClearMoves, RolesEnd
     DEF ClearProxy, ResetApplied, SyncPAC, SyncClear, ShutdownFlag, ShutdownClear, Goes, At, Role
<1>9. CASE Call(p) \/ SwitchMode(p)
  BY <1>9, TunnelMoves DEF At, Role
<1>10. CASE StopNext(p) \/ ReplaceTunnels(p) \/ ChangeRule(p)
  BY <1>0, <1>10, TunnelMoves, RolesEnd DEF StopNext, ReplaceTunnels, ChangeRule, Goes, At, Role
<1> QED
  BY <1>1, <1>2, <1>3, <1>4, <1>5, <1>6, <1>7, <1>8, <1>9, <1>10 DEF Step

\* The types of all that is not the processes'.
LEMMA StepTypes ==
  ASSUME Types, Roles, [Next]_vars
  PROVE  Types' /\ Roles'
<1>t. /\ mode \in {"socks5", "tun"} /\ tunnelMode \in {"socks5", "tun"}
      /\ rules \subseteq Tunnels /\ version \in Nat
      /\ pac \in Server \cup {Nil} /\ open \subseteq Server /\ made \in 0..MaxServers
      /\ port \in [Server -> Port] /\ script \in [Server -> SUBSET Tunnels] /\ built \in [Server -> Nat]
      /\ {foreign, applied, alive, overtaken, left, missed, crossed, torn} \subseteq BOOLEAN
      /\ nonce \in 0..MaxNonce
      /\ reg \in Address \cup {None} /\ written \subseteq Address
      /\ cache \subseteq [addr : Address, rules : SUBSET Tunnels]
      /\ calls \in 0..MaxCalls /\ changes \in 0..MaxChanges
      /\ proc \in [Procs -> ProcRec]
  BY DEF Types
<1>b. MaxServers \in Nat /\ MaxNonce \in Nat /\ MaxCalls \in Nat /\ MaxChanges \in Nat
  BY BoundAssumption
<1>n. torn' \in BOOLEAN /\ crossed' \in BOOLEAN
  <2>1. ASSUME NEW b, torn' = (torn \/ b) PROVE torn' \in BOOLEAN
    BY <2>1
  <2>2. Next => torn' \in BOOLEAN
    BY <2>1 DEF Next
  <2>3. Next => crossed' \in BOOLEAN
    BY DEF Next, Crossing
  <2> QED
    BY <1>t, <2>2, <2>3 DEF vars
<1>1. CASE UNCHANGED vars
  BY <1>1 DEF Types, Roles, Role, At, vars, ruleVars, serverVars, proxyVars, regVars, histVars
<1>2. ASSUME BrowserReads PROVE Types' /\ Roles'
  <2>1. PICK s \in Server : reg # None /\ cache' = cache \cup {[addr |-> reg, rules |-> script[s]]}
    BY <1>2, <1>t DEF BrowserReads, Serving
  <2>2. cache' \subseteq [addr : Address, rules : SUBSET Tunnels]
    BY <2>1, <1>t
  <2>3. UNCHANGED <<mode, ruleVars, serverVars, proxyVars, proc, alive, calls, histVars>>
    BY <1>2 DEF BrowserReads
  <2> QED
    BY <2>2, <2>3, <1>n DEF Types, Roles, Role, At, ruleVars, serverVars, proxyVars, regVars, histVars
<1>3. ASSUME NEW p \in Procs, Step(p) PROVE Types' /\ Roles'
  <2>0. Others(p) /\ Role(p)'
    BY <1>3, StepRoles
  <2>1. Roles' /\ proc' \in [Procs -> ProcRec]
    <3>1. \A x \in Procs \ {p} : Role(x)'
      BY <2>0 DEF Others, Roles, Role, At
    <3> QED
      BY <2>0, <3>1 DEF Roles, Others
  <2>c. proc[p] \in ProcRec
    BY <1>t
  <2> DEFINE Vars == <<mode, ruleVars, serverVars, proxyVars, cache, alive, calls, histVars>>
  <2>2. CASE UNCHANGED Vars
    BY <2>1, <2>2, <1>t, <1>n DEF Types, ruleVars, serverVars, proxyVars, regVars, histVars
  <2>3. CASE Listen(p)
    <3>1. made + 1 \in Server /\ made + 1 \in 0..MaxServers
      BY <2>3, <1>t, <1>b DEF Listen, Server
    <3>2. open' \subseteq Server
      BY <2>3, <3>1, <1>t DEF Listen
    <3>3. port' \in [Server -> Port]
      <4>1. PICK n \in {0, made + 1} : port' = [port EXCEPT ![made + 1] = n]
        BY <2>3 DEF Listen
      <4>2. n \in Port
        BY <1>b, <3>1 DEF Port, Server
      <4> QED
        BY <4>1, <4>2, <3>1, <1>t
    <3>4. made' = made + 1 /\ UNCHANGED <<mode, ruleVars, pac, script, foreign, proxyVars, cache, alive, calls, histVars>>
      BY <2>3 DEF Listen
    <3> QED
      BY <2>1, <3>1, <3>2, <3>3, <3>4, <1>t, <1>n DEF Types, ruleVars, proxyVars, regVars, histVars
  <2>4. CASE EnablePAC(p) \/ CloseOld(p) \/ DisablePAC(p) \/ CloseServer(p)
    <3>1. pac' \in Server \cup {Nil}
      BY <2>4, <2>c, <1>t DEF EnablePAC, CloseOld, DisablePAC, CloseServer, ProcRec
    <3>2. open' \subseteq Server
      BY <2>4, <1>t DEF EnablePAC, CloseOld, DisablePAC, CloseServer
    <3>3. UNCHANGED <<mode, ruleVars, port, script, made, foreign, proxyVars, cache, alive, calls, histVars>>
      BY <2>4 DEF EnablePAC, CloseOld, DisablePAC, CloseServer
    <3> QED
      BY <2>1, <3>1, <3>2, <3>3, <1>t, <1>n DEF Types, ruleVars, proxyVars, regVars, histVars
  <2>5. CASE SetTunnels(p)
    <3>0. proc[p].srv \in Server
      BY <2>5 DEF SetTunnels, Roles, Role, At
    <3>1. script' \in [Server -> SUBSET Tunnels] /\ built' \in [Server -> Nat]
      BY <2>5, <2>c, <3>0, <1>t DEF SetTunnels, ProcRec
    <3>2. overtaken' \in BOOLEAN
      BY <2>5 DEF SetTunnels
    <3>3. UNCHANGED <<mode, ruleVars, pac, open, port, made, foreign, proxyVars, cache, alive, calls>>
      BY <2>5 DEF SetTunnels
    <3> QED
      BY <2>1, <3>1, <3>2, <3>3, <1>t, <1>n DEF Types, ruleVars, proxyVars, regVars
  <2>6. CASE TakeNonce(p)
    <3>1. nonce' \in 0..MaxNonce
      BY <2>6, <1>t, <1>b DEF TakeNonce
    <3>2. UNCHANGED <<mode, ruleVars, serverVars, applied, regVars, cache, alive, calls, histVars>>
      BY <2>6 DEF TakeNonce
    <3> QED
      BY <2>1, <3>1, <3>2, <1>t, <1>n DEF Types, ruleVars, serverVars, regVars, histVars
  <2>7. CASE WriteAddress(p)
    <3> DEFINE a == [port |-> proc[p].url, nonce |-> proc[p].nonce]
    <3>0. proc[p].nonce \in 1..MaxNonce
      BY <2>7, <2>c, <1>b DEF WriteAddress, Roles, Role, At, ProcRec
    <3>1. a \in Address
      BY <3>0, <2>c DEF ProcRec, Address
    <3>2. reg' \in Address \cup {None} /\ written' \subseteq Address /\ {left', missed'} \subseteq BOOLEAN
      <4>1. \/ reg' = a /\ written' = written \cup {a} /\ left' = FALSE /\ missed' = FALSE
            \/ missed' \in {missed, TRUE} /\ reg' = reg /\ written' = written /\ left' = left
        BY <2>7, <1>t DEF WriteAddress
      <4> HIDE DEF a
      <4> QED
        BY <4>1, <3>1, <1>t
    <3>3. UNCHANGED <<mode, ruleVars, serverVars, applied, nonce, cache, alive, calls, histVars>>
      BY <2>7 DEF WriteAddress
    <3> QED
      BY <2>1, <3>2, <3>3, <1>t, <1>n DEF Types, ruleVars, serverVars, histVars
  <2>8. CASE SetApplied(p) \/ ClearProxy(p) \/ ResetApplied(p) \/ SyncPAC(p) \/ SyncClear(p) \/ ShutdownFlag(p)
             \/ ShutdownClear(p)
    <3>1. applied' \in BOOLEAN
      BY <2>8, <1>t DEF SetApplied, ClearProxy, ResetApplied, SyncPAC, SyncClear, ShutdownFlag, ShutdownClear
    <3>2. reg' \in Address \cup {None} /\ left' \in BOOLEAN
      BY <2>8, <1>t DEF SetApplied, ClearProxy, ResetApplied, SyncPAC, SyncClear, ShutdownFlag, ShutdownClear,
                        ClearRegistry, regVars
    <3>3. UNCHANGED <<mode, ruleVars, serverVars, nonce, written, missed, cache, alive, calls, histVars>>
      BY <2>8 DEF SetApplied, ClearProxy, ResetApplied, SyncPAC, SyncClear, ShutdownFlag, ShutdownClear, regVars
    <3> QED
      BY <2>1, <3>1, <3>2, <3>3, <1>t, <1>n DEF Types, ruleVars, serverVars, histVars
  <2>9. CASE Call(p)
    <3>1. calls' \in 0..MaxCalls
      BY <2>9, <1>t, <1>b DEF Call
    <3>2. UNCHANGED <<mode, ruleVars, serverVars, proxyVars, cache, alive, histVars>>
      BY <2>9 DEF Call
    <3> QED
      BY <2>1, <3>1, <3>2, <1>t, <1>n DEF Types, ruleVars, serverVars, proxyVars, regVars, histVars
  <2>10. CASE SwitchMode(p)
    <3>1. mode' \in {"socks5", "tun"}
      BY <2>10 DEF SwitchMode
    <3>2. UNCHANGED <<ruleVars, serverVars, proxyVars, cache, alive, calls, histVars>>
      BY <2>10 DEF SwitchMode
    <3> QED
      BY <2>1, <3>1, <3>2, <1>t, <1>n DEF Types, ruleVars, serverVars, proxyVars, regVars, histVars
  <2>11. CASE StopNext(p)
    <3>1. rules' \subseteq Tunnels /\ version' \in Nat /\ alive' \in BOOLEAN
      <4>1. \/ \E t \in proc[p].todo : /\ rules' = rules \ {t} /\ UNCHANGED alive
                                       /\ version' = IF t \in rules THEN version + 1 ELSE version
            \/ UNCHANGED <<rules, version>> /\ alive' \in {alive, FALSE}
        BY <2>11 DEF StopNext
      <4>2. alive' \in {alive, FALSE} /\ rules' \subseteq rules /\ version' \in {version, version + 1}
        BY <4>1
      <4>3. alive \in BOOLEAN /\ version \in Nat /\ rules \subseteq Tunnels
        BY <1>t
      <4>4. alive' \in BOOLEAN
        BY <4>2, <4>3
      <4>5. rules' \subseteq Tunnels
        BY <4>2, <4>3
      <4>6. version' \in Nat
        BY <4>2, <4>3
      <4> QED
        BY <4>4, <4>5, <4>6
    <3>2. UNCHANGED <<mode, tunnelMode, changes, serverVars, proxyVars, cache, calls, histVars>>
      BY <2>11 DEF StopNext
    <3> QED
      BY <2>1, <3>1, <3>2, <1>t, <1>n DEF Types, serverVars, proxyVars, regVars, histVars
  <2>12. CASE ReplaceTunnels(p)
    <3>1. tunnelMode' \in {"socks5", "tun"} /\ rules' \subseteq Tunnels /\ version' \in Nat
      BY <2>12, <1>t DEF ReplaceTunnels
    <3>2. overtaken' \in BOOLEAN
      BY <2>12 DEF ReplaceTunnels
    <3>3. UNCHANGED <<mode, changes, serverVars, proxyVars, cache, alive, calls, built>>
      BY <2>12 DEF ReplaceTunnels
    <3> QED
      BY <2>1, <3>1, <3>2, <3>3, <1>t, <1>n DEF Types, serverVars, proxyVars, regVars
  <2>13. CASE ChangeRule(p)
    <3>1. rules' \subseteq Tunnels /\ version' \in Nat /\ changes' \in 0..MaxChanges
      BY <2>13, <1>t, <1>b DEF ChangeRule
    <3>2. UNCHANGED <<mode, tunnelMode, serverVars, proxyVars, cache, alive, calls, histVars>>
      BY <2>13 DEF ChangeRule
    <3> QED
      BY <2>1, <3>1, <3>2, <1>t, <1>n DEF Types, serverVars, proxyVars, regVars, histVars
  <2>14. StartPAC(p) \/ Snapshot(p) \/ OnPACChanged(p) \/ ReadServer(p) \/ ReadAddress(p) => UNCHANGED Vars
    BY DEF StartPAC, Snapshot, OnPACChanged, ReadServer, ReadAddress
  <2> HIDE DEF Vars
  <2> QED
    BY <1>3, <2>2, <2>3, <2>4, <2>5, <2>6, <2>7, <2>8, <2>9, <2>10, <2>11, <2>12, <2>13, <2>14 DEF Step
<1> QED
  BY <1>1, <1>2, <1>3 DEF Next
-----------------------------------------------------------------------------
(* The servers                                                             *)

\* Only a call that starts, replaces or ends a server touches the servers.
LEMMA OthersKeepServers ==
  ASSUME Types, Roles, NEW p \in Procs, Step(p),
         ~(Listen(p) \/ EnablePAC(p) \/ CloseOld(p) \/ DisablePAC(p) \/ CloseServer(p))
  PROVE  /\ UNCHANGED <<pac, open, port, made>>
         /\ proc'[p].at \notin {"swap", "closeOld", "close"}
<1>1. ASSUME Returns(p) \/ Ends(p) PROVE proc'[p].at \notin {"swap", "closeOld", "close"}
  BY <1>1, IdleType DEF Returns, Ends, Goes
<1>2. CASE StartPAC(p)
  BY <1>1, <1>2, ServerMoves DEF StartPAC, serverVars, Goes
<1>3. CASE Snapshot(p) \/ SetTunnels(p) \/ OnPACChanged(p)
  BY <1>1, <1>3, RefreshMoves DEF Snapshot, SetTunnels, OnPACChanged, serverVars, Goes
<1>4. CASE ReadServer(p) \/ ReadAddress(p) \/ TakeNonce(p) \/ SetApplied(p)
  BY <1>1, <1>4, WriteMoves DEF ReadServer, ReadAddress, TakeNonce, SetApplied, serverVars, Goes
<1>5. CASE WriteAddress(p)
  BY <1>1, <1>5, WriteMoves DEF WriteAddress, serverVars, Goes
<1>6. CASE ClearProxy(p) \/ ResetApplied(p) \/ SyncPAC(p) \/ SyncClear(p) \/ ShutdownFlag(p) \/ ShutdownClear(p)
  BY <1>1, <1>6, ClearMoves
     DEF ClearProxy, ResetApplied, SyncPAC, SyncClear, ShutdownFlag, ShutdownClear, serverVars, Goes
<1>7. CASE Call(p) \/ SwitchMode(p) \/ StopNext(p) \/ ReplaceTunnels(p) \/ ChangeRule(p)
  BY <1>1, <1>7, TunnelMoves DEF Call, SwitchMode, StopNext, ReplaceTunnels, ChangeRule, serverVars, Goes
<1> QED
  BY <1>2, <1>3, <1>4, <1>5, <1>6, <1>7 DEF Step

\* The server in use listens, each at a port of its own.
LEMMA StepServers ==
  ASSUME Types, Roles, Servers, [Next]_vars
  PROVE  Servers'
<1>t. pac \in Server \cup {Nil} /\ open \subseteq Server /\ made \in Nat /\ port \in [Server -> Port]
  BY BoundAssumption DEF Types
<1>1. CASE UNCHANGED vars
  BY <1>1 DEF Servers, At, vars, serverVars
<1>2. ASSUME BrowserReads PROVE Servers'
  BY <1>2 DEF BrowserReads, Servers, At, serverVars
<1>3. ASSUME NEW p \in Procs, Step(p) PROVE Servers'
  <2>0. \A x \in Procs \ {p} : proc'[x] = proc[x]
    BY <1>3, StepRoles DEF Others
  <2>1. CASE ~(Listen(p) \/ EnablePAC(p) \/ CloseOld(p) \/ DisablePAC(p) \/ CloseServer(p))
    <3>1. UNCHANGED <<pac, open, port, made>> /\ proc'[p].at \notin {"swap", "closeOld", "close"}
      BY <1>3, <2>1, OthersKeepServers
    <3> QED
      BY <2>0, <3>1 DEF Servers, At
  <2>2. CASE Listen(p)
    <3>0. made' = made + 1 /\ made + 1 \in Server /\ open' = open \cup {made + 1} /\ pac' = pac
      BY <2>2, <1>t, BoundAssumption DEF Listen, Server
    <3>1. proc'[p].at = "swap" /\ proc'[p].srv = made + 1
      BY <2>2, ServerMoves DEF Goes
    <3>2. \A s \in open : s \in Nat /\ s <= made /\ port'[s] = port[s]
      BY <2>2, <1>t DEF Listen, Servers, Server
    <3>3. port'[made + 1] = IF foreign \/ (\E s \in open : port[s] = 0) THEN made + 1 ELSE 0
      BY <2>2, <3>0, <1>t DEF Listen
    <3>4. pac' # Nil => pac' \in open'
      BY <3>0 DEF Servers
    <3>5. \A s \in open : port[s] # port'[made + 1]
      BY <3>2, <3>3, <1>t DEF Servers
    <3>6. \A s, u \in open' : port'[s] = port'[u] => s = u
      BY <3>0, <3>2, <3>5 DEF Servers
    <3>7. \A s \in open' : s <= made' /\ port'[s] \in {0, s}
      BY <3>0, <3>2, <3>3, <1>t DEF Servers
    <3>8. pac \in open \/ pac = 0
      BY <1>t DEF Servers, Nil
    <3>9. \A x \in Procs : At(x, "swap")' => proc'[x].srv \in open' \ {pac'}
      BY <2>0, <3>0, <3>1, <3>2, <3>8, <1>t DEF Servers, At
    <3>10. \A x, r \in Procs : At(x, "swap")' /\ At(r, "swap")' /\ proc'[x].srv = proc'[r].srv => x = r
      BY <2>0, <3>1, <3>2, <1>t DEF Servers, At
    <3>11. \A x \in Procs : proc'[x].at \in {"closeOld", "close"} /\ proc'[x].srv # Nil =>
             /\ proc'[x].srv <= made' /\ proc'[x].srv # pac'
             /\ \A r \in Procs : At(r, "swap")' => proc'[r].srv # proc'[x].srv
      <4> SUFFICES ASSUME NEW x \in Procs, proc'[x].at \in {"closeOld", "close"}, proc'[x].srv # Nil
                   PROVE  /\ proc'[x].srv <= made' /\ proc'[x].srv # pac'
                          /\ \A r \in Procs : At(r, "swap")' => proc'[r].srv # proc'[x].srv
        OBVIOUS
      <4>1. x # p /\ proc'[x] = proc[x]
        BY <2>0, <3>1
      <4>2. proc[x].srv \in Nat /\ proc[x].srv <= made /\ proc[x].srv # pac
        BY <4>1, BoundAssumption DEF Servers, Types, ProcRec, Server, Nil
      <4> QED
        BY <2>0, <3>0, <3>1, <4>1, <4>2, <1>t DEF Servers, At
    <3> QED
      BY <3>4, <3>6, <3>7, <3>9, <3>10, <3>11 DEF Servers
  <2>3. CASE EnablePAC(p)
    <3>1. /\ pac' = proc[p].srv /\ At(p, "swap") /\ UNCHANGED <<open, port, made>>
          /\ proc'[p].at = "closeOld" /\ proc'[p].srv = pac
      BY <2>3, ServerMoves DEF EnablePAC, Goes
    <3>2. proc[p].srv \in open \ {pac}
      BY <3>1 DEF Servers
    <3>3. \A x \in Procs : At(x, "swap")' => x # p /\ At(x, "swap") /\ proc'[x].srv = proc[x].srv
      BY <2>0, <3>1 DEF At
    <3>4. \A x \in Procs : At(x, "swap")' => proc'[x].srv \in open' \ {pac'}
      BY <3>1, <3>3 DEF Servers
    <3>5. \A x \in Procs : proc'[x].at \in {"closeOld", "close"} /\ proc'[x].srv # Nil =>
            /\ proc'[x].srv <= made' /\ proc'[x].srv # pac'
            /\ \A r \in Procs : At(r, "swap")' => proc'[r].srv # proc'[x].srv
      <4> SUFFICES ASSUME NEW x \in Procs, proc'[x].at \in {"closeOld", "close"}, proc'[x].srv # Nil
                   PROVE  /\ proc'[x].srv <= made' /\ proc'[x].srv # pac'
                          /\ \A r \in Procs : At(r, "swap")' => proc'[r].srv # proc'[x].srv
        OBVIOUS
      <4>1. CASE x = p
        BY <3>1, <3>2, <3>3, <4>1 DEF Servers
      <4>2. CASE x # p
        BY <2>0, <3>1, <3>3, <4>2 DEF Servers
      <4> QED
        BY <4>1, <4>2
    <3> QED
      BY <3>1, <3>2, <3>3, <3>4, <3>5 DEF Servers
  <2>4. CASE CloseOld(p) \/ CloseServer(p)
    <3>1. /\ proc[p].at \in {"closeOld", "close"} /\ open' = open \ {proc[p].srv}
          /\ UNCHANGED <<pac, port, made>>
      BY <2>4 DEF CloseOld, CloseServer, At
    <3>2. proc'[p].at \notin {"swap", "closeOld", "close"}
      BY <2>4, ServerMoves, IdleType DEF Goes, Ends
    <3>3. Nil \notin open
      BY <1>t, BoundAssumption DEF Server, Nil
    <3>4. (pac # Nil => pac \in open') /\ \A x \in Procs : At(x, "swap") => proc[x].srv \in open' \ {pac}
      BY <3>1, <3>3 DEF Servers
    <3> QED
      BY <2>0, <3>1, <3>2, <3>4 DEF Servers, At
  <2>5. CASE DisablePAC(p)
    <3>1. /\ pac' = Nil /\ UNCHANGED <<open, port, made>>
          /\ proc'[p].at = "close" /\ proc'[p].srv = pac
      BY <2>5, ServerMoves DEF DisablePAC, Goes
    <3>2. Nil \notin open
      BY <1>t, BoundAssumption DEF Server, Nil
    <3>3. \A x \in Procs : At(x, "swap")' => x # p /\ At(x, "swap") /\ proc'[x].srv = proc[x].srv
      BY <2>0, <3>1 DEF At
    <3>4. \A x \in Procs : At(x, "swap")' => proc'[x].srv \in open' \ {pac'}
      BY <3>1, <3>2, <3>3 DEF Servers
    <3>5. \A x \in Procs : proc'[x].at \in {"closeOld", "close"} /\ proc'[x].srv # Nil =>
            /\ proc'[x].srv <= made' /\ proc'[x].srv # pac'
            /\ \A r \in Procs : At(r, "swap")' => proc'[r].srv # proc'[x].srv
      <4> SUFFICES ASSUME NEW x \in Procs, proc'[x].at \in {"closeOld", "close"}, proc'[x].srv # Nil
                   PROVE  /\ proc'[x].srv <= made' /\ proc'[x].srv # pac'
                          /\ \A r \in Procs : At(r, "swap")' => proc'[r].srv # proc'[x].srv
        OBVIOUS
      <4>1. CASE x = p
        BY <3>1, <3>3, <4>1 DEF Servers
      <4>2. CASE x # p
        BY <2>0, <3>1, <3>3, <4>2 DEF Servers
      <4> QED
        BY <4>1, <4>2
    <3> QED
      BY <3>1, <3>3, <3>4, <3>5 DEF Servers
  <2> QED
    BY <2>1, <2>2, <2>3, <2>4, <2>5
<1> QED
  BY <1>1, <1>2, <1>3 DEF Next
-----------------------------------------------------------------------------
(* The scripts                                                             *)

\* What a step that is no refresh does to rules and scripts.
LEMMA OthersKeepScripts ==
  ASSUME Types, Roles, NEW p \in Procs, Step(p), ~Snapshot(p), ~SetTunnels(p)
  PROVE  /\ UNCHANGED <<script, built>>
         /\ proc'[p].at # "set"
         /\ \/ UNCHANGED <<rules, version>> /\ (overtaken' = overtaken)
            \/ rules' = {} /\ rules = {} /\ UNCHANGED version /\ (overtaken' => overtaken) /\ (overtaken => overtaken')
            \/ proc'[p].at = "snap" /\ UNCHANGED <<rules, version>>
            \/ proc'[p].at = "snap" /\ version' = version + 1
            \/ overtaken' /\ version' = version + 1
<1>1. ASSUME Returns(p) \/ Ends(p) PROVE proc'[p].at # "set"
  BY <1>1, IdleType DEF Returns, Ends, Goes
<1>2. CASE StartPAC(p) \/ Listen(p) \/ EnablePAC(p) \/ CloseOld(p) \/ DisablePAC(p) \/ CloseServer(p)
  BY <1>1, <1>2, ServerMoves
     DEF StartPAC, Listen, EnablePAC, CloseOld, DisablePAC, CloseServer, serverVars, ruleVars, histVars, Goes
<1>3. CASE OnPACChanged(p)
  BY <1>1, <1>3, RefreshMoves DEF OnPACChanged, serverVars, ruleVars, histVars, Goes
<1>4. CASE ReadServer(p) \/ ReadAddress(p) \/ TakeNonce(p) \/ SetApplied(p)
  BY <1>1, <1>4, WriteMoves
     DEF ReadServer, ReadAddress, TakeNonce, SetApplied, serverVars, ruleVars, histVars, Goes
<1>5. CASE WriteAddress(p)
  BY <1>1, <1>5, WriteMoves DEF WriteAddress, serverVars, ruleVars, histVars, Goes
<1>6. CASE ClearProxy(p) \/ ResetApplied(p) \/ SyncPAC(p) \/ SyncClear(p) \/ ShutdownFlag(p) \/ ShutdownClear(p)
  BY <1>1, <1>6, ClearMoves
     DEF ClearProxy, ResetApplied, SyncPAC, SyncClear, ShutdownFlag, ShutdownClear, serverVars, ruleVars,
         histVars, Goes
<1>7. CASE Call(p) \/ SwitchMode(p)
  BY <1>1, <1>7, TunnelMoves DEF Call, SwitchMode, serverVars, ruleVars, histVars, Goes
<1>8. CASE StopNext(p)
  <2>1. UNCHANGED <<script, built, overtaken>>
    BY <1>8 DEF StopNext, serverVars, histVars
  <2>2. proc[p] \in ProcRec
    BY DEF Types
  <2>3. CASE \E t \in proc[p].todo : /\ version' = IF t \in rules THEN version + 1 ELSE version
                                     /\ rules' = rules \ {t}
                                     /\ proc' = [proc EXCEPT ![p].at = "snap", ![p].back = "stop",
                                                             ![p].todo = @ \ {t}]
    <3>1. proc'[p].at = "snap"
      BY <2>2, <2>3 DEF Types
    <3>2. version' = version + 1 \/ UNCHANGED <<rules, version>>
      BY <2>3
    <3> QED
      BY <2>1, <3>1, <3>2
  <2>4. CASE UNCHANGED <<rules, version>>
    BY <1>1, <1>8, <2>1, <2>4, TunnelMoves DEF Goes
  <2> QED
    BY <1>8, <2>3, <2>4 DEF StopNext
<1>9. CASE ReplaceTunnels(p)
  <2>1. UNCHANGED <<script, built>> /\ proc'[p].at # "set"
    BY <1>9, TunnelMoves DEF ReplaceTunnels, serverVars, Goes
  <2>2. rules' = {} /\ (version' = IF rules # {} THEN version + 1 ELSE version)
    BY <1>9 DEF ReplaceTunnels
  <2>3. CASE rules = {}
    <3>1. (overtaken' => overtaken) /\ (overtaken => overtaken')
      BY <1>9, <2>3 DEF ReplaceTunnels
    <3> QED
      BY <2>1, <2>2, <2>3, <3>1
  <2>4. CASE rules # {}
    <3>1. overtaken'
      BY <1>9, <2>4 DEF ReplaceTunnels
    <3> QED
      BY <2>1, <2>2, <2>4, <3>1
  <2> QED
    BY <2>3, <2>4
<1>10. CASE ChangeRule(p)
  BY <1>10, TunnelMoves DEF ChangeRule, serverVars, histVars, Goes
<1> QED
  BY <1>2, <1>3, <1>4, <1>5, <1>6, <1>7, <1>8, <1>9, <1>10 DEF Step

\* What refreshes and changes of the rules do to the scripts.
LEMMA StepVersions ==
  ASSUME Types, Roles, Versions, [Next]_vars
  PROVE  Versions'
<1>t. version \in Nat /\ script \in [Server -> SUBSET Tunnels] /\ built \in [Server -> Nat]
  BY DEF Types
<1>1. CASE UNCHANGED vars
  BY <1>1 DEF Versions, At, vars, serverVars, ruleVars, histVars
<1>2. ASSUME BrowserReads PROVE Versions'
  BY <1>2 DEF BrowserReads, Versions, At, serverVars, ruleVars, histVars
<1>3. ASSUME NEW p \in Procs, Step(p) PROVE Versions'
  <2>0. \A x \in Procs \ {p} : proc'[x] = proc[x]
    BY <1>3, StepRoles DEF Others
  <2>p. \A x \in Procs : proc[x].of \in Nat
    BY DEF Types, ProcRec
  <2>1. CASE Snapshot(p)
    <3>1. UNCHANGED <<rules, version, script, built>>
      BY <2>1 DEF Snapshot, ruleVars, serverVars, histVars
    <3>2. proc'[p].at # "set" \/ (proc'[p].of = version /\ proc'[p].snap = rules)
      BY <2>1, RefreshMoves, IdleType DEF Returns, Ends, Goes
    <3> QED
      BY <2>0, <3>1, <3>2, <1>t DEF Versions, At
  <2>2. CASE SetTunnels(p)
    <3>1. UNCHANGED <<rules, version>>
      BY <2>2 DEF SetTunnels, ruleVars
    <3>2. proc'[p].at = "notify" /\ At(p, "set")
      BY <2>2, RefreshMoves DEF SetTunnels, Goes
    <3>3. proc[p].of <= version /\ (proc[p].of = version => proc[p].snap = rules)
      BY <3>2 DEF Versions
    <3>4. /\ script' = [script EXCEPT ![proc[p].srv] = proc[p].snap]
          /\ built' = [built EXCEPT ![proc[p].srv] = proc[p].of]
      BY <2>2 DEF SetTunnels
    <3>5. \A x \in Server : built'[x] <= version /\ (built'[x] = version => script'[x] = rules)
      BY <3>3, <3>4, <1>t DEF Versions
    <3> QED
      BY <2>0, <3>1, <3>2, <3>5 DEF Versions, At
  <2>3. CASE ~Snapshot(p) /\ ~SetTunnels(p)
    <3>1. /\ UNCHANGED <<script, built>> /\ proc'[p].at # "set"
          /\ \/ rules' = rules /\ version' = version
             \/ version' = version + 1
      BY <1>3, <2>3, OthersKeepScripts
    <3>2. CASE rules' = rules /\ version' = version
      BY <2>0, <3>1, <3>2 DEF Versions, At
    <3>3. CASE version' = version + 1
      BY <2>0, <2>p, <3>1, <3>3, <1>t DEF Versions, At
    <3> QED
      BY <3>1, <3>2, <3>3
  <2> QED
    BY <2>1, <2>2, <2>3
<1> QED
  BY <1>1, <1>2, <1>3 DEF Next

\* A script that has lagged behind is built anew.
LEMMA StepRebuilt ==
  ASSUME Types, Roles, Versions, Rebuilt, [Next]_vars
  PROVE  Rebuilt'
<1>t. /\ version \in Nat /\ built \in [Server -> Nat] /\ pac \in Server \cup {Nil}
      /\ overtaken \in BOOLEAN
  BY DEF Types
<1>1. CASE UNCHANGED vars
  BY <1>1 DEF Rebuilt, At, vars, serverVars, ruleVars, histVars
<1>2. ASSUME BrowserReads PROVE Rebuilt'
  BY <1>2 DEF BrowserReads, Rebuilt, At, serverVars, ruleVars, histVars
<1>3. ASSUME NEW p \in Procs, Step(p) PROVE Rebuilt'
  <2> DEFINE Due(x) == \/ proc[x].at \in {"closeOld", "snap"}
                       \/ At(x, "set") /\ proc[x].srv = pac /\ proc[x].of = version
  <2>0. \A x \in Procs \ {p} : proc'[x] = proc[x]
    BY <1>3, StepRoles DEF Others
  <2>1. CASE Snapshot(p)
    <3>1. UNCHANGED <<pac, version, built, overtaken>>
      BY <2>1 DEF Snapshot, ruleVars, serverVars, histVars
    <3>2. pac = Nil \/ (proc'[p].at = "set" /\ proc'[p].srv = pac /\ proc'[p].of = version)
      BY <2>1, RefreshMoves DEF Goes
    <3> QED
      BY <3>1, <3>2 DEF Rebuilt, At
  <2>2. CASE SetTunnels(p)
    <3>1. UNCHANGED <<pac, version>>
      BY <2>2 DEF SetTunnels, ruleVars
    <3>2. /\ At(p, "set") /\ built' = [built EXCEPT ![proc[p].srv] = proc[p].of]
          /\ overtaken' = (/\ ~(proc[p].srv = pac /\ proc[p].of = version)
                           /\ overtaken \/ proc[p].of < built[proc[p].srv])
      BY <2>2 DEF SetTunnels
    <3>3. proc[p].srv \in Server /\ proc[p].of \in Nat /\ proc[p].of <= version
      BY <3>2 DEF Roles, Role, At, Versions, Types, ProcRec
    <3>4. ASSUME ~overtaken', pac # Nil, built'[pac] # version
          PROVE  \E q \in Procs \ {p} : Due(q)
      <4>0. ~(proc[p].srv = pac /\ proc[p].of = version)
        BY <3>2, <3>3, <3>4, <1>t
      <4>1. ~overtaken /\ ~(proc[p].of < built[proc[p].srv])
        BY <3>2, <3>4, <4>0
      <4>2. CASE proc[p].srv = pac
        <5>1. proc[p].of # version
          BY <3>2, <3>3, <3>4, <4>2, <1>t
        <5>2. built[pac] <= proc[p].of
          BY <4>1, <4>2, <3>3, <1>t
        <5>3. built[pac] # version
          BY <5>1, <5>2, <3>3, <4>2, <1>t
        <5> QED
          BY <3>2, <3>4, <4>1, <5>1, <5>3 DEF Rebuilt, At
      <4>3. CASE proc[p].srv # pac
        <5>1. built[pac] # version
          BY <3>2, <3>3, <3>4, <4>3, <1>t
        <5> QED
          BY <3>2, <3>4, <4>1, <4>3, <5>1 DEF Rebuilt, At
      <4> QED
        BY <4>2, <4>3
    <3> QED
      BY <2>0, <3>1, <3>4 DEF Rebuilt, At
  <2>3. CASE EnablePAC(p) \/ CloseOld(p)
    <3>1. proc'[p].at \in {"closeOld", "snap"}
      BY <2>3, ServerMoves DEF Goes
    <3> QED
      BY <3>1 DEF Rebuilt
  <2>4. CASE DisablePAC(p)
    BY <2>4 DEF DisablePAC, Rebuilt
  <2>5. CASE ~(Snapshot(p) \/ SetTunnels(p) \/ EnablePAC(p) \/ CloseOld(p) \/ DisablePAC(p))
    <3>1. pac' = pac /\ ~Due(p)
      BY <1>3, <2>5 DEF Step, StartPAC, Listen, CloseServer, OnPACChanged, ReadServer, ReadAddress, TakeNonce,
        WriteAddress, SetApplied, ClearProxy, ResetApplied, SyncPAC, SyncClear, ShutdownFlag, ShutdownClear, Call,
        SwitchMode, StopNext, ReplaceTunnels, ChangeRule, serverVars, At
    <3>2. /\ built' = built
          /\ \/ version' = version /\ (overtaken => overtaken')
             \/ proc'[p].at = "snap"
             \/ overtaken'
      BY <1>3, <2>5, OthersKeepScripts
    <3>3. CASE version' = version /\ (overtaken => overtaken')
      BY <2>0, <3>1, <3>2, <3>3 DEF Rebuilt, At
    <3>4. CASE proc'[p].at = "snap" \/ overtaken'
      BY <3>4 DEF Rebuilt
    <3> QED
      BY <3>2, <3>3, <3>4
  <2> QED
    BY <2>1, <2>2, <2>3, <2>4, <2>5
<1> QED
  BY <1>1, <1>2, <1>3 DEF Next
-----------------------------------------------------------------------------
(* The flag and the setting                                                *)

\* What a step may not do if the calls are not torn by it.
LEMMA Untorn ==
  ASSUME Next, ~torn', NEW p \in Procs, NEW r \in Procs, p # r
  PROVE  /\ ~torn
         /\ ~(Clearing(p)' /\ Writing(r)')
         /\ ~(At(p, "flag") /\ At(r, "notify") /\ ~At(r, "notify")')
         /\ ~(Holding(p) /\ At(r, "swap") /\ ~At(r, "swap")')
         /\ ~(Leaving(p)' /\ (Writing(r)' \/ Clearing(r)'))
<1>1. ~torn /\ ~Tears
  BY DEF Next
<1> QED
  BY <1>1 DEF Tears

\* The steps that touch neither the flag nor the setting, and what they lead to.
Plain(p) ==
  \/ StartPAC(p) \/ Listen(p) \/ EnablePAC(p) \/ CloseOld(p) \/ DisablePAC(p) \/ CloseServer(p)
  \/ Snapshot(p) \/ SetTunnels(p) \/ OnPACChanged(p)
  \/ ReadServer(p) \/ ReadAddress(p) \/ TakeNonce(p)
  \/ Call(p) \/ SwitchMode(p) \/ StopNext(p) \/ ReplaceTunnels(p) \/ ChangeRule(p)

\* No such step begins or ends the taking back of a setting.
LEMMA PlainMoves ==
  ASSUME Types, Roles, NEW p \in Procs, Plain(p)
  PROVE  /\ UNCHANGED <<applied, reg, left, missed>>
         /\ proc'[p].at \notin {"flag", "clear", "unflag", "syncClear", "exitClear", "disable"}
              \/ (At(p, "idle") /\ proc'[p].at = "clear")
         /\ proc[p].at \notin {"flag", "unflag", "syncClear", "exitClear", "clear"}
         /\ Leaving(p)' => Leaving(p)
         /\ Writing(p)' /\ proc'[p].op # "apply" => applied \/ (Writing(p) /\ proc[p].op # "apply")
         /\ alive' # alive => Leaving(p) /\ At(p, "stop")
<1> DEFINE Fixed == UNCHANGED <<applied, reg, left, missed>>
           Goal == /\ proc'[p].at \notin {"flag", "clear", "unflag", "syncClear", "exitClear", "disable"}
                   /\ proc[p].at \notin {"flag", "unflag", "syncClear", "exitClear", "clear"}
                   /\ Leaving(p)' => Leaving(p)
                   /\ Writing(p)' /\ proc'[p].op # "apply" => applied \/ (Writing(p) /\ proc[p].op # "apply")
<1>0. Role(p)
  BY DEF Roles
<1>1. ASSUME Returns(p) \/ Ends(p),
             proc[p].at \notin {"flag", "unflag", "syncClear", "exitClear", "clear", "exit"}
      PROVE  Goal
  BY <1>1, IdleType DEF Returns, Ends, Goes, Leaving, Writing, At
<1>2. CASE StartPAC(p) \/ Listen(p) \/ EnablePAC(p) \/ CloseOld(p) \/ DisablePAC(p) \/ CloseServer(p)
  <2>1. Fixed /\ alive' = alive
    BY <1>2 DEF StartPAC, Listen, EnablePAC, CloseOld, DisablePAC, CloseServer, proxyVars, regVars
  <2>2. proc[p].at \in {"startPAC", "listen", "swap", "closeOld", "disable", "close"}
    BY <1>2 DEF StartPAC, Listen, EnablePAC, CloseOld, DisablePAC, CloseServer, At
  <2>3. Ends(p) \/ \E l \in {"listen", "swap", "closeOld", "snap", "close"} : Goes(p, l)
    BY <1>2, ServerMoves
  <2>4. Goal
    BY <2>2, <2>3, <1>1 DEF Goes, Leaving, Writing, At
  <2> QED
    BY <2>1, <2>4
<1>3. CASE Snapshot(p) \/ SetTunnels(p) \/ OnPACChanged(p)
  <2>1. Fixed /\ alive' = alive
    BY <1>3 DEF Snapshot, SetTunnels, OnPACChanged, proxyVars, regVars
  <2>2. proc[p].at \in {"snap", "set", "notify"}
    BY <1>3 DEF Snapshot, SetTunnels, OnPACChanged, At
  <2>3. Returns(p) \/ Goes(p, "set") \/ Goes(p, "notify") \/ (applied /\ Goes(p, "url"))
    BY <1>3, RefreshMoves
  <2>4. Goal
    BY <2>2, <2>3, <1>1 DEF Goes, Leaving, Writing, At
  <2> QED
    BY <2>1, <2>4
<1>4. CASE ReadServer(p) \/ ReadAddress(p) \/ TakeNonce(p)
  <2>1. Fixed /\ alive' = alive
    BY <1>4 DEF ReadServer, ReadAddress, TakeNonce, proxyVars, regVars
  <2>2. proc[p].at \in {"url", "addr", "nonce"}
    BY <1>4 DEF ReadServer, ReadAddress, TakeNonce, At
  <2>3. Returns(p) \/ Ends(p) \/ \E l \in {"addr", "nonce", "write"} : Goes(p, l)
    BY <1>4, WriteMoves
  <2>4. Goal
    BY <2>2, <2>3, <1>1 DEF Goes, Leaving, Writing, At
  <2> QED
    BY <2>1, <2>4
<1>5. CASE Call(p)
  <2>1. Fixed /\ alive' = alive /\ At(p, "idle")
    BY <1>5 DEF Call, proxyVars, regVars
  <2>2. \/ proc'[p].at = "url" /\ proc'[p].op = "apply"
        \/ proc'[p].at = "mode" /\ proc'[p].op \in {"tun", "socks5", "auto"}
        \/ proc'[p].at = "clear" /\ proc'[p].op = "clear"
        \/ proc'[p].at = "exit" /\ proc'[p].op = "exit"
    BY <1>5, TunnelMoves
  <2> QED
    BY <2>1, <2>2 DEF Leaving, Writing, At
<1>6. CASE SwitchMode(p)
  <2>1. Fixed /\ alive' = alive /\ At(p, "mode")
    BY <1>6 DEF SwitchMode, proxyVars, regVars
  <2>2. proc'[p].at = "stop" /\ proc'[p].op \in {"tun", "socks5"}
    BY <1>6, TunnelMoves
  <2> QED
    BY <2>1, <2>2 DEF Leaving, Writing, At
<1>7. CASE StopNext(p)
  <2>1. Fixed /\ At(p, "stop") /\ (alive' # alive => proc[p].op = "exit")
    BY <1>7 DEF StopNext, proxyVars, regVars
  <2>2. Goes(p, "snap") \/ Goes(p, "replace") \/ Ends(p)
    BY <1>7, TunnelMoves
  <2>3. Goal
    BY <2>1, <2>2, <1>1 DEF Goes, Leaving, Writing, At
  <2> QED
    BY <2>1, <2>3 DEF Leaving, At
<1>8. CASE ReplaceTunnels(p) \/ ChangeRule(p)
  <2>1. Fixed /\ alive' = alive /\ proc[p].at \in {"replace", "idle"}
    BY <1>8 DEF ReplaceTunnels, ChangeRule, proxyVars, regVars, At
  <2>2. Goes(p, "sync") \/ Goes(p, "snap")
    BY <1>8, TunnelMoves
  <2> QED
    BY <2>1, <2>2 DEF Goes, Leaving, Writing, At
<1> QED
  BY <1>2, <1>3, <1>4, <1>5, <1>6, <1>7, <1>8 DEF Plain

\* No call writes the setting while another takes it back, or leaves.
LEMMA StepWhole ==
  ASSUME Whole, [Next]_vars
  PROVE  Whole'
<1>1. CASE UNCHANGED vars
  BY <1>1 DEF Whole, Clearing, Writing, Leaving, At, vars
<1>2. CASE Next
  BY <1>2, Untorn DEF Whole
<1> QED
  BY <1>1, <1>2

\* A torn call stays torn.
LEMMA Remembered ==
  ASSUME Next
  PROVE  torn => torn'
  BY DEF Next

\* What the steps do that take the setting back.
LEMMA ClearsRegistry ==
  ASSUME NEW p \in Procs, ClearProxy(p) \/ SyncClear(p) \/ ShutdownClear(p)
  PROVE  /\ applied' = applied /\ alive' = alive /\ missed' = missed /\ Clearing(p)
         /\ proc[p].at \in {"clear", "syncClear", "exitClear"}
         /\ \/ reg' = None /\ ~left'
            \/ /\ reg' = reg
               /\ At(p, "clear") => left' = left
               /\ ~At(p, "clear") => left' = (reg # None)
  BY DEF ClearProxy, SyncClear, ShutdownClear, ClearRegistry, Clearing, At

\* The flag fits what the calls are doing, whatever one of them does next.
LEMMA StepFlagged ==
  ASSUME Types, Roles, Whole, Whole', Flagged, Next, NEW p \in Procs, Step(p)
  PROVE  Flagged'
<1> SUFFICES ASSUME ~torn' PROVE \A x \in Procs : Fits(x)'
  BY DEF Flagged
<1>0. /\ ~torn /\ \A x \in Procs : Fits(x)
      /\ \A x \in Procs \ {p} : proc'[x] = proc[x]
  BY Remembered, StepRoles DEF Flagged, Others
<1>w. \A x \in Procs \ {p} : /\ ~(Clearing(p) /\ Writing(x)) /\ ~(Clearing(x) /\ Writing(p))
                             /\ ~(Leaving(x) /\ (Writing(p) \/ Clearing(p)))
                             /\ ~(Clearing(p)' /\ Writing(x)')
                             /\ ~(Leaving(p)' /\ Writing(x)')
  BY <1>0 DEF Whole
<1>r. Role(p) /\ Fits(p)
  BY <1>0 DEF Roles
<1>e. ASSUME Ends(p) PROVE Fits(p)'
  BY <1>e, IdleType DEF Ends, Fits, Writing, Leaving, At
<1>1. CASE Plain(p)
  <2>1. /\ UNCHANGED <<applied, reg>>
        /\ proc'[p].at \notin {"flag", "unflag", "syncClear", "exitClear", "disable"}
        /\ Leaving(p)' => Leaving(p)
        /\ Writing(p)' /\ proc'[p].op # "apply" => applied \/ (Writing(p) /\ proc[p].op # "apply")
    BY <1>1, PlainMoves
  <2>2. Fits(p)'
    BY <1>r, <2>1 DEF Fits, At
  <2>3. \A x \in Procs \ {p} : Fits(x)'
    BY <1>0, <2>1 DEF Fits, Writing, Leaving, At
  <2> QED
    BY <2>2, <2>3
<1>2. CASE SetApplied(p)
  <2>1. At(p, "flag") /\ Writing(p) /\ applied' = TRUE /\ reg' = reg /\ Ends(p)
    BY <1>2, WriteMoves DEF SetApplied, Writing, At, regVars
  <2>2. \A x \in Procs \ {p} : ~Clearing(x) /\ ~Leaving(x)
    BY <1>w, <2>1
  <2>3. \A x \in Procs \ {p} : Fits(x)'
    BY <1>0, <2>1, <2>2 DEF Fits, Writing, Clearing, Leaving, At
  <2> QED
    BY <1>e, <2>1, <2>3
<1>3. CASE WriteAddress(p)
  <2>1. Writing(p) /\ applied' = applied /\ At(p, "write")
    BY <1>3 DEF WriteAddress, Writing, At
  <2>2. \A x \in Procs \ {p} : ~At(x, "unflag")
    BY <1>w, <2>1 DEF Clearing, At
  <2>3. reg' = reg \/ reg' # None
    <3>1. proc[p].nonce # 0
      BY <1>r, <2>1 DEF Role
    <3>2. [port |-> proc[p].url, nonce |-> proc[p].nonce] # None
      BY <3>1 DEF None
    <3> QED
      BY <1>3, <3>2 DEF WriteAddress
  <2>4. \A x \in Procs \ {p} : Fits(x)'
    BY <1>0, <2>1, <2>2, <2>3 DEF Fits, Writing, Leaving, At
  <2>5. ASSUME Returns(p) PROVE Fits(p)'
    BY <1>e, <1>r, <2>1, <2>5 DEF Returns, Goes, Fits, Writing, Leaving, At
  <2>6. ASSUME reg' = [port |-> proc[p].url, nonce |-> proc[p].nonce], Goes(p, "flag"), proc[p].op = "apply"
        PROVE  Fits(p)'
    <3>1. reg' # None
      BY <1>r, <2>1, <2>6 DEF Role, None
    <3> QED
      BY <2>6, <3>1 DEF Goes, Fits, Writing, Leaving, At
  <2> QED
    BY <1>3, <1>e, <2>4, <2>5, <2>6, WriteMoves
<1>4. CASE ClearProxy(p)
  <2>1. /\ Clearing(p) /\ applied' = applied /\ (reg' = None \/ reg' = reg) /\ proc[p].op # "exit"
        /\ (reg' = None /\ Goes(p, "unflag")) \/ Ends(p)
    BY <1>4, <1>r, ClearsRegistry, ClearMoves DEF ClearProxy, At, Role
  <2>2. Fits(p)'
    BY <1>e, <2>1 DEF Goes, Fits, Writing, Leaving, At
  <2>3. \A x \in Procs \ {p} : Fits(x)'
    BY <1>0, <1>w, <2>1 DEF Fits, Writing, Leaving, At
  <2> QED
    BY <2>2, <2>3
<1>5. CASE ResetApplied(p)
  <2>1. Clearing(p) /\ applied' = FALSE /\ reg' = reg /\ Ends(p)
    BY <1>5, ClearMoves DEF ResetApplied, Clearing, At, regVars
  <2>2. \A x \in Procs \ {p} : Fits(x)'
    BY <1>0, <1>w, <2>1 DEF Fits, Writing, Leaving, At
  <2> QED
    BY <1>e, <2>1, <2>2
<1>6. CASE SyncPAC(p)
  <2>1. reg' = reg /\ proc[p].op # "exit"
    BY <1>6, <1>r DEF SyncPAC, Role, At, regVars
  <2>2. CASE applied' = applied /\ (Goes(p, "startPAC") \/ Ends(p))
    <3>1. Fits(p)'
      BY <1>e, <2>1, <2>2 DEF Goes, Fits, Writing, Leaving, At
    <3>2. \A x \in Procs \ {p} : Fits(x)'
      BY <1>0, <2>1, <2>2 DEF Fits, Writing, Leaving, At
    <3> QED
      BY <3>1, <3>2
  <2>3. CASE applied' = FALSE /\ Goes(p, IF applied THEN "syncClear" ELSE "disable")
    <3>1. proc'[p].at \in {"syncClear", "disable"} /\ proc'[p].op # "exit"
      BY <2>1, <2>3 DEF Goes
    <3>2. Fits(p)' /\ Clearing(p)'
      BY <2>3, <3>1 DEF Fits, Writing, Clearing, Leaving, At
    <3>3. \A x \in Procs \ {p} : Fits(x)'
      BY <1>0, <1>w, <2>1, <2>3, <3>2 DEF Fits, Writing, Leaving, At
    <3> QED
      BY <3>2, <3>3
  <2> QED
    BY <1>6, <2>2, <2>3, ClearMoves
<1>7. CASE SyncClear(p) \/ ShutdownClear(p)
  <2>1. /\ Clearing(p) /\ applied' = applied /\ (reg' = None \/ reg' = reg)
        /\ Goes(p, "disable") \/ Goes(p, "stop")
    BY <1>7, ClearsRegistry, ClearMoves
  <2>2. ~applied
    BY <1>7, <1>r DEF SyncClear, ShutdownClear, Fits, At
  <2>3. Fits(p)'
    BY <2>1, <2>2 DEF Goes, Fits, Writing, Leaving, At
  <2>4. \A x \in Procs \ {p} : Fits(x)'
    BY <1>0, <1>w, <2>1, <2>2 DEF Fits, Writing, Leaving, At
  <2> QED
    BY <2>3, <2>4
<1>8. CASE ShutdownFlag(p)
  <2>1. applied' = FALSE /\ reg' = reg /\ proc[p].op = "exit"
    BY <1>8, <1>r DEF ShutdownFlag, Role, At, regVars
  <2>2. proc'[p].at \in {"exitClear", "stop"} /\ proc'[p].op = "exit"
    BY <1>8, <2>1, ClearMoves DEF Goes
  <2>3. Fits(p)' /\ Leaving(p)'
    BY <2>1, <2>2 DEF Fits, Writing, Leaving, At
  <2>4. \A x \in Procs \ {p} : Fits(x)'
    BY <1>0, <1>w, <2>1, <2>3 DEF Fits, Writing, Leaving, At
  <2> QED
    BY <2>3, <2>4
<1> QED
  BY <1>1, <1>2, <1>3, <1>4, <1>5, <1>6, <1>7, <1>8 DEF Step, Plain

Mid == \E q \in Procs : proc[q].at \in {"flag", "syncClear", "exitClear"}

\* Only the process that steps can finish a call, and decide what is crossed.
LEMMA Crosses ==
  ASSUME Types, Roles, Next, NEW p \in Procs, Step(p)
  PROVE  /\ Finishes(p) => (crossed' => Undone(p)) /\ (Undone(p) => crossed')
         /\ ~Finishes(p) => /\ crossed => crossed'
                            /\ alive /\ ~alive' /\ (applied \/ Mid) => crossed'
                            /\ crossed' => crossed \/ (alive /\ ~alive' /\ (applied \/ Mid))
<1>1. \A q \in Procs \ {p} : ~Finishes(q)
  BY StepRoles DEF Others, Finishes
<1>2. crossed' = Crossing
  BY DEF Next
<1>3. CASE Finishes(p)
  <2>1. Crossing = \E q \in Procs : Finishes(q) /\ Undone(q)
    BY <1>3 DEF Crossing
  <2>2. (\E q \in Procs : Finishes(q) /\ Undone(q)) <=> Undone(p)
    BY <1>1, <1>3
  <2> QED
    BY <1>2, <1>3, <2>1, <2>2
<1>4. CASE ~Finishes(p)
  <2>1. ~\E q \in Procs : Finishes(q)
    BY <1>1, <1>4
  <2>2. Crossing = (crossed \/ (/\ alive /\ ~alive'
                                /\ applied \/ \E q \in Procs : proc[q].at \in {"flag", "syncClear", "exitClear"}))
    BY <2>1 DEF Crossing
  <2> QED
    BY <1>2, <1>4, <2>2 DEF Mid
<1> QED
  BY <1>3, <1>4

\* A browser finishes no call.
LEMMA ReadCrosses ==
  ASSUME Next, BrowserReads
  PROVE  (crossed => crossed') /\ (crossed' => crossed)
<1>1. UNCHANGED <<proc, alive>>
  BY DEF BrowserReads
<1>2. ~\E q \in Procs : Finishes(q)
  BY <1>1 DEF Finishes
<1> QED
  BY <1>1, <1>2 DEF Next, Crossing

\* Flag and setting differ only while a call is between the two, or after a failure.
LEMMA StepBetween ==
  ASSUME Types, Roles, Fresh, Between, Next, NEW p \in Procs, Step(p), alive
  PROVE  Between'
<1> DEFINE Unflag == \E q \in Procs : At(q, "unflag")
           Agree  == /\ reg # None /\ ~applied /\ ~left => Mid
                     /\ reg = None /\ applied => Unflag
<1>0. \A x \in Procs \ {p} : proc'[x] = proc[x]
  BY StepRoles DEF Others
<1>r. Role(p) /\ left \in BOOLEAN /\ applied \in BOOLEAN
  BY DEF Roles, Types
<1>b. (left => reg # None) /\ (~crossed => Agree)
  BY DEF Between, Mid
<1>k. ASSUME proc[p].at \notin {"flag", "syncClear", "exitClear"} PROVE Mid => Mid'
  BY <1>0, <1>k DEF Mid
<1>u. ASSUME ~At(p, "unflag") PROVE Unflag => Unflag'
  BY <1>0, <1>u DEF At
<1>a. ~Plain(p) => alive'
  BY DEF Step, Plain, WriteAddress, SetApplied, ClearProxy, ResetApplied, SyncPAC, SyncClear, ShutdownFlag,
    ShutdownClear
<1>q. ASSUME left' => reg' # None, ~crossed' => Agree', alive' PROVE Between'
  BY <1>q DEF Between, Mid
<1> HIDE DEF Unflag
<1>1. CASE Plain(p)
  <2>1. /\ UNCHANGED <<applied, reg, left>>
        /\ proc[p].at \notin {"flag", "unflag", "syncClear", "exitClear"}
    BY <1>1, PlainMoves
  <2>2. ~Finishes(p) /\ ~At(p, "unflag")
    BY <2>1 DEF Finishes, At
  <2>3. ~crossed' => ~crossed /\ (alive' \/ ~(applied \/ Mid))
    BY <2>2, Crosses
  <2>4. ~crossed' => Agree'
    BY <1>b, <1>k, <1>u, <2>1, <2>2, <2>3
  <2>5. ~crossed' /\ ~alive' => ~applied /\ (reg # None => left)
    BY <1>b, <2>3
  <2> QED
    BY <1>b, <2>1, <2>4, <2>5 DEF Between, Mid, Unflag
<1>2. CASE SetApplied(p)
  <2>1. At(p, "flag") /\ applied' = TRUE /\ UNCHANGED <<reg, left>> /\ Ends(p)
    BY <1>2, WriteMoves DEF SetApplied, regVars
  <2>2. Finishes(p)
    BY <2>1, IdleType DEF Finishes, Ends, At
  <2>3. ~crossed' => reg # None
    BY <2>1, <2>2, Crosses DEF Undone
  <2> QED
    BY <1>a, <1>b, <1>q, <1>2, <2>1, <2>3 DEF Plain, SetApplied
<1>3. CASE WriteAddress(p)
  <2>1. applied' = applied /\ At(p, "write") /\ alive'
    BY <1>3 DEF WriteAddress
  <2>2. CASE reg' = reg /\ left' = left
    <3>1. ~Finishes(p) /\ proc[p].at \notin {"flag", "syncClear", "exitClear"} /\ ~At(p, "unflag")
      BY <2>1, <2>2 DEF Finishes, At
    <3>2. ~crossed' => ~crossed
      BY <3>1, Crosses
    <3> QED
      BY <1>b, <1>k, <1>q, <1>u, <2>1, <2>2, <3>1, <3>2
  <2>3. CASE /\ reg' = [port |-> proc[p].url, nonce |-> proc[p].nonce] /\ ~left'
             /\ IF proc[p].op = "apply" THEN Goes(p, "flag") ELSE Returns(p)
    <3>1. reg' # None
      BY <1>r, <2>1, <2>3 DEF Role, None
    <3>2. CASE proc[p].op = "apply"
      <4>1. Mid'
        BY <2>3, <3>2 DEF Goes, Mid
      <4> QED
        BY <1>q, <2>1, <3>1, <4>1
    <3>3. CASE proc[p].op # "apply"
      <4>1. reg # reg'
        <5>1. reg = None \/ reg.nonce # proc[p].nonce
          BY <2>1 DEF Fresh
        <5> QED
          BY <2>3, <3>1, <5>1
      <4>2. proc'[p].at # "write"
        BY <2>3, <3>3, IdleType DEF Returns, Goes, Ends
      <4>3. Finishes(p)
        BY <2>1, <3>3, <4>1, <4>2 DEF Finishes, At
      <4>4. ~crossed' => applied
        BY <2>1, <4>3, Crosses DEF Undone
      <4> QED
        BY <1>q, <2>1, <3>1, <4>4
    <3> QED
      BY <3>2, <3>3
  <2> QED
    BY <1>3, <2>2, <2>3, WriteMoves
<1>4. CASE ClearProxy(p)
  <2>1. applied' = applied /\ At(p, "clear") /\ alive'
    BY <1>4 DEF ClearProxy
  <2>2. CASE reg' = None /\ ~left' /\ Goes(p, "unflag")
    <3>1. Unflag'
      BY <2>2 DEF Goes, At, Unflag
    <3> QED
      BY <1>q, <2>1, <2>2, <3>1
  <2>3. CASE reg' = reg /\ left' = left
    <3>1. ~Finishes(p) /\ proc[p].at \notin {"flag", "syncClear", "exitClear"} /\ ~At(p, "unflag")
      BY <2>1, <2>3 DEF Finishes, At
    <3>2. ~crossed' => ~crossed
      BY <3>1, Crosses
    <3> QED
      BY <1>b, <1>k, <1>q, <1>u, <2>1, <2>3, <3>1, <3>2
  <2>4. (reg' = None /\ ~left' /\ Goes(p, "unflag")) \/ (reg' = reg /\ left' = left)
    BY <1>4, ClearMoves DEF ClearProxy, Done
  <2> QED
    BY <2>2, <2>3, <2>4
<1>5. CASE ResetApplied(p)
  <2>1. At(p, "unflag") /\ applied' = FALSE /\ UNCHANGED <<reg, left, alive>> /\ Ends(p)
    BY <1>5, ClearMoves DEF ResetApplied, regVars
  <2>2. Finishes(p)
    BY <2>1, IdleType DEF Finishes, Ends, At
  <2>3. ~crossed' => reg = None
    BY <2>1, <2>2, Crosses DEF Undone
  <2> QED
    BY <1>b, <1>q, <2>1, <2>3
<1>6. CASE SyncPAC(p) \/ ShutdownFlag(p)
  <2>1. /\ UNCHANGED <<reg, left, alive>> /\ proc[p].at \in {"sync", "exit"}
    BY <1>6 DEF SyncPAC, ShutdownFlag, regVars, At
  <2>2. ~Finishes(p) /\ proc[p].at \notin {"flag", "syncClear", "exitClear"} /\ ~At(p, "unflag")
    BY <2>1 DEF Finishes, At
  <2>3. ~crossed' => ~crossed
    BY <2>2, Crosses
  <2>4. CASE applied' = applied
    BY <1>b, <1>k, <1>q, <1>u, <2>1, <2>2, <2>3, <2>4
  <2>5. CASE applied /\ applied' = FALSE /\ (Goes(p, "syncClear") \/ Goes(p, "exitClear"))
    <3>1. Mid'
      BY <2>5 DEF Goes, Mid
    <3> QED
      BY <1>b, <1>q, <2>1, <2>5, <3>1
  <2>6. \/ applied' = applied
        \/ applied /\ applied' = FALSE /\ (Goes(p, "syncClear") \/ Goes(p, "exitClear"))
    <3>1. ShutdownFlag(p) => applied' = FALSE
      BY DEF ShutdownFlag
    <3> QED
      BY <1>6, <1>r, <3>1, ClearMoves
  <2> QED
    BY <2>4, <2>5, <2>6
<1>7. CASE SyncClear(p) \/ ShutdownClear(p)
  <2>1. /\ applied' = applied /\ alive' = alive /\ proc[p].at \in {"syncClear", "exitClear"}
        /\ (reg' = None /\ ~left') \/ (reg' = reg /\ left' = (reg # None))
    BY <1>7, ClearsRegistry DEF SyncClear, ShutdownClear, At
  <2>2. Goes(p, "disable") \/ Goes(p, "stop")
    BY <1>7, ClearMoves
  <2>3. Finishes(p)
    BY <2>1, <2>2 DEF Finishes, Goes
  <2>4. ~crossed' => ~applied
    BY <2>1, <2>3, Crosses DEF Undone
  <2> QED
    BY <1>q, <2>1, <2>4
<1> QED
  BY <1>1, <1>2, <1>3, <1>4, <1>5, <1>6, <1>7 DEF Step, Plain

\* Calls that are not torn find what they have left.
LEMMA StepUntouched ==
  ASSUME Types, Roles, Whole, Flagged, Untouched, Next, NEW p \in Procs, Step(p), alive
  PROVE  Untouched'
<1> DEFINE Wanted == applied \/ \E q \in Procs : At(q, "flag")
<1> SUFFICES ASSUME ~torn' PROVE ~crossed' /\ (Wanted' => ~left')
  BY DEF Untouched
<1>0. /\ ~torn /\ ~crossed /\ (Wanted => ~left) /\ \A x \in Procs : Fits(x)
      /\ \A x \in Procs \ {p} : proc'[x] = proc[x]
  BY Remembered, StepRoles DEF Flagged, Others, Untouched
<1>r. Role(p) /\ Fits(p)
  BY <1>0 DEF Roles
<1>1. ~crossed'
  <2>1. Finishes(p) => ~Undone(p)
    BY <1>r DEF Finishes, Undone, Fits, Writing, At
  <2>2. ASSUME ~alive' PROVE ~applied /\ ~Mid
    <3>1. Plain(p)
      BY <2>2 DEF Step, Plain, WriteAddress, SetApplied, ClearProxy, ResetApplied, SyncPAC, SyncClear, ShutdownFlag,
        ShutdownClear
    <3>2. Leaving(p) /\ At(p, "stop")
      BY <2>2, <3>1, PlainMoves
    <3>3. ASSUME NEW q \in Procs, proc[q].at \in {"flag", "syncClear", "exitClear"} PROVE FALSE
      <4>1. q # p /\ (Writing(q) \/ Clearing(q))
        BY <3>2, <3>3 DEF Writing, Clearing, At
      <4> QED
        BY <1>0, <3>2, <4>1 DEF Whole
    <3> QED
      BY <1>r, <3>2, <3>3 DEF Fits, Mid
  <2> QED
    BY <1>0, <2>1, <2>2, Crosses
<1>k. ASSUME applied' => applied, ~At(p, "flag")' PROVE Wanted' => Wanted
  BY <1>0, <1>k DEF At
<1>2. ASSUME Wanted', left' PROVE FALSE
  <2>1. CASE Plain(p)
    <3>1. UNCHANGED <<applied, left>> /\ ~At(p, "flag")'
      BY <2>1, PlainMoves DEF At
    <3> QED
      BY <1>0, <1>2, <1>k, <3>1
  <2>2. CASE SetApplied(p)
    <3>1. left' = left /\ At(p, "flag")
      BY <2>2 DEF SetApplied, regVars
    <3> QED
      BY <1>0, <1>2, <3>1
  <2>3. CASE WriteAddress(p)
    <3>1. applied' = applied
      BY <2>3 DEF WriteAddress
    <3>2. left' = left /\ (Returns(p) \/ Ends(p))
      BY <1>2, <2>3, WriteMoves
    <3>3. ~At(p, "flag")'
      BY <3>2, IdleType DEF Returns, Ends, Goes, At
    <3> QED
      BY <1>0, <1>2, <1>k, <3>1, <3>2, <3>3
  <2>4. CASE ClearProxy(p)
    <3>1. applied' = applied /\ left' = left
      BY <1>2, <2>4 DEF ClearProxy
    <3>2. ~At(p, "flag")'
      BY <2>4, ClearMoves, IdleType DEF Ends, Goes, At
    <3> QED
      BY <1>0, <1>2, <1>k, <3>1, <3>2
  <2>5. CASE ResetApplied(p) \/ SyncPAC(p) \/ ShutdownFlag(p)
    <3>1. (applied' => applied) /\ left' = left
      BY <2>5 DEF ResetApplied, SyncPAC, ShutdownFlag, regVars
    <3>2. ~At(p, "flag")'
      BY <2>5, ClearMoves, IdleType DEF Ends, Goes, At
    <3> QED
      BY <1>0, <1>2, <1>k, <3>1, <3>2
  <2>6. CASE SyncClear(p) \/ ShutdownClear(p)
    <3>1. applied' = applied /\ Clearing(p) /\ ~applied
      BY <1>r, <2>6, ClearsRegistry DEF SyncClear, ShutdownClear, Fits, At
    <3>2. ~At(p, "flag")'
      BY <2>6, ClearMoves DEF Goes, At
    <3>3. \A q \in Procs \ {p} : ~At(q, "flag")
      BY <1>0, <3>1 DEF Whole, Writing, At
    <3> QED
      BY <1>0, <1>2, <3>1, <3>2, <3>3 DEF At
  <2> QED
    BY <2>1, <2>2, <2>3, <2>4, <2>5, <2>6 DEF Step, Plain
<1> QED
  BY <1>1, <1>2
-----------------------------------------------------------------------------
(* The setting and the server in use                                       *)

\* Only reading the server and its address leads to the writing of it.
LEMMA OthersHoldNothing ==
  ASSUME Types, Roles, NEW p \in Procs, Step(p), ~(ReadServer(p) \/ ReadAddress(p) \/ TakeNonce(p))
  PROVE  ~Holding(p)'
<1>1. ASSUME Returns(p) \/ Ends(p) PROVE ~Holding(p)'
  BY <1>1, IdleType DEF Returns, Ends, Goes, Holding
<1>2. CASE StartPAC(p) \/ Listen(p) \/ EnablePAC(p) \/ CloseOld(p) \/ DisablePAC(p) \/ CloseServer(p)
  BY <1>1, <1>2, ServerMoves DEF Goes, Holding
<1>3. CASE Snapshot(p) \/ SetTunnels(p) \/ OnPACChanged(p)
  BY <1>1, <1>3, RefreshMoves DEF Goes, Holding
<1>4. CASE WriteAddress(p) \/ SetApplied(p)
  BY <1>1, <1>4, WriteMoves DEF Goes, Holding
<1>5. CASE ClearProxy(p) \/ ResetApplied(p) \/ SyncPAC(p) \/ SyncClear(p) \/ ShutdownFlag(p) \/ ShutdownClear(p)
  BY <1>1, <1>5, ClearMoves DEF Goes, Holding
<1>6. CASE Call(p) \/ SwitchMode(p) \/ StopNext(p) \/ ReplaceTunnels(p) \/ ChangeRule(p)
  BY <1>1, <1>6, TunnelMoves DEF Goes, Holding
<1> QED
  BY <1>2, <1>3, <1>4, <1>5, <1>6 DEF Step

\* The server in use stays, or is replaced, or goes.
LEMMA ServerStays ==
  ASSUME Types, Roles, Servers, NEW p \in Procs, Step(p)
  PROVE  \/ EnablePAC(p)
         \/ DisablePAC(p)
         \/ pac' = pac /\ (pac # Nil => port'[pac] = port[pac])
<1>1. CASE Listen(p)
  <2>1. pac' = pac /\ (pac # Nil => pac \in Server /\ pac <= made)
    BY <1>1 DEF Listen, Servers, Types
  <2>2. made \in Nat /\ MaxServers \in Nat /\ port \in [Server -> Port]
    BY BoundAssumption DEF Types
  <2>3. pac # Nil => port'[pac] = port[pac]
    BY <1>1, <2>1, <2>2 DEF Listen, Server
  <2> QED
    BY <2>1, <2>3
<1>2. CASE CloseOld(p) \/ CloseServer(p)
  BY <1>2 DEF CloseOld, CloseServer
<1> QED
  BY <1>1, <1>2, OthersKeepServers

\* What is about to be written is the address of the server in use.
LEMMA StepHeld ==
  ASSUME Types, Roles, Servers, Whole, Held, Next, NEW p \in Procs, Step(p)
  PROVE  Held'
<1> DEFINE Fine(x) == /\ At(x, "addr") => proc[x].srv = pac
                      /\ proc[x].at \in {"nonce", "write"} => pac # Nil /\ proc[x].url = port[pac]
<1> SUFFICES ASSUME ~torn' PROVE \A x \in Procs : Fine(x)'
  BY DEF Held
<1>0. /\ ~torn /\ \A x \in Procs : Fine(x)
      /\ \A x \in Procs \ {p} : proc'[x] = proc[x]
  BY Remembered, StepRoles DEF Held, Others
<1>1. ASSUME NEW x \in Procs \ {p} PROVE Fine(x)'
  <2>1. CASE EnablePAC(p)
    <3>1. At(p, "swap") /\ ~At(p, "swap")'
      BY <2>1, ServerMoves DEF EnablePAC, Goes, At
    <3>2. ~Holding(x)
      BY <3>1, Untorn
    <3> QED
      BY <1>0, <3>2 DEF Holding, At
  <2>2. CASE DisablePAC(p)
    <3>1. ~Writing(x)
      BY <1>0, <2>2 DEF DisablePAC, Clearing, At, Whole
    <3> QED
      BY <1>0, <3>1 DEF Writing, At
  <2>3. CASE pac' = pac /\ (pac # Nil => port'[pac] = port[pac])
    BY <1>0, <2>3 DEF At
  <2> QED
    BY <2>1, <2>2, <2>3, ServerStays
<1>2. Fine(p)'
  <2>1. CASE ReadServer(p)
    <3>1. pac' = pac
      BY <2>1 DEF ReadServer, serverVars
    <3> QED
      BY <2>1, <3>1, WriteMoves, IdleType DEF Returns, Ends, Goes, At
  <2>2. CASE ReadAddress(p)
    <3>1. UNCHANGED <<pac, port>> /\ At(p, "addr")
      BY <2>2 DEF ReadAddress, serverVars
    <3>2. proc[p].srv = pac /\ pac # Nil
      BY <1>0, <3>1, BoundAssumption DEF Roles, Role, At, Server, Nil
    <3> QED
      BY <2>2, <3>1, <3>2, WriteMoves, IdleType DEF Returns, Ends, Goes, At
  <2>3. CASE TakeNonce(p)
    <3>1. UNCHANGED <<pac, port>> /\ At(p, "nonce")
      BY <2>3 DEF TakeNonce, serverVars
    <3> QED
      BY <1>0, <2>3, <3>1, WriteMoves DEF Goes, At
  <2>4. CASE ~(ReadServer(p) \/ ReadAddress(p) \/ TakeNonce(p))
    BY <2>4, OthersHoldNothing DEF Holding, At
  <2> QED
    BY <2>1, <2>2, <2>3, <2>4
<1> QED
  BY <1>1, <1>2

\* A refresh goes on until the address is written, unless the flag says there
\* is nothing to write.
LEMMA RefreshGoesOn ==
  ASSUME Types, Roles, Servers, Held, ~torn, NEW p \in Procs, Step(p), Refreshing(p), pac # Nil
  PROVE  \/ Refreshing(p)'
         \/ At(p, "notify") /\ ~At(p, "notify")' /\ ~applied
         \/ WriteAddress(p)
<1>1. CloseOld(p) \/ Snapshot(p) \/ SetTunnels(p) \/ OnPACChanged(p) \/ ReadServer(p) \/ ReadAddress(p)
        \/ TakeNonce(p) \/ WriteAddress(p)
  BY DEF Refreshing, Step, At, StartPAC, Listen, EnablePAC, DisablePAC, CloseServer, SetApplied, ClearProxy,
    ResetApplied, SyncPAC, SyncClear, ShutdownFlag, ShutdownClear, Call, SwitchMode, StopNext, ReplaceTunnels,
    ChangeRule
<1>2. CASE CloseOld(p)
  BY <1>2, ServerMoves DEF Goes, Refreshing
<1>3. CASE Snapshot(p) \/ SetTunnels(p)
  BY <1>3, RefreshMoves DEF Goes, Refreshing
<1>4. CASE OnPACChanged(p)
  <2>1. At(p, "notify")
    BY <1>4 DEF OnPACChanged
  <2> QED
    BY <1>4, <2>1, RefreshMoves, IdleType DEF Returns, Ends, Goes, Refreshing, At
<1>5. CASE ReadServer(p) \/ TakeNonce(p)
  BY <1>5, WriteMoves DEF Goes, Refreshing
<1>6. CASE ReadAddress(p)
  <2>1. proc[p].srv \in open
    BY <1>6 DEF ReadAddress, Held, Servers
  <2> QED
    BY <1>6, <2>1, WriteMoves DEF Goes, Refreshing
<1> QED
  BY <1>1, <1>2, <1>3, <1>4, <1>5, <1>6

\* A setting that is there after a step was there before it, or is new.
LEMMA SettingStays ==
  ASSUME Types, Roles, NEW p \in Procs, Step(p), ~left', ~missed', reg' # None
  PROVE  \/ WriteAddress(p) /\ reg' = [port |-> proc[p].url, nonce |-> proc[p].nonce]
         \/ /\ reg' = reg /\ ~left /\ ~missed /\ proc[p].at \notin {"syncClear", "exitClear"}
            /\ WriteAddress(p) => proc[p].op = "apply" /\ Ends(p)
<1>0. ASSUME WriteAddress(p) PROVE At(p, "write")
  BY <1>0 DEF WriteAddress
<1>1. CASE Plain(p)
  <2>1. UNCHANGED <<reg, left, missed>> /\ proc[p].at \notin {"syncClear", "exitClear"}
    BY <1>1, PlainMoves
  <2>2. ~WriteAddress(p)
    BY <1>0, <1>1 DEF At, Plain, StartPAC, Listen, EnablePAC, CloseOld, DisablePAC, CloseServer, Snapshot,
      SetTunnels, OnPACChanged, ReadServer, ReadAddress, TakeNonce, Call, SwitchMode, StopNext, ReplaceTunnels,
      ChangeRule
  <2> QED
    BY <2>1, <2>2
<1>2. CASE WriteAddress(p)
  BY <1>0, <1>2, WriteMoves DEF At
<1>3. CASE ClearProxy(p) \/ SyncClear(p) \/ ShutdownClear(p)
  <2>1. reg' = reg /\ missed' = missed /\ At(p, "clear") /\ left' = left
    BY <1>3, ClearsRegistry
  <2> QED
    BY <1>0, <2>1 DEF At
<1>4. CASE SetApplied(p) \/ ResetApplied(p) \/ SyncPAC(p) \/ ShutdownFlag(p)
  <2>1. UNCHANGED <<reg, left, missed>> /\ proc[p].at \in {"flag", "unflag", "sync", "exit"}
    BY <1>4 DEF SetApplied, ResetApplied, SyncPAC, ShutdownFlag, regVars, At
  <2> QED
    BY <1>0, <2>1 DEF At
<1> QED
  BY <1>1, <1>2, <1>3, <1>4 DEF Step, Plain

\* A setting leads to the server in use, or soon will, or is being taken back.
LEMMA StepLed ==
  ASSUME Types, Roles, Servers, Whole, Flagged, Between, Untouched, Held, Led, Next, NEW p \in Procs, Step(p)
  PROVE  Led'
<1> SUFFICES ASSUME ~torn', ~left', ~missed', reg' # None PROVE Led'
  BY DEF Led
<1>0. /\ ~torn /\ ~crossed /\ \A x \in Procs : Fits(x)
      /\ \A x \in Procs \ {p} : proc'[x] = proc[x]
  BY Remembered, StepRoles DEF Flagged, Others, Untouched
<1>1. CASE WriteAddress(p) /\ reg' = [port |-> proc[p].url, nonce |-> proc[p].nonce]
  <2>1. pac # Nil /\ proc[p].url = port[pac] /\ UNCHANGED <<pac, port>>
    BY <1>0, <1>1 DEF WriteAddress, Held, At, serverVars
  <2> QED
    BY <1>1, <2>1 DEF Led
<1>2. CASE /\ reg' = reg /\ ~left /\ ~missed /\ proc[p].at \notin {"syncClear", "exitClear"}
           /\ WriteAddress(p) => proc[p].op = "apply"
  <2>1. TakingBack => TakingBack'
    BY <1>0, <1>2 DEF TakingBack
  <2>2. CASE DisablePAC(p)
    <3>1. ~applied /\ Clearing(p) /\ At(p, "disable")
      BY <1>0, <2>2 DEF DisablePAC, Fits, Clearing, At
    <3>2. PICK q \in Procs : proc[q].at \in {"flag", "syncClear", "exitClear"}
      BY <1>0, <1>2, <3>1 DEF Between
    <3>3. q # p
      BY <3>1, <3>2 DEF At
    <3>4. ~Writing(q)
      BY <1>0, <3>1, <3>3 DEF Whole
    <3>5. TakingBack
      BY <3>2, <3>4 DEF TakingBack, Writing
    <3>6. pac' = Nil
      BY <2>2 DEF DisablePAC
    <3> QED
      BY <2>1, <3>5, <3>6 DEF Led
  <2>3. CASE EnablePAC(p)
    <3>1. pac' # Nil
      BY <2>3, BoundAssumption DEF EnablePAC, Roles, Role, At, Server, Nil
    <3>2. Refreshing(p)'
      BY <2>3, ServerMoves DEF EnablePAC, Goes, Refreshing, Roles, Role, At
    <3> QED
      BY <3>1, <3>2 DEF Led
  <2>4. CASE pac' = pac /\ (pac # Nil => port'[pac] = port[pac])
    <3>1. CASE pac = Nil
      BY <1>0, <1>2, <2>1, <2>4, <3>1 DEF Led
    <3>2. CASE pac # Nil /\ port[pac] = reg.port
      BY <1>2, <2>4, <3>2 DEF Led
    <3>3. CASE TakingBack /\ pac # Nil
      BY <2>1, <2>4, <3>3 DEF Led
    <3>4. ASSUME NEW q \in Procs, Refreshing(q), pac # Nil, ~TakingBack PROVE Led'
      <4>1. CASE q # p
        <5>1. Refreshing(q)'
          BY <1>0, <3>4, <4>1 DEF Refreshing
        <5> QED
          BY <2>4, <3>4, <5>1 DEF Led
      <4>2. CASE q = p
        <5>1. Refreshing(p)' \/ (At(p, "notify") /\ ~At(p, "notify")' /\ ~applied)
          BY <1>0, <1>2, <3>4, <4>2, RefreshGoesOn DEF Refreshing
        <5>2. ASSUME At(p, "notify"), ~At(p, "notify")', ~applied PROVE FALSE
          <6>1. PICK r \in Procs : At(r, "flag")
            BY <1>0, <1>2, <3>4, <5>2 DEF Between, TakingBack, At
          <6>2. r # p
            BY <5>2, <6>1 DEF At
          <6> QED
            BY <5>2, <6>1, <6>2, Untorn
        <5>3. Refreshing(p)'
          BY <5>1, <5>2
        <5> QED
          BY <2>4, <3>4, <5>3 DEF Led
      <4> QED
        BY <4>1, <4>2
    <3> QED
      BY <1>0, <1>2, <3>1, <3>2, <3>3, <3>4 DEF Led
  <2> QED
    BY <2>2, <2>3, <2>4, ServerStays
<1> QED
  BY <1>1, <1>2, SettingStays
-----------------------------------------------------------------------------
(* The browser                                                             *)

\* Addresses are used once, whatever is done.
LEMMA StepFresh ==
  ASSUME Types, Roles, Fresh, [Next]_vars
  PROVE  Fresh'
<1>t. /\ nonce \in Nat /\ written \subseteq Address
      /\ \A a \in written : a.nonce \in Nat
      /\ \A x \in Procs : proc[x].nonce \in Nat
  BY BoundAssumption DEF Types, Address, ProcRec
<1>1. CASE UNCHANGED vars
  BY <1>1 DEF Fresh, At, vars, proxyVars, regVars
<1>2. ASSUME BrowserReads PROVE Fresh'
  <2>1. UNCHANGED <<reg, written, nonce, proc>> /\ reg \in written
    BY <1>2 DEF BrowserReads, proxyVars, regVars, Fresh
  <2>2. \A e \in cache' : e \in cache \/ e.addr = reg
    BY <1>2 DEF BrowserReads
  <2> QED
    BY <2>1, <2>2 DEF Fresh, At
<1>3. ASSUME NEW p \in Procs, Step(p) PROVE Fresh'
  <2>0. /\ \A x \in Procs \ {p} : proc'[x] = proc[x]
        /\ cache' = cache
    <3>1. cache' = cache
      BY <1>3 DEF Step, StartPAC, Listen, EnablePAC, CloseOld, DisablePAC, CloseServer, Snapshot, SetTunnels,
        OnPACChanged, ReadServer, ReadAddress, TakeNonce, WriteAddress, SetApplied, ClearProxy, ResetApplied, SyncPAC,
        SyncClear, ShutdownFlag, ShutdownClear, Call, SwitchMode, StopNext, ReplaceTunnels, ChangeRule
    <3> QED
      BY <1>3, <3>1, StepRoles DEF Others
  <2>1. CASE TakeNonce(p)
    <3>1. UNCHANGED <<reg, written>> /\ nonce' = nonce + 1
      BY <2>1 DEF TakeNonce, regVars
    <3>2. proc'[p].at = "write" /\ proc'[p].nonce = nonce + 1
      BY <2>1, WriteMoves DEF Goes
    <3>3. \A a \in written : a.nonce <= nonce
      BY DEF Fresh
    <3>4. \A x \in Procs \ {p} : At(x, "write")' => proc'[x].nonce \in 1..nonce
      BY <2>0 DEF Fresh, At
    <3>5. \A x \in Procs : At(x, "write")' => proc'[x].nonce \in 1..nonce'
      BY <1>t, <3>1, <3>2, <3>4
    <3>6. \A x \in Procs : At(x, "write")' => \A a \in written : a.nonce # proc'[x].nonce
      BY <1>t, <2>0, <3>2, <3>3 DEF Fresh, At
    <3>7. \A x \in Procs : At(x, "write")' =>
            \A r \in Procs \ {x} : At(r, "write")' => proc'[r].nonce # proc'[x].nonce
      BY <1>t, <2>0, <3>2, <3>4 DEF Fresh, At
    <3>8. \A a \in written : a.nonce <= nonce'
      BY <1>t, <3>1, <3>3
    <3> QED
      BY <2>0, <3>1, <3>5, <3>6, <3>7, <3>8 DEF Fresh
  <2>2. CASE ~TakeNonce(p)
    <3> DEFINE a == [port |-> proc[p].url, nonce |-> proc[p].nonce]
    <3>1. nonce' = nonce /\ ~At(p, "write")'
      <4>1. ASSUME Returns(p) \/ Ends(p) PROVE ~At(p, "write")'
        BY <4>1, IdleType DEF Returns, Ends, Goes, At
      <4>2. ~At(p, "write")'
        <5>1. CASE ReadServer(p) \/ ReadAddress(p)
          BY <4>1, <5>1, WriteMoves DEF Goes, At
        <5> QED
          BY <1>3, <2>2, <5>1, OthersHoldNothing DEF Holding, At
      <4>3. nonce' = nonce
        BY <1>3, <2>2 DEF Step, StartPAC, Listen, EnablePAC, CloseOld, DisablePAC, CloseServer, Snapshot, SetTunnels,
          OnPACChanged, ReadServer, ReadAddress, WriteAddress, SetApplied, ClearProxy, ResetApplied, SyncPAC,
          SyncClear, ShutdownFlag, ShutdownClear, Call, SwitchMode, StopNext, ReplaceTunnels, ChangeRule, proxyVars,
          regVars
      <4> QED
        BY <4>2, <4>3
    <3>2. \/ reg' = a /\ written' = written \cup {a} /\ At(p, "write")
          \/ reg' \in {reg, None} /\ written' = written
      <4>1. CASE WriteAddress(p)
        BY <4>1 DEF WriteAddress
      <4>2. CASE Plain(p)
        <5>1. written' = written
          BY <4>2 DEF Plain, StartPAC, Listen, EnablePAC, CloseOld, DisablePAC, CloseServer, Snapshot, SetTunnels,
            OnPACChanged, ReadServer, ReadAddress, TakeNonce, Call, SwitchMode, StopNext, ReplaceTunnels, ChangeRule,
            proxyVars, regVars
        <5> QED
          BY <4>2, <5>1, PlainMoves
      <4> QED
        BY <1>3, <4>1, <4>2 DEF Step, Plain, SetApplied, ClearProxy, ResetApplied, SyncPAC, SyncClear, ShutdownFlag,
          ShutdownClear, ClearRegistry, regVars
    <3>3. CASE reg' = a /\ written' = written \cup {a} /\ At(p, "write")
      <4>1. a.nonce = proc[p].nonce /\ proc[p].nonce <= nonce
        BY <3>3 DEF Fresh
      <4>2. \A x \in Procs \ {p} : At(x, "write") => proc[x].nonce # a.nonce
        BY <3>3, <4>1 DEF Fresh
      <4> HIDE DEF a
      <4>3. \A x \in Procs : At(x, "write")' => x # p /\ At(x, "write") /\ proc'[x] = proc[x]
        BY <2>0, <3>1 DEF At
      <4>4. \A x \in Procs : At(x, "write")' =>
              /\ proc'[x].nonce \in 1..nonce' /\ \A c \in written' : c.nonce # proc'[x].nonce
              /\ \A r \in Procs \ {x} : At(r, "write")' => proc'[r].nonce # proc'[x].nonce
        BY <3>1, <3>3, <4>2, <4>3 DEF Fresh
      <4>5. \A c \in written' : c.nonce <= nonce'
        BY <3>1, <3>3, <4>1 DEF Fresh
      <4>6. reg' \in written' \cup {None} /\ \A e \in cache' : e.addr \in written'
        BY <2>0, <3>3 DEF Fresh
      <4> QED
        BY <4>4, <4>5, <4>6 DEF Fresh
    <3>4. CASE reg' \in {reg, None} /\ written' = written
      BY <2>0, <3>1, <3>4 DEF Fresh, At
    <3> QED
      BY <3>2, <3>3, <3>4
  <2> QED
    BY <2>1, <2>2
<1> QED
  BY <1>1, <1>2, <1>3 DEF Next

\* While the proxy is applied nobody takes the setting back, and it leads to
\* the server in use unless a refresh is under way.
LEMMA Calm ==
  ASSUME Whole, Flagged, Led, ~torn, ~left, ~missed, reg # None, applied \/ \E q \in Procs : At(q, "flag")
  PROVE  /\ ~TakingBack /\ \A q \in Procs : ~At(q, "disable")
         /\ pac # Nil
         /\ port[pac] = reg.port \/ \E q \in Procs : Refreshing(q)
<1>1. ASSUME NEW q \in Procs, proc[q].at \in {"syncClear", "exitClear", "disable"} PROVE FALSE
  <2>1. ~applied /\ Clearing(q)
    BY <1>1 DEF Flagged, Fits, Clearing
  <2>2. PICK r \in Procs : At(r, "flag")
    BY <2>1
  <2>3. Writing(r) /\ r # q
    BY <1>1, <2>2 DEF Writing, At
  <2> QED
    BY <2>1, <2>3 DEF Whole
<1>2. ~TakingBack /\ \A q \in Procs : ~At(q, "disable")
  BY <1>1 DEF TakingBack, At
<1> QED
  BY <1>2 DEF Led

\* An address whose script has changed is followed by a new one.
LEMMA StepFollowed ==
  ASSUME Types, Roles, Servers, Whole, Flagged, Held, Led, Fresh, Followed,
         Next, NEW p \in Procs, Step(p)
  PROVE  Followed'
<1> DEFINE Wanted  == applied \/ \E q \in Procs : At(q, "flag")
           UpToDate == \A e \in cache : e.addr = reg => pac # Nil /\ e.rules = script[pac]
<1> SUFFICES ASSUME ~torn', ~left', ~missed', reg' # None, Wanted' PROVE UpToDate' \/ \E q \in Procs : Refreshing(q)'
  BY DEF Followed
<1>0. /\ ~torn
      /\ \A x \in Procs \ {p} : proc'[x] = proc[x]
  BY Remembered, StepRoles DEF Others
<1>c. cache' = cache
  BY DEF Step, StartPAC, Listen, EnablePAC, CloseOld, DisablePAC, CloseServer, Snapshot, SetTunnels,
    OnPACChanged, ReadServer, ReadAddress, TakeNonce, WriteAddress, SetApplied, ClearProxy, ResetApplied, SyncPAC,
    SyncClear, ShutdownFlag, ShutdownClear, Call, SwitchMode, StopNext, ReplaceTunnels, ChangeRule
<1>1. CASE WriteAddress(p) /\ reg' = [port |-> proc[p].url, nonce |-> proc[p].nonce]
  <2>1. At(p, "write") /\ reg' = [port |-> proc[p].url, nonce |-> proc[p].nonce]
    BY <1>1 DEF WriteAddress
  <2>2. \A a \in written : a.nonce # proc[p].nonce
    BY <2>1 DEF Fresh
  <2>3. reg'.nonce = proc[p].nonce
    BY <2>1
  <2>4. \A e \in cache : e.addr.nonce # reg'.nonce
    BY <2>2, <2>3 DEF Fresh
  <2> QED
    BY <1>c, <2>4
<1>2. CASE reg' = reg /\ ~left /\ ~missed /\ (WriteAddress(p) => proc[p].op = "apply" /\ Ends(p))
  <2>1. Wanted
    <3>1. ASSUME ~applied, applied' PROVE At(p, "flag")
      <4>1. ~Plain(p)
        BY <3>1, PlainMoves
      <4> QED
        BY <3>1, <4>1, ClearsRegistry DEF Step, Plain, WriteAddress, SetApplied, ResetApplied, SyncPAC, ShutdownFlag
    <3>2. ~At(p, "flag")'
      <4>1. CASE Plain(p)
        BY <4>1, PlainMoves DEF At
      <4>2. CASE SetApplied(p)
        BY <4>2, WriteMoves, IdleType DEF Ends, At
      <4>4. CASE WriteAddress(p)
        BY <1>2, <4>4, IdleType DEF Ends, At
      <4>3. CASE ClearProxy(p) \/ ResetApplied(p) \/ SyncPAC(p) \/ SyncClear(p) \/ ShutdownFlag(p) \/ ShutdownClear(p)
        BY <4>3, ClearMoves, IdleType DEF Goes, Ends, At
      <4> QED
        BY <4>1, <4>2, <4>3, <4>4 DEF Step, Plain
    <3>3. ASSUME NEW q \in Procs, At(q, "flag")' PROVE At(q, "flag")
      BY <1>0, <3>2, <3>3 DEF At
    <3> QED
      BY <3>1, <3>3
  <2>2. ~TakingBack /\ ~At(p, "disable") /\ pac # Nil
    BY <1>0, <1>2, <2>1, Calm
  <2>3. CASE EnablePAC(p)
    <3>1. Refreshing(p)'
      BY <2>3, ServerMoves DEF EnablePAC, Goes, Refreshing, Roles, Role, At
    <3> QED
      BY <3>1
  <2>4. CASE SetTunnels(p)
    <3>1. Refreshing(p)'
      BY <2>4, RefreshMoves DEF SetTunnels, Goes, Refreshing, Roles, Role, At
    <3> QED
      BY <3>1
  <2>5. CASE ~EnablePAC(p) /\ ~SetTunnels(p)
    <3>1. pac' = pac /\ script' = script
      <4>1. pac' = pac
        BY <2>2, <2>5, ServerStays DEF DisablePAC
      <4>2. script' = script
        BY <2>5, OthersKeepScripts DEF Snapshot, serverVars
      <4> QED
        BY <4>1, <4>2
    <3>2. CASE UpToDate
      BY <1>2, <1>c, <3>1, <3>2
    <3>3. ASSUME NEW q \in Procs, Refreshing(q) PROVE \E r \in Procs : Refreshing(r)'
      <4>1. CASE q # p
        <5>1. Refreshing(q)'
          BY <1>0, <3>3, <4>1 DEF Refreshing
        <5> QED
          BY <5>1
      <4>2. CASE q = p
        <5>1. Refreshing(p)' \/ (At(p, "notify") /\ ~At(p, "notify")' /\ ~applied)
          BY <1>0, <1>2, <2>2, <3>3, <4>2, RefreshGoesOn DEF Refreshing
        <5>2. ASSUME At(p, "notify"), ~At(p, "notify")', ~applied PROVE FALSE
          <6>1. PICK r \in Procs : At(r, "flag")
            BY <2>1, <5>2
          <6>2. r # p
            BY <5>2, <6>1 DEF At
          <6> QED
            BY <5>2, <6>1, <6>2, Untorn
        <5> QED
          BY <5>1, <5>2
      <4> QED
        BY <4>1, <4>2
    <3> QED
      BY <1>0, <1>2, <2>1, <3>2, <3>3 DEF Followed
  <2> QED
    BY <2>3, <2>4, <2>5
<1> QED
  BY <1>1, <1>2, SettingStays

\* What the browser reads is what the server in use serves.
LEMMA ReadFollowed ==
  ASSUME Types, Servers, Whole, Flagged, Led, Followed, Next, BrowserReads
  PROVE  Followed'
<1> DEFINE Wanted  == applied \/ \E q \in Procs : At(q, "flag")
<1>0. UNCHANGED <<reg, left, missed, applied, proc, pac, port, script>> /\ (torn => torn')
  BY DEF BrowserReads, proxyVars, regVars, serverVars, Next
<1> SUFFICES ASSUME ~torn', ~left', ~missed', reg' # None, Wanted', ~\E q \in Procs : Refreshing(q)'
             PROVE  \A e \in cache' : e.addr = reg' => pac' # Nil /\ e.rules = script'[pac']
  BY DEF Followed
<1>1. ~torn /\ ~left /\ ~missed /\ reg # None /\ Wanted /\ ~\E q \in Procs : Refreshing(q)
  BY <1>0 DEF Refreshing, At
<1>2. pac # Nil /\ port[pac] = reg.port
  BY <1>1, Calm
<1>3. PICK s \in Serving(reg) : cache' = cache \cup {[addr |-> reg, rules |-> script[s]]}
  BY DEF BrowserReads
<1>4. s \in open /\ port[s] = reg.port
  BY <1>3 DEF Serving
<1>5. s = pac
  BY <1>2, <1>4 DEF Servers
<1>6. \A e \in cache : e.addr = reg => e.rules = script[pac]
  BY <1>1 DEF Followed
<1> QED
  BY <1>0, <1>2, <1>3, <1>5, <1>6
-----------------------------------------------------------------------------
(* The theorems                                                            *)

\* At the start one call is about to start the PAC server.
LEMMA InitProxy == Init => ProxyInv
<1> SUFFICES ASSUME Init PROVE ProxyInv
  OBVIOUS
<1>b. MaxServers \in Nat /\ MaxNonce \in Nat /\ MaxCalls \in Nat /\ MaxChanges \in Nat
  BY BoundAssumption
<1>1. PICK u \in Users : proc = [p \in Procs |-> IF p = u THEN [Idle EXCEPT !.at = "startPAC"] ELSE Idle]
  BY DEF Init
<1> DEFINE r == [Idle EXCEPT !.at = "startPAC"]
<1>2. r \in ProcRec /\ r.at = "startPAC" /\ r.op = "none"
  BY IdleType DEF ProcRec, Label
<1>3. \A p \in Procs : proc[p] = r \/ proc[p] = Idle
  BY <1>1
<1>4. proc \in [Procs -> ProcRec]
  BY <1>1, <1>2, IdleType
<1> HIDE DEF r
<1>5. \A p \in Procs : proc[p].at \in {"startPAC", "idle"} /\ proc[p].op = "none"
  BY <1>2, <1>3, IdleType
<1>6. /\ mode \in {"socks5", "tun"} /\ tunnelMode = mode /\ rules = {} /\ changes = 0 /\ version = 0
      /\ pac = Nil /\ open = {} /\ made = 0 /\ foreign \in BOOLEAN
      /\ port = [s \in Server |-> 0] /\ script = [s \in Server |-> {}]
      /\ applied = FALSE /\ nonce = 0 /\ reg = None /\ written = {} /\ left = FALSE /\ missed = FALSE /\ cache = {}
      /\ alive = TRUE /\ calls = 0 /\ built = [s \in Server |-> 0]
      /\ overtaken = FALSE /\ crossed = FALSE /\ torn = FALSE
  BY DEF Init
<1>7. Types
  <2>1. port \in [Server -> Port] /\ script \in [Server -> SUBSET Tunnels] /\ built \in [Server -> Nat]
    BY <1>6, <1>b DEF Port
  <2>2. made \in 0..MaxServers /\ nonce \in 0..MaxNonce /\ calls \in 0..MaxCalls /\ changes \in 0..MaxChanges
        /\ version \in Nat /\ pac \in Server \cup {Nil}
    BY <1>6, <1>b
  <2>3. {foreign, applied, alive, overtaken, left, missed, crossed, torn} \subseteq BOOLEAN
    BY <1>6
  <2>4. /\ mode \in {"socks5", "tun"} /\ tunnelMode \in {"socks5", "tun"} /\ rules \subseteq Tunnels
        /\ open \subseteq Server /\ reg \in Address \cup {None} /\ written \subseteq Address
        /\ cache \subseteq [addr : Address, rules : SUBSET Tunnels]
    BY <1>6
  <2> QED
    BY <1>4, <2>1, <2>2, <2>3, <2>4 DEF Types
<1>8. Roles
  BY <1>5 DEF Roles, Role, At
<1>9. Servers
  BY <1>5, <1>6 DEF Servers, At
<1>10. Versions /\ Rebuilt
  BY <1>5, <1>6 DEF Versions, Rebuilt, At
<1>11. Whole /\ Flagged /\ Between /\ Untouched /\ Held
  <2>1. \A p \in Procs : ~Writing(p) /\ ~Clearing(p) /\ ~Leaving(p)
    BY <1>5 DEF Writing, Clearing, Leaving
  <2> QED
    BY <1>5, <1>6, <2>1 DEF Whole, Flagged, Fits, Between, Untouched, Held, At
<1>12. Led /\ Fresh /\ Followed
  BY <1>5, <1>6 DEF Led, Fresh, Followed, At
<1> QED
  BY <1>7, <1>8, <1>9, <1>10, <1>11, <1>12 DEF ProxyInv

\* No step breaks the invariant.
LEMMA StepProxy == ProxyInv /\ [Next]_vars => ProxyInv'
<1> SUFFICES ASSUME ProxyInv, [Next]_vars PROVE ProxyInv'
  OBVIOUS
<1>0. /\ Types /\ Roles /\ Servers /\ Versions /\ Rebuilt
      /\ Whole /\ Flagged /\ Between /\ Untouched /\ Held /\ Led /\ Fresh /\ Followed
  BY DEF ProxyInv
<1>1. Types' /\ Roles' /\ Servers' /\ Versions' /\ Rebuilt' /\ Whole' /\ Fresh'
  BY <1>0, StepTypes, StepServers, StepVersions, StepRebuilt, StepWhole, StepFresh
<1>2. Flagged' /\ Between' /\ Untouched' /\ Held' /\ Led' /\ Followed'
  <2>1. CASE UNCHANGED vars
    <3>1. UNCHANGED <<applied, reg, left, missed, crossed, torn, alive, proc, pac, port, script, cache>>
      BY <2>1 DEF vars, serverVars, proxyVars, regVars
    <3>2. Flagged' /\ Between' /\ Untouched' /\ Held'
      BY <1>0, <3>1 DEF Flagged, Fits, Between, Untouched, Held, Writing, Leaving, At
    <3>3. Led' /\ Followed'
      BY <1>0, <3>1 DEF Led, TakingBack, Refreshing, Followed, At
    <3> QED
      BY <3>2, <3>3
  <2>2. CASE Next /\ BrowserReads
    <3>1. /\ UNCHANGED <<applied, reg, left, missed, alive, proc, pac, port>> /\ (torn => torn')
          /\ (crossed => crossed') /\ (crossed' => crossed)
      BY <2>2, ReadCrosses DEF BrowserReads, proxyVars, regVars, serverVars, Next
    <3>2. Flagged' /\ Between' /\ Untouched' /\ Held' /\ Led'
      BY <1>0, <3>1 DEF Flagged, Fits, Between, Untouched, Held, Led, TakingBack, Refreshing, Writing, Leaving, At
    <3> QED
      BY <1>0, <2>2, <3>2, ReadFollowed
  <2>3. ASSUME Next, alive, NEW p \in Procs, Step(p)
        PROVE  Flagged' /\ Between' /\ Untouched' /\ Held' /\ Led' /\ Followed'
    BY <1>0, <1>1, <2>3, StepFlagged, StepBetween, StepUntouched, StepHeld, StepLed, StepFollowed
  <2> QED
    BY <2>1, <2>2, <2>3 DEF Next
<1> QED
  BY <1>1, <1>2 DEF ProxyInv

\* The invariant holds of the specification.
LEMMA ProxyHolds == Spec => []ProxyInv
  BY InitProxy, StepProxy, PTL DEF Spec

\* Every variable has its type, whatever the bounds: no address, server or rule
\* is made up (winproxy.Apply, pac.Server, Manager.rules).
THEOREM TypeCorrect == Spec => []TypeOK
<1>1. ProxyInv => TypeOK
  BY DEF ProxyInv, Types, ProcRec, TypeOK
<1> QED
  BY <1>1, ProxyHolds, PTL

\* When nothing is under way the served script has the rules of the tunnels that
\* are up, unless a refresh was overtaken between snapshot and SetTunnels, or a rule
\* appeared during ReplaceTunnels, and no refresh with the rules of now has come
\* after it (Manager.refreshPAC).
THEOREM ScriptCorrect == Spec => []ScriptSettles
<1>1. ProxyInv => ScriptSettles
  <2> SUFFICES ASSUME ProxyInv, Quiet, alive, pac # Nil, ~overtaken PROVE script[pac] = rules
    BY DEF ScriptSettles
  <2>1. \A p \in Procs : At(p, "idle")
    BY DEF Quiet
  <2>2. built[pac] = version
    BY <2>1 DEF ProxyInv, Rebuilt, At
  <2>3. pac \in Server
    BY DEF ProxyInv, Types
  <2> QED
    BY <2>2, <2>3 DEF ProxyInv, Versions
<1> QED
  BY <1>1, ProxyHolds, PTL

\* When nothing is under way the setting is there exactly if the application
\* believes so or has failed to remove it, and after its end only in that case,
\* however many calls there are at a time (ApplySystemProxy, ClearSystemProxy,
\* syncPAC, Shutdown). Excepted are calls of which one has undone the first access
\* of another to flag and setting, until an undisturbed call follows (Crossing).
THEOREM FlagCorrect == Spec => []FlagIsSetting
<1>1. ProxyInv => FlagIsSetting
  <2> SUFFICES ASSUME ProxyInv, Quiet, ~crossed
               PROVE  (reg # None <=> applied \/ left) /\ (alive \/ ~applied)
    BY DEF FlagIsSetting
  <2>1. Between
    BY DEF ProxyInv
  <2>2. CASE ~alive
    BY <2>1, <2>2 DEF Between
  <2>3. CASE alive /\ \A p \in Procs : At(p, "idle")
    BY <2>1, <2>3 DEF Between, At
  <2> QED
    BY <2>2, <2>3 DEF Quiet
<1> QED
  BY <1>1, ProxyHolds, PTL

\* A setting leads to the PAC server in use (winproxy.Apply after EnablePAC), unless
\* its removal or its last renewal has failed, or calls were torn (Tears): one was
\* taking the setting back, replacing the server or leaving while another wrote it.
THEOREM ServedCorrect == Spec => []SettingIsServed
<1>1. ProxyInv => SettingIsServed
  <2> SUFFICES ASSUME ProxyInv, Quiet, ~torn, ~left, ~missed, reg # None PROVE pac \in Serving(reg)
    BY DEF SettingIsServed
  <2>1. alive /\ \A p \in Procs : At(p, "idle")
    BY DEF ProxyInv, Between, Untouched, Types, Quiet
  <2>2. pac # Nil /\ port[pac] = reg.port
    BY <2>1 DEF ProxyInv, Led, TakingBack, Refreshing, At
  <2> QED
    BY <2>1, <2>2 DEF ProxyInv, Servers, Serving
<1> QED
  BY <1>1, ProxyHolds, PTL

\* The browser works with the rules of the tunnels that are up: a changed
\* script is followed by an address it has not read (onPACChanged, the nonce),
\* unless that renewal has failed, a refresh was overtaken, or calls were torn
\* (Tears), as when a change is noticed between setting and flag of an apply.
THEOREM BrowserCorrect == Spec => []BrowserFollowsRules
<1>1. ProxyInv => BrowserFollowsRules
  <2> SUFFICES ASSUME ProxyInv, Quiet, alive, applied, ~torn, ~missed, ~overtaken,
                      NEW e \in cache, e.addr = reg
               PROVE  e.rules = rules
    BY DEF BrowserFollowsRules
  <2>1. \A p \in Procs : At(p, "idle")
    BY DEF Quiet
  <2>2. reg # None /\ ~left
    BY <2>1 DEF ProxyInv, Between, Untouched, At
  <2>3. pac # Nil /\ e.rules = script[pac]
    BY <2>1, <2>2 DEF ProxyInv, Followed, Refreshing, At
  <2>4. built[pac] = version /\ pac \in Server
    BY <2>1, <2>3 DEF ProxyInv, Types, Rebuilt, At
  <2> QED
    BY <2>3, <2>4 DEF ProxyInv, Versions
<1> QED
  BY <1>1, ProxyHolds, PTL
=============================================================================
