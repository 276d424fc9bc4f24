-------------------------------- MODULE Proxy --------------------------------
(***************************************************************************)
(* Automatic proxy configuration in SOCKS5 mode: the rules of the running  *)
(* tunnels (vpn.Manager.refreshPAC), the PAC server (src/internal/pac/     *)
(* server.go), the system proxy setting (src/internal/winproxy) and the    *)
(* frontend calls of ui.App that tie them together, with a browser that    *)
(* keeps the script it has once read from an address (app.go:445).         *)
(*                                                                         *)
(* A rule is the name of its tunnel, a script the set of its rules; the    *)
(* text of a script is the subject of module Names.  Users are frontend    *)
(* calls, refreshers the goroutines of the manager in which a tunnel gets  *)
(* or loses its rule.  Critical sections of App.mu, Manager.mu and         *)
(* Server.mu are single actions.  Each process keeps the values it has     *)
(* read under one lock and uses under the next.                            *)
(***************************************************************************)
EXTENDS Naturals, FiniteSets

CONSTANTS
  Tunnels,     \* configured tunnels
  Users,       \* frontend calls under way at a time
  Refreshers,  \* goroutines in which rules come and go
  Ops,         \* what users do: "apply", "clear", "tun", "socks5", "auto", "exit"
  MaxServers,  \* bound: PAC servers made
  MaxNonce,    \* bound: addresses made
  MaxCalls,    \* bound: frontend calls
  MaxChanges   \* bound: rules that come or go

ASSUME ProcsAssumption == Users \cap Refreshers = {}
ASSUME OpsAssumption == Ops \subseteq {"apply", "clear", "tun", "socks5", "auto", "exit"}
ASSUME BoundAssumption ==
  /\ MaxServers \in Nat /\ MaxNonce \in Nat /\ MaxCalls \in Nat /\ MaxChanges \in Nat

Procs  == Users \cup Refreshers
Server == 1..MaxServers
Nil    == 0
\* The configured port is 0, a free port has the number of its server.
Port    == 0..MaxServers
Address == [port : Port, nonce : 1..MaxNonce]
None    == [port |-> 0, nonce |-> 0]

VARIABLES
  mode,       \* App.mode
  tunnelMode, \* the mode with which the tunnels are registered
  rules,      \* tunnels with a pacRule
  pac,        \* Manager.pac
  open,       \* servers that listen
  port,       \* their ports
  script,     \* their scripts
  made,       \* servers made
  foreign,    \* another program listens on the configured port
  applied,    \* App.proxyApplied
  nonce,      \* App.proxyNonce
  reg,        \* AutoConfigURL in the registry
  cache,      \* scripts the browser has read
  proc,       \* the processes
  alive,      \* the application runs
  calls, changes,  \* bounds used up
  version,    \* history: number of changes of the rules
  written,    \* history: addresses written to the registry
  built,      \* history: the version from which each script was built
  overtaken,  \* history: a script was rebuilt from older rules, or rules went without a
              \* rebuild, and no rebuild from the rules of now has followed
  left,       \* history: a setting stays whose removal has failed after the flag was reset
  missed,     \* history: the last renewal of the address after a refresh has failed
  crossed,    \* history: see Crossing
  torn        \* history: see Tears

serverVars  == <<pac, open, port, script, made, foreign>>
regVars     == <<reg, written, left, missed>>
proxyVars   == <<applied, nonce, regVars>>
ruleVars    == <<rules, tunnelMode, changes, version>>
histVars    == <<built, overtaken>>
vars == <<mode, ruleVars, serverVars, proxyVars, cache, proc, alive, calls, histVars, crossed, torn>>

\* op: the frontend call, back: where a refresh returns to, snap and of: the
\* rules it saw, srv: the server it saw or made, url: the port it saw.
Idle == [at |-> "idle", op |-> "none", back |-> "idle", snap |-> {}, of |-> 0,
         srv |-> Nil, url |-> Nil, nonce |-> 0, todo |-> {}]

Init ==
  /\ mode \in {"socks5", "tun"} /\ tunnelMode = mode
  /\ rules = {} /\ changes = 0 /\ version = 0
  /\ pac = Nil /\ open = {} /\ made = 0 /\ foreign \in BOOLEAN
  /\ port = [s \in Server |-> 0] /\ script = [s \in Server |-> {}]
  /\ applied = FALSE /\ nonce = 0 /\ reg = None /\ written = {} /\ left = FALSE /\ missed = FALSE
  /\ cache = {}
  \* Startup calls startPAC first.
  /\ \E u \in Users : proc = [p \in Procs |-> IF p = u THEN [Idle EXCEPT !.at = "startPAC"] ELSE Idle]
  /\ alive = TRUE /\ calls = 0
  /\ built = [s \in Server |-> 0] /\ overtaken = FALSE /\ crossed = FALSE /\ torn = FALSE

At(p, l) == proc[p].at = l
Goto(p, l) == proc' = [proc EXCEPT ![p].at = l]
Done(p) == proc' = [proc EXCEPT ![p] = Idle]
-----------------------------------------------------------------------------
(* The PAC server: startPAC, EnablePAC, DisablePAC                         *)

StartPAC(p) ==
  /\ At(p, "startPAC")
  /\ IF mode = "socks5" THEN Goto(p, "listen") ELSE Done(p)
  /\ UNCHANGED <<mode, ruleVars, serverVars, proxyVars, cache, alive, calls, histVars>>

\* The configured port, or a free one if that is taken.
Listen(p) ==
  LET taken == foreign \/ \E s \in open : port[s] = 0 IN
  /\ At(p, "listen") /\ made < MaxServers
  /\ made' = made + 1
  /\ open' = open \cup {made + 1}
  /\ port' = [port EXCEPT ![made + 1] = IF taken THEN made + 1 ELSE 0]
  /\ proc' = [proc EXCEPT ![p].at = "swap", ![p].srv = made + 1]
  /\ UNCHANGED <<mode, ruleVars, pac, script, foreign, proxyVars, cache, alive, calls, histVars>>

\* The old server, if there is one, is replaced and then closed.
EnablePAC(p) ==
  /\ At(p, "swap")
  /\ pac' = proc[p].srv
  /\ proc' = [proc EXCEPT ![p].at = "closeOld", ![p].srv = pac]
  /\ UNCHANGED <<mode, ruleVars, open, port, script, made, foreign, proxyVars, cache, alive, calls, histVars>>

\* Faulty variant: a new server starts with an empty script.
CloseOldNoRefresh(p) ==
  /\ At(p, "closeOld")
  /\ open' = open \ {proc[p].srv}
  /\ Done(p)
  /\ UNCHANGED <<mode, ruleVars, pac, port, script, made, foreign, proxyVars, cache, alive, calls, histVars>>

CloseOld(p) ==
  /\ At(p, "closeOld")
  /\ open' = open \ {proc[p].srv}
  /\ proc' = [proc EXCEPT ![p] = [@ EXCEPT !.at = "snap", !.back = "idle", !.srv = Nil]]
  /\ UNCHANGED <<mode, ruleVars, pac, port, script, made, foreign, proxyVars, cache, alive, calls, histVars>>

DisablePAC(p) ==
  /\ At(p, "disable")
  /\ pac' = Nil
  /\ proc' = [proc EXCEPT ![p].at = "close", ![p].srv = pac]
  /\ UNCHANGED <<mode, ruleVars, open, port, script, made, foreign, proxyVars, cache, alive, calls, histVars>>

CloseServer(p) ==
  /\ At(p, "close")
  /\ open' = open \ {proc[p].srv}
  /\ Done(p)
  /\ UNCHANGED <<mode, ruleVars, pac, port, script, made, foreign, proxyVars, cache, alive, calls, histVars>>
-----------------------------------------------------------------------------
(* refreshPAC                                                              *)

Return(p) ==
  proc' = [proc EXCEPT ![p] = IF @.back = "idle" THEN Idle
                              ELSE [Idle EXCEPT !.at = proc[p].back, !.op = proc[p].op,
                                                !.todo = proc[p].todo]]

\* Under the lock: the server and the rules of now.
Snapshot(p) ==
  /\ At(p, "snap")
  /\ IF pac = Nil THEN Return(p)
     ELSE proc' = [proc EXCEPT ![p] = [@ EXCEPT !.at = "set", !.srv = pac, !.snap = rules, !.of = version]]
  /\ UNCHANGED <<mode, ruleVars, serverVars, proxyVars, cache, alive, calls, histVars>>

\* SetTunnels, after the lock: another refresh may have come in between.
SetTunnels(p) ==
  /\ At(p, "set")
  /\ script' = [script EXCEPT ![proc[p].srv] = proc[p].snap]
  /\ built' = [built EXCEPT ![proc[p].srv] = proc[p].of]
  /\ overtaken' = (/\ ~(proc[p].srv = pac /\ proc[p].of = version)
                   /\ overtaken \/ proc[p].of < built[proc[p].srv])
  /\ proc' = [proc EXCEPT ![p] = [@ EXCEPT !.at = "notify", !.srv = Nil, !.snap = {}, !.of = 0]]
  /\ UNCHANGED <<mode, ruleVars, pac, open, port, made, foreign, proxyVars, cache, alive, calls>>

\* Faulty variant: a changed script does not concern the system proxy.
OnPACChangedNever(p) ==
  /\ At(p, "notify")
  /\ Return(p)
  /\ UNCHANGED <<mode, ruleVars, serverVars, proxyVars, cache, alive, calls, histVars>>

\* onPACChanged: nothing to do unless the proxy is applied.
OnPACChanged(p) ==
  /\ At(p, "notify")
  /\ IF applied THEN Goto(p, "url") ELSE Return(p)
  /\ UNCHANGED <<mode, ruleVars, serverVars, proxyVars, cache, alive, calls, histVars>>
-----------------------------------------------------------------------------
(* applyProxy                                                              *)

\* Where applyProxy returns to: ApplySystemProxy or onPACChanged.
ApplyReturns(p, ok) ==
  IF proc[p].op # "apply" THEN Return(p)
  ELSE IF ok THEN proc' = [proc EXCEPT ![p] = [Idle EXCEPT !.at = "flag", !.op = "apply"]] ELSE Done(p)

\* PACURL, first the server and then its address.
ReadServer(p) ==
  /\ At(p, "url")
  /\ IF pac = Nil THEN ApplyReturns(p, FALSE)
     ELSE proc' = [proc EXCEPT ![p].at = "addr", ![p].srv = pac]
  /\ UNCHANGED <<mode, ruleVars, serverVars, proxyVars, cache, alive, calls, histVars>>

ReadAddress(p) ==
  /\ At(p, "addr")
  /\ IF proc[p].srv \notin open THEN ApplyReturns(p, FALSE)
     ELSE proc' = [proc EXCEPT ![p].at = "nonce", ![p].srv = Nil, ![p].url = port[proc[p].srv]]
  /\ UNCHANGED <<mode, ruleVars, serverVars, proxyVars, cache, alive, calls, histVars>>

TakeNonce(p) ==
  /\ At(p, "nonce") /\ nonce < MaxNonce
  /\ nonce' = nonce + 1
  /\ proc' = [proc EXCEPT ![p].at = "write", ![p].nonce = nonce + 1]
  /\ UNCHANGED <<mode, ruleVars, serverVars, applied, regVars, cache, alive, calls, histVars>>

\* winproxy.Apply.
WriteAddress(p) ==
  LET a == [port |-> proc[p].url, nonce |-> proc[p].nonce] IN
  /\ At(p, "write")
  /\ \/ /\ reg' = a /\ written' = written \cup {a} /\ left' = FALSE /\ missed' = FALSE
        /\ ApplyReturns(p, TRUE)
     \/ /\ missed' = (missed \/ proc[p].op # "apply")
        /\ ApplyReturns(p, FALSE)
        /\ UNCHANGED <<reg, written, left>>
  /\ UNCHANGED <<mode, ruleVars, serverVars, applied, nonce, cache, alive, calls, histVars>>

\* The end of ApplySystemProxy.
SetApplied(p) ==
  /\ At(p, "flag")
  /\ applied' = TRUE
  /\ Done(p)
  /\ UNCHANGED <<mode, ruleVars, serverVars, nonce, regVars, cache, alive, calls, histVars>>
-----------------------------------------------------------------------------
(* Taking the setting back                                                 *)

\* Faulty variant: the flag stays set.
ClearProxyOnly(p) ==
  /\ At(p, "clear")
  /\ (reg' = None /\ left' = FALSE) \/ UNCHANGED <<reg, left>>
  /\ Done(p)
  /\ UNCHANGED <<mode, ruleVars, serverVars, applied, nonce, written, missed, cache, alive, calls, histVars>>

\* ClearSystemProxy: first the registry, then the flag; a failure ends it.
ClearProxy(p) ==
  /\ At(p, "clear")
  /\ \/ reg' = None /\ left' = FALSE /\ Goto(p, "unflag")
     \/ Done(p) /\ UNCHANGED <<reg, left>>
  /\ UNCHANGED <<mode, ruleVars, serverVars, applied, nonce, written, missed, cache, alive, calls, histVars>>

ResetApplied(p) ==
  /\ At(p, "unflag")
  /\ applied' = FALSE
  /\ Done(p)
  /\ UNCHANGED <<mode, ruleVars, serverVars, nonce, regVars, cache, alive, calls, histVars>>

\* Faulty variant: leaving SOCKS5 mode does not look at the system proxy.
SyncPACKeepsProxy(p) ==
  /\ At(p, "sync")
  /\ IF mode = "socks5"
     THEN IF pac = Nil \/ pac \notin open THEN Goto(p, "startPAC") ELSE Done(p)
     ELSE Goto(p, "disable")
  /\ UNCHANGED <<mode, ruleVars, serverVars, proxyVars, cache, alive, calls, histVars>>

\* syncPAC, after a switch to mode op.
SyncPAC(p) ==
  /\ At(p, "sync")
  /\ IF proc[p].op = "socks5"
     THEN /\ IF pac = Nil \/ pac \notin open THEN Goto(p, "startPAC") ELSE Done(p)
          /\ UNCHANGED applied
     ELSE /\ Goto(p, IF applied THEN "syncClear" ELSE "disable")
          /\ applied' = FALSE
  /\ UNCHANGED <<mode, ruleVars, serverVars, nonce, regVars, cache, alive, calls, histVars>>

\* winproxy.Clear after the flag: a failure is only logged.
ClearRegistry == \/ reg' = None /\ left' = FALSE
                 \/ left' = (reg # None) /\ UNCHANGED reg

\* The PAC server is stopped all the same.
SyncClear(p) ==
  /\ At(p, "syncClear")
  /\ ClearRegistry
  /\ Goto(p, "disable")
  /\ UNCHANGED <<mode, ruleVars, serverVars, applied, nonce, written, missed, cache, alive, calls, histVars>>

\* Shutdown: first the flag, then the registry, then the tunnels.
ShutdownFlag(p) ==
  /\ At(p, "exit")
  /\ applied' = FALSE
  /\ proc' = [proc EXCEPT ![p].at = IF applied THEN "exitClear" ELSE "stop", ![p].todo = Tunnels]
  /\ UNCHANGED <<mode, ruleVars, serverVars, nonce, regVars, cache, alive, calls, histVars>>

ShutdownClear(p) ==
  /\ At(p, "exitClear")
  /\ ClearRegistry
  /\ Goto(p, "stop")
  /\ UNCHANGED <<mode, ruleVars, serverVars, applied, nonce, written, missed, cache, alive, calls, histVars>>
-----------------------------------------------------------------------------
(* Tunnels                                                                 *)

\* A frontend call.
Call(p) ==
  /\ p \in Users /\ At(p, "idle") /\ calls < MaxCalls
  /\ calls' = calls + 1
  /\ \E o \in Ops :
       proc' = [proc EXCEPT ![p].op = o,
                            ![p].at = CASE o = "apply" -> "url"
                                        [] o \in {"tun", "socks5", "auto"} -> "mode"
                                        [] OTHER -> o]
  /\ UNCHANGED <<mode, ruleVars, serverVars, proxyVars, cache, alive, histVars>>

\* SwitchMode; what "auto" means and who may use TUN is the subject of App.
SwitchMode(p) ==
  /\ At(p, "mode")
  /\ \E m \in {"tun", "socks5"} :
       /\ proc[p].op \in {m, "auto"}
       /\ mode' = m
       /\ proc' = [proc EXCEPT ![p].at = "stop", ![p].op = m, ![p].todo = Tunnels]
  /\ UNCHANGED <<ruleVars, serverVars, proxyVars, cache, alive, calls, histVars>>

\* StopAll: each Stop drops a rule and refreshes.
StopNext(p) ==
  /\ At(p, "stop")
  /\ \/ \E t \in proc[p].todo :
          /\ rules' = rules \ {t}
          /\ version' = IF t \in rules THEN version + 1 ELSE version
          /\ proc' = [proc EXCEPT ![p].at = "snap", ![p].back = "stop", ![p].todo = @ \ {t}]
          /\ UNCHANGED alive
     \/ /\ proc[p].todo = {} /\ proc[p].op # "exit"
        /\ Goto(p, "replace")
        /\ UNCHANGED <<rules, version, alive>>
     \/ /\ proc[p].todo = {} /\ proc[p].op = "exit"
        /\ alive' = FALSE
        /\ Done(p)
        /\ UNCHANGED <<rules, version>>
  /\ UNCHANGED <<mode, tunnelMode, changes, serverVars, proxyVars, cache, calls, histVars>>

\* ReplaceTunnels, second half: a rule that has appeared meanwhile goes
\* without a refresh.
ReplaceTunnels(p) ==
  /\ At(p, "replace")
  /\ tunnelMode' = mode
  /\ rules' = {}
  /\ version' = IF rules # {} THEN version + 1 ELSE version
  /\ overtaken' = (overtaken \/ rules # {})
  /\ Goto(p, "sync")
  /\ UNCHANGED <<mode, changes, serverVars, proxyVars, cache, alive, calls, built>>

\* A tunnel comes up (the hook of Start) or goes (Stop, forwardEvents), then
\* its goroutine calls refreshPAC.
ChangeRule(p) ==
  /\ p \in Refreshers /\ At(p, "idle") /\ changes < MaxChanges
  /\ \E t \in Tunnels :
       \/ t \notin rules /\ tunnelMode = "socks5" /\ rules' = rules \cup {t}
       \/ t \in rules /\ rules' = rules \ {t}
  /\ changes' = changes + 1 /\ version' = version + 1
  /\ Goto(p, "snap")
  /\ UNCHANGED <<mode, tunnelMode, serverVars, proxyVars, cache, alive, calls, histVars>>
-----------------------------------------------------------------------------
(* The browser                                                             *)

Serving(a) == {s \in open : alive /\ port[s] = a.port}

\* It reads the script of an address it does not know yet.
BrowserReads ==
  /\ reg # None /\ ~\E e \in cache : e.addr = reg
  /\ \E s \in Serving(reg) : cache' = cache \cup {[addr |-> reg, rules |-> script[s]]}
  /\ UNCHANGED <<mode, ruleVars, serverVars, proxyVars, proc, alive, calls, histVars>>
-----------------------------------------------------------------------------
Step(p) ==
  \/ StartPAC(p) \/ Listen(p) \/ EnablePAC(p) \/ CloseOld(p) \/ DisablePAC(p) \/ CloseServer(p)
  \/ Snapshot(p) \/ SetTunnels(p) \/ OnPACChanged(p)
  \/ ReadServer(p) \/ ReadAddress(p) \/ TakeNonce(p) \/ WriteAddress(p) \/ SetApplied(p)
  \/ ClearProxy(p) \/ ResetApplied(p) \/ SyncPAC(p) \/ SyncClear(p) \/ ShutdownFlag(p) \/ ShutdownClear(p)
  \/ Call(p) \/ SwitchMode(p) \/ StopNext(p) \/ ReplaceTunnels(p) \/ ChangeRule(p)

Writing(p)  == proc[p].at \in {"url", "addr", "nonce", "write", "flag"}
Clearing(p) == proc[p].at \in {"clear", "unflag", "syncClear", "disable", "exitClear"}

Leaving(p)  == proc[p].op = "exit" /\ ~At(p, "exit")
Holding(p)  == proc[p].at \in {"addr", "nonce", "write"}

\* A call is torn when another one writes the setting while it is being taken
\* back, or looks at the flag between the setting and the flag of an apply,
\* replaces the server whose address is about to be written, or leaves the
\* application.
Tears ==
  \E p, q \in Procs :
    /\ p # q
    /\ \/ Clearing(p)' /\ Writing(q)'
       \/ At(p, "flag") /\ At(q, "notify") /\ ~At(q, "notify")'
       \/ Holding(p) /\ At(q, "swap") /\ ~At(q, "swap")'
       \/ Leaving(p)' /\ (Writing(q)' \/ Clearing(q)')

\* The second of the two accesses of a call: to flag and setting, or, in a
\* refresh, to the setting after the flag was seen.
Finishes(p) ==
  /\ proc'[p] # proc[p]
  /\ \/ proc[p].at \in {"flag", "unflag", "syncClear", "exitClear"}
     \/ At(p, "write") /\ proc[p].op # "apply" /\ reg' # reg

\* What it did or saw first holds no more: another call has undone it.
Undone(p) ==
  \/ At(p, "flag") /\ reg = None
  \/ At(p, "unflag") /\ reg # None
  \/ At(p, "write") /\ ~applied
  \/ proc[p].at \in {"syncClear", "exitClear"} /\ applied

\* Calls have crossed when one finishes that was undone, until the next one
\* finishes that was not; or when the application ends amid another call.
Crossing ==
  IF \E p \in Procs : Finishes(p) THEN \E p \in Procs : Finishes(p) /\ Undone(p)
  ELSE crossed \/ (/\ alive /\ ~alive'
                   /\ applied \/ \E p \in Procs : proc[p].at \in {"flag", "syncClear", "exitClear"})

Next ==
  /\ (alive /\ \E p \in Procs : Step(p)) \/ BrowserReads
  /\ crossed' = Crossing
  /\ torn' = (torn \/ Tears)

Spec == Init /\ [][Next]_vars
-----------------------------------------------------------------------------
(* Safety                                                                  *)

TypeOK ==
  /\ mode \in {"socks5", "tun"} /\ tunnelMode \in {"socks5", "tun"}
  /\ rules \subseteq Tunnels
  /\ pac \in Server \cup {Nil} /\ open \subseteq Server
  /\ port \in [Server -> Port] /\ script \in [Server -> SUBSET Tunnels]
  /\ made \in 0..MaxServers /\ foreign \in BOOLEAN
  /\ applied \in BOOLEAN /\ nonce \in 0..MaxNonce
  /\ reg \in Address \cup {None} /\ written \subseteq Address
  /\ cache \subseteq [addr : Address, rules : SUBSET Tunnels]
  /\ \A p \in Procs : proc[p].srv \in Server \cup {Nil} /\ proc[p].snap \subseteq Tunnels
                      /\ proc[p].todo \subseteq Tunnels /\ proc[p].nonce \in 0..MaxNonce
  /\ {alive, overtaken, left, missed, crossed, torn} \subseteq BOOLEAN
  /\ calls \in 0..MaxCalls /\ changes \in 0..MaxChanges

Quiet == ~alive \/ \A p \in Procs : At(p, "idle")

\* When nothing is under way the served script has the rules of the tunnels
\* that are up, unless a refresh was overtaken between its snapshot and
\* SetTunnels, or a rule appeared during ReplaceTunnels, and no refresh with the
\* rules of now has come after it.
ScriptSettles == Quiet /\ alive /\ pac # Nil /\ ~overtaken => script[pac] = rules

\* When nothing is under way the setting is there exactly if the application
\* believes so or has failed to remove it, and after its end only in that case.
\* Excepted are calls that crossed: one undid the first access of another to flag
\* and setting before the second, and no undisturbed call has followed.
FlagIsSetting ==
  Quiet /\ ~crossed => (reg # None <=> applied \/ left) /\ (alive \/ ~applied)

\* A setting leads to the PAC server in use, unless its removal or its last renewal
\* has failed, or calls were torn (Tears).
SettingIsServed ==
  Quiet /\ ~torn /\ ~left /\ ~missed /\ reg # None => pac \in Serving(reg)

\* The browser works with the rules of the tunnels that are up: each change of
\* the script is followed by an address the browser has not read, unless that
\* renewal has failed, a refresh was overtaken, or calls were torn (Tears).
BrowserFollowsRules ==
  Quiet /\ alive /\ applied /\ ~torn /\ ~missed /\ ~overtaken
    => \A e \in cache : e.addr = reg => e.rules = rules

(* What a test of the code promises and the code does not keep             *)

\* A setting that was taken back does not return by itself: it is there only
\* while the flag is set or a call is still at work on either.
ClearedStaysCleared ==
  reg # None => applied \/ \E p \in Procs : Clearing(p) \/ (Writing(p) /\ proc[p].op = "apply")
=============================================================================
