---------------------------- MODULE ClientContract ----------------------------
(***************************************************************************)
(* What Manager may rely on of an sslcon.Client from NewClient to the close*)
(* of its event channel (src/internal/vpn/sslcon/auth.go): the life that   *)
(* module Manager gives its clients, whatever gateway, user and context do *)
(* meanwhile.  Module TunnelClient implements it.                          *)
(*                                                                         *)
(* One attempt is made.  It says "connected" at most once, when its tunnel *)
(* is configured, and one last word when it is over; only then the channel *)
(* is closed, for good.  A login says "disconnected" only if somebody has  *)
(* asked for its end, a tunnel only if its session or its context is over. *)
(* Talk, which leaves the status as it is, may come at any time in between.*)
(* A channel that is full takes no word.                                   *)
(***************************************************************************)
EXTENDS Naturals, Sequences

CONSTANT Cap  \* capacity of the channel

VARIABLES
  socks5,    \* the client was made for mode socks5
  phase,     \* how far the attempt is
  session,   \* its session with the gateway: "none", "open", "closed"
  asked,     \* Disconnect was called or the gateway has refused a code
  cancelled, \* the context is cancelled
  q          \* the words in the channel, oldest first

vars == <<socks5, phase, session, asked, cancelled, q>>

Talk     == {"progress", "2fa_required"}
LastWord == {"disconnected", "error"}

Say(s, w) == IF Len(s) < Cap THEN Append(s, w) ELSE s

Init ==
  /\ socks5 \in BOOLEAN /\ phase = "new" /\ session = "none"
  /\ asked = FALSE /\ cancelled = FALSE /\ q = <<>>

Move(from, to) == phase = from /\ phase' = to

Begin ==
  /\ Move("new", "login")
  /\ UNCHANGED <<socks5, session, asked, cancelled, q>>

Talks ==
  /\ phase \notin {"new", "closed"}
  /\ \E w \in Talk : q' = Say(q, w)
  /\ UNCHANGED <<socks5, phase, session, asked, cancelled>>

LoginEnds ==
  /\ Move("login", "ended")
  /\ \E w \in LastWord :
       /\ w = "disconnected" => asked \/ cancelled
       /\ q' = Say(q, w) \/ q' = Say(Say(q, "progress"), w)
  /\ UNCHANGED <<socks5, session, asked, cancelled>>

TunnelMade ==
  /\ Move("login", "setup")
  /\ session = "none" /\ session' = "open"
  /\ UNCHANGED <<socks5, asked, cancelled, q>>

Connected ==
  /\ Move("setup", "up")
  /\ q' = Say(q, "connected")
  /\ UNCHANGED <<socks5, session, asked, cancelled>>

SetupFails ==
  /\ Move("setup", "ended")
  /\ q' = Say(q, "error")
  /\ UNCHANGED <<socks5, session, asked, cancelled>>

TunnelEnds ==
  /\ Move("up", "ended")
  /\ cancelled \/ session = "closed"
  /\ q' = Say(q, "disconnected")
  /\ UNCHANGED <<socks5, session, asked, cancelled>>

\* By the gateway, a goroutine of the tunnel or Tunnel.Close.
SessionCloses ==
  /\ session = "open" /\ session' = "closed"
  /\ UNCHANGED <<socks5, phase, asked, cancelled, q>>

\* A bridge outlives no session: it is closed when the channel is.
Close ==
  /\ Move("ended", "closed")
  /\ socks5 /\ ~cancelled => session # "open"
  /\ UNCHANGED <<socks5, session, asked, cancelled, q>>

Ask ==
  /\ ~asked /\ asked' = TRUE
  /\ UNCHANGED <<socks5, phase, session, cancelled, q>>

Cancel ==
  /\ ~cancelled /\ cancelled' = TRUE
  /\ UNCHANGED <<socks5, phase, session, asked, q>>

\* Manager.forwardEvents.
Take ==
  /\ q # <<>> /\ q' = Tail(q)
  /\ UNCHANGED <<socks5, phase, session, asked, cancelled>>

Next ==
  \/ Begin \/ Talks \/ LoginEnds \/ TunnelMade \/ Connected \/ SetupFails \/ TunnelEnds
  \/ SessionCloses \/ Close \/ Ask \/ Cancel \/ Take

Spec == Init /\ [][Next]_vars
-----------------------------------------------------------------------------
\* forwardEvents sets the status of the tunnel from the words in their order:
\* no word contradicts the phase, "connected" comes once, the last word once
\* and after it, and only talk follows.
StatusInOrder ==
  /\ \A i \in 1..Len(q) :
       /\ q[i] = "connected" => phase \in {"up", "ended", "closed"} /\ session # "none"
       /\ q[i] \in LastWord => phase \in {"ended", "closed"}
  /\ \A i, j \in 1..Len(q) : i < j /\ q[j] \notin Talk => q[i] \notin LastWord
  /\ \A i, j \in 1..Len(q) : i < j /\ q[i] = "connected" => q[j] # "connected"
=============================================================================
