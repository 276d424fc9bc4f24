------------------------------- MODULE DeadPeer -------------------------------
(***************************************************************************)
(* Dead peer detection of one tunnel, second by second: DPDTimer and       *)
(* ReadDeadTimer (src/internal/vpn/sslcon/session.go) and the read         *)
(* deadlines of tlsChannel and dtlsChannel (tunnel.go).                    *)
(*                                                                         *)
(* A reader sets its deadline before a read, and only if ReadDeadTimer has *)
(* allowed it since the last time.  DPDTimer sends a request on both       *)
(* channels, a gateway that is alive answers each within MaxRtt seconds and*)
(* may send data at any time.  Requests are taken to find room in their    *)
(* queues (PacketFlow shows what happens otherwise) and, on DTLS, to arrive*)
(* together with their answers.                                            *)
(***************************************************************************)
EXTENDS Integers

CONSTANTS
  Intervals, \* values of X-CSTP-DPD and X-DTLS-DPD, in seconds; 0: not sent
  MaxRtt     \* a live gateway answers within this many seconds, the last begun counted

ASSUME IntervalsAssumption == Intervals \subseteq Nat
ASSUME RttAssumption == MaxRtt \in 1..6

Channel == {"tls", "dtls"}

VARIABLES
  dpd,   \* ConnSession.TLSDpdTime and DTLSDpdTime
  up,    \* the channels that are up
  alive, \* the gateway answers
  tick,  \* seconds to the next tick of DPDTimer
  reset, \* seconds to the next tick of ReadDeadTimer
  flag,  \* ResetTLSReadDead and ResetDTLSReadDead
  left,  \* seconds to the read deadline of each channel
  ans,   \* seconds to the answer to the last request, or None
  quiet  \* history: seconds since a frame came on each channel

vars == <<dpd, up, alive, tick, reset, flag, left, ans, quiet>>

None == -1

Lesser(a, b) == IF a < b THEN a ELSE b

\* Faulty variant: the interval of DTLS is left out.
PeriodTLS == IF dpd["tls"] - 5 < 10 THEN 10 ELSE dpd["tls"] - 5

\* dpdTime of DPDTimer.
Period == LET d == Lesser(dpd["tls"], dpd["dtls"]) - 5 IN IF d < 10 THEN 10 ELSE d

\* dead of tlsChannel and dtlsChannel.
Dead(c) == dpd[c] + 5

\* Both channels have just come up, their readers have set their deadlines.
Init ==
  /\ dpd \in [Channel -> Intervals]
  /\ up = [c \in Channel |-> TRUE] /\ alive = TRUE
  /\ tick = Period /\ reset = 4
  /\ flag = [c \in Channel |-> FALSE]
  /\ left = [c \in Channel |-> Dead(c)]
  /\ ans = [c \in Channel |-> None]
  /\ quiet = [c \in Channel |-> 0]
-----------------------------------------------------------------------------
\* DPDTimer sends a request on each channel.
DPDTick ==
  /\ up["tls"] /\ tick = 0
  /\ \E r \in [Channel -> 0..MaxRtt] :
       ans' = [c \in Channel |-> IF up[c] /\ alive THEN r[c] ELSE ans[c]]
  /\ tick' = Period
  /\ UNCHANGED <<dpd, up, alive, reset, flag, left, quiet>>

\* Faulty variant: the timer sets the deadlines itself.
ReadDeadTickArms ==
  /\ up["tls"] /\ reset = 0
  /\ reset' = 4
  /\ left' = [c \in Channel |-> Dead(c)]
  /\ UNCHANGED <<dpd, up, alive, tick, flag, ans, quiet>>

\* ReadDeadTimer.
ReadDeadTick ==
  /\ up["tls"] /\ reset = 0
  /\ reset' = 4
  /\ flag' = [c \in Channel |-> TRUE]
  /\ UNCHANGED <<dpd, up, alive, tick, left, ans, quiet>>

\* A frame is read, the answer or another; the next read may set the deadline.
Frame(c) ==
  /\ up[c] /\ alive
  /\ ans' = [ans EXCEPT ![c] = IF @ = 0 THEN None ELSE @]
  /\ quiet' = [quiet EXCEPT ![c] = 0]
  /\ left' = [left EXCEPT ![c] = IF flag[c] THEN Dead(c) ELSE @]
  /\ flag' = [flag EXCEPT ![c] = FALSE]
  /\ UNCHANGED <<dpd, up, alive, tick, reset>>

\* A read fails at its deadline: the end of TLS is the end of the session.
Expire(c) ==
  /\ up[c] /\ left[c] = 0 /\ ans[c] # 0
  /\ up' = IF c = "tls" THEN [d \in Channel |-> FALSE] ELSE [up EXCEPT !["dtls"] = FALSE]
  /\ UNCHANGED <<dpd, alive, tick, reset, flag, left, ans, quiet>>

\* The gateway falls silent.
FallSilent ==
  /\ up["tls"] /\ alive /\ alive' = FALSE
  /\ ans' = [c \in Channel |-> None]
  /\ UNCHANGED <<dpd, up, tick, reset, flag, left, quiet>>

\* A second passes when nothing is due.
Second ==
  /\ up["tls"] /\ tick > 0 /\ reset > 0
  /\ \A c \in Channel : up[c] => left[c] > 0 /\ ans[c] # 0
  /\ tick' = tick - 1 /\ reset' = reset - 1
  /\ left' = [c \in Channel |-> IF up[c] THEN left[c] - 1 ELSE left[c]]
  /\ ans' = [c \in Channel |-> IF up[c] /\ ans[c] # None THEN ans[c] - 1 ELSE ans[c]]
  /\ quiet' = [c \in Channel |-> IF up[c] THEN quiet[c] + 1 ELSE quiet[c]]
  /\ UNCHANGED <<dpd, up, alive, flag>>

Next ==
  \/ DPDTick \/ ReadDeadTick \/ FallSilent \/ Second
  \/ \E c \in Channel : Frame(c) \/ Expire(c)

Spec == Init /\ [][Next]_vars
-----------------------------------------------------------------------------
TypeOK ==
  /\ dpd \in [Channel -> Intervals]
  /\ up \in [Channel -> BOOLEAN] /\ alive \in BOOLEAN
  /\ tick \in 0..Period /\ reset \in 0..4
  /\ flag \in [Channel -> BOOLEAN]
  /\ left \in [Channel -> Nat] /\ quiet \in [Channel -> Nat]
  /\ ans \in [Channel -> {None} \cup 0..MaxRtt]

\* A gateway that is alive keeps an idle channel: with an interval of at least
\* 9 s and the time of an answer, no deadline passes before the answer to
\* the next request, although only a read after a tick of ReadDeadTimer moves
\* the deadline and one period of DPDTimer serves both channels.  Below
\* that (or without the header) 10 s between requests are too long.
AliveIsKept ==
  alive => \A c \in Channel : dpd["tls"] >= 9 + MaxRtt /\ dpd[c] >= 9 + MaxRtt => up[c]

\* A channel on which nothing has come for its interval and 5 s is down:
\* ReadDeadTimer allows a new deadline but only a frame brings it.
SilentIsFound == \A c \in Channel : up[c] => quiet[c] <= Dead(c)
=============================================================================
