--------------------------- MODULE DeadPeer_proofs ---------------------------
(* Theorems about DeadPeer: for all intervals and all answer times up to   *)
(* MaxRtt.                                                                 *)
EXTENDS DeadPeer, TLAPS

Big(c) == dpd["tls"] >= 9 + MaxRtt /\ dpd[c] >= 9 + MaxRtt

\* What is left of a deadline and the silence so far never exceed the limit.
Bounded == \A c \in Channel : up[c] => left[c] + quiet[c] <= Dead(c)

\* An answer that is due came from the last tick.
Due == \A c \in Channel : up[c] /\ ans[c] # None => tick >= ans[c] + Period - MaxRtt

\* A deadline nobody may move yet reaches past the next answer, counted from
\* the next tick of ReadDeadTimer; one that the next frame moves, to that frame.
Reach ==
  alive => \A c \in Channel : Big(c) =>
    /\ up[c]
    /\ ~flag[c] => left[c] >= Period + MaxRtt + reset
    /\ flag[c] /\ ans[c] # None => left[c] >= ans[c]
    /\ flag[c] /\ ans[c] = None => left[c] >= tick + MaxRtt

Inv == TypeOK /\ Bounded /\ Due /\ Reach
-----------------------------------------------------------------------------
\* The period is a number, 10 s at least, and one period, an answer and a tick
\* of ReadDeadTimer fit into the deadline of a channel with a big interval.
LEMMA PeriodFits ==
  ASSUME dpd \in [Channel -> Intervals]
  PROVE  /\ Period \in Nat /\ Period >= 10
         /\ \A c \in Channel : Dead(c) \in Nat /\ dpd[c] \in Nat
         /\ \A c \in Channel : Big(c) => Dead(c) >= Period + MaxRtt + 4
<1>1. dpd["tls"] \in Nat /\ dpd["dtls"] \in Nat
  BY IntervalsAssumption DEF Channel
<1>2. Period \in Nat /\ Period >= 10
  BY <1>1 DEF Period, Lesser
<1>3. \A c \in Channel : Dead(c) \in Nat /\ dpd[c] \in Nat
  BY <1>1 DEF Channel, Dead
<1>4. ASSUME NEW c \in Channel, Big(c) PROVE Dead(c) >= Period + MaxRtt + 4
  <2>1. Period = 10 \/ Period + 10 <= Dead(c)
    BY <1>1 DEF Period, Lesser, Dead, Channel
  <2>2. Dead(c) >= 14 + MaxRtt
    BY <1>1, <1>4, RttAssumption DEF Big, Dead, Channel
  <2> QED
    BY <2>1, <2>2, <1>2, <1>3, RttAssumption
<1> QED
  BY <1>2, <1>3, <1>4

LEMMA InitInv == Init => Inv
<1> SUFFICES ASSUME Init PROVE Inv
  OBVIOUS
<1>1. dpd \in [Channel -> Intervals]
  BY DEF Init
<1>2. TypeOK
  BY <1>1, PeriodFits DEF Init, TypeOK, None
<1>3. Bounded /\ Due
  BY <1>1, PeriodFits DEF Init, Bounded, Due, None
<1>4. Reach
  BY <1>1, PeriodFits, RttAssumption DEF Init, Reach
<1> QED
  BY <1>2, <1>3, <1>4 DEF Inv

LEMMA StepInv == Inv /\ [Next]_vars => Inv'
<1> SUFFICES ASSUME Inv, [Next]_vars PROVE Inv'
  OBVIOUS
<1>p. /\ Period \in Nat /\ Period >= 10
      /\ \A c \in Channel : Dead(c) \in Nat /\ dpd[c] \in Nat
      /\ \A c \in Channel : Big(c) => Dead(c) >= Period + MaxRtt + 4
  BY PeriodFits DEF Inv, TypeOK
<1>d. dpd' = dpd
  BY DEF Next, vars, DPDTick, ReadDeadTick, FallSilent, Second, Frame, Expire
<1>c. /\ Period' = Period
      /\ \A c \in Channel : Dead(c)' = Dead(c) /\ (Big(c)' <=> Big(c))
  BY <1>d DEF Period, Lesser, Dead, Big
<1>r. MaxRtt \in 1..6
  BY RttAssumption
<1>1. CASE DPDTick
  <2>1. TypeOK'
    BY <1>1, <1>p, <1>c, <1>r DEF Inv, TypeOK, DPDTick, None
  <2>2. Bounded'
    BY <1>1, <1>c DEF Inv, Bounded, DPDTick
  <2>3. Due'
    BY <1>1, <1>p, <1>c, <1>r DEF Inv, TypeOK, Due, DPDTick, None
  <2>4. Reach'
    BY <1>1, <1>p, <1>c, <1>r DEF Inv, TypeOK, Due, Reach, DPDTick, None
  <2> QED BY <2>1, <2>2, <2>3, <2>4 DEF Inv
<1>2. CASE ReadDeadTick
  <2>1. TypeOK'
    BY <1>2, <1>p, <1>c DEF Inv, TypeOK, ReadDeadTick
  <2>2. Bounded' /\ Due'
    BY <1>2, <1>c DEF Inv, Bounded, Due, ReadDeadTick
  <2>3. Reach'
    BY <1>2, <1>p, <1>c, <1>r DEF Inv, TypeOK, Reach, ReadDeadTick, None
  <2> QED BY <2>1, <2>2, <2>3 DEF Inv
<1>3. CASE FallSilent
  <2>1. TypeOK'
    BY <1>3, <1>p, <1>c DEF Inv, TypeOK, FallSilent, None
  <2>2. Bounded' /\ Due' /\ Reach'
    BY <1>3, <1>c DEF Inv, Bounded, Due, Reach, FallSilent, None
  <2> QED BY <2>1, <2>2 DEF Inv
<1>4. CASE Second
  <2>1. TypeOK'
    BY <1>4, <1>p, <1>c, <1>r DEF Inv, TypeOK, Second, None
  <2>2. Bounded'
    BY <1>4, <1>p, <1>c DEF Inv, TypeOK, Bounded, Second
  <2>3. Due'
    BY <1>4, <1>p, <1>c, <1>r DEF Inv, TypeOK, Due, Second, None
  <2>4. Reach'
    BY <1>4, <1>p, <1>c, <1>r DEF Inv, TypeOK, Reach, Second, None
  <2> QED BY <2>1, <2>2, <2>3, <2>4 DEF Inv
<1>5. ASSUME NEW c \in Channel, Frame(c) PROVE Inv'
  <2>1. TypeOK'
    BY <1>5, <1>p, <1>c, <1>r DEF Inv, TypeOK, Frame, None
  <2>2. Bounded'
    BY <1>5, <1>p, <1>c DEF Inv, TypeOK, Bounded, Frame
  <2>3. Due'
    BY <1>5, <1>p, <1>c, <1>r DEF Inv, TypeOK, Due, Frame, None
  <2>4. Reach'
    BY <1>5, <1>p, <1>c, <1>r DEF Inv, TypeOK, Reach, Frame, None
  <2> QED BY <2>1, <2>2, <2>3, <2>4 DEF Inv
<1>6. ASSUME NEW c \in Channel, Expire(c) PROVE Inv'
  <2>1. TypeOK'
    BY <1>6, <1>p, <1>c DEF Inv, TypeOK, Expire
  <2>2. Bounded' /\ Due'
    BY <1>6, <1>c DEF Inv, TypeOK, Bounded, Due, Expire, Channel
  <2>3. ~(alive /\ Big(c))
    BY <1>6, <1>p, <1>r DEF Inv, TypeOK, Reach, Expire, None
  <2>4. ASSUME alive, NEW d \in Channel, Big(d) PROVE up'[d]
    <3>1. c # "tls" /\ c # d
      BY <2>3, <2>4, <1>p DEF Big, Channel
    <3> QED BY <3>1, <2>4, <1>6 DEF Expire, Inv, TypeOK, Reach, Channel
  <2>5. Reach'
    BY <2>4, <1>6, <1>c DEF Inv, Reach, Expire
  <2> QED BY <2>1, <2>2, <2>5 DEF Inv
<1>7. CASE UNCHANGED vars
  BY <1>7, <1>c DEF Inv, TypeOK, Bounded, Due, Reach, vars
<1> QED
  BY <1>1, <1>2, <1>3, <1>4, <1>5, <1>6, <1>7 DEF Next

LEMMA InvHolds == Spec => []Inv
  BY InitInv, StepInv, PTL DEF Spec
-----------------------------------------------------------------------------
\* Every variable has its type; so no counter of seconds runs past zero.
THEOREM TypeCorrect == Spec => []TypeOK
<1>1. Inv => TypeOK
  BY DEF Inv
<1> QED BY <1>1, InvHolds, PTL

\* A channel is given up at the latest when its interval and 5 s have gone by
\* in silence, whatever the two timers do (tunnel.go:508, session.go:207).
THEOREM SilenceCorrect == Spec => []SilentIsFound
<1>1. Inv => SilentIsFound
  BY PeriodFits DEF Inv, TypeOK, Bounded, SilentIsFound
<1> QED BY <1>1, InvHolds, PTL

\* With intervals of at least 9 s and the time of an answer an idle channel to
\* a gateway that is alive is never given up (session.go:163).
THEOREM AliveCorrect == Spec => []AliveIsKept
<1>1. Inv => AliveIsKept
  BY DEF Inv, Reach, AliveIsKept, Big
<1> QED BY <1>1, InvHolds, PTL
=============================================================================
