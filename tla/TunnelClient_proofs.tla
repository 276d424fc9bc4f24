------------------------- MODULE TunnelClient_proofs -------------------------
(* Proofs about TunnelClient, for all goroutines, capacities and bounds.   *)
EXTENDS TunnelClient, TLAPS

\* A channel that takes an event stays a channel within its capacity (emit).
LEMMA PutType ==
  ASSUME NEW q \in Seq(EventType), Len(q) <= EventsCap, NEW e \in EventType
  PROVE  Put(q, e) \in Seq(EventType) /\ Len(Put(q, e)) <= EventsCap
<1>1. CASE Len(q) < EventsCap
  <2>1. Put(q, e) = Append(q, e)
    BY <1>1 DEF Put
  <2>2. Append(q, e) \in Seq(EventType) /\ Len(Append(q, e)) = Len(q) + 1
    OBVIOUS
  <2> QED
    BY <1>1, <2>1, <2>2, BoundAssumption
<1>2. CASE ~(Len(q) < EventsCap)
  BY <1>2 DEF Put
<1> QED
  BY <1>1, <1>2

\* A step of one goroutine: it is where it goes, the others stay where they are.
LEMMA RunGoto ==
  ASSUME ProgramPoints, NEW l \in RunLabels, Goto(Run, l)
  PROVE  ProgramPoints' /\ pc'[Run] = l /\ \A p \in Procs \ {Run} : pc'[p] = pc[p]
  BY ProcessAssumption DEF ProgramPoints, Goto, Procs

\* The same for a Disconnect.
LEMMA StopperGoto ==
  ASSUME ProgramPoints, NEW d \in Stoppers, NEW l \in StopLabels, Goto(d, l)
  PROVE  ProgramPoints' /\ pc'[d] = l /\ \A p \in Procs \ {d} : pc'[p] = pc[p]
  BY ProcessAssumption DEF ProgramPoints, Goto, Procs

\* The same for a Submit2FA.
LEMMA SubmitterGoto ==
  ASSUME ProgramPoints, NEW s \in Submitters, NEW l \in SubmitLabels, Goto(s, l)
  PROVE  ProgramPoints' /\ pc'[s] = l /\ \A p \in Procs \ {s} : pc'[p] = pc[p]
  BY ProcessAssumption DEF ProgramPoints, Goto, Procs

\* NewClient makes a client of the right type.
LEMMA TypeInit == Init => TypeOK
<1> SUFFICES ASSUME Init PROVE TypeOK
  OBVIOUS
<1>1. ProgramPoints
  BY ProcessAssumption DEF Init, ProgramPoints, Procs, RunLabels, StopLabels, SubmitLabels
<1>2. events \in Seq(EventType) /\ Len(events) <= EventsCap
  BY BoundAssumption DEF Init
<1>3. hops \in 0..MaxRedirects /\ round \in 0..2 /\ submits \in 0..MaxSubmits
  BY BoundAssumption DEF Init
<1> QED
  BY <1>1, <1>2, <1>3, Zenon DEF Init, TypeOK, Procs

\* Every step of every goroutine keeps the type.
LEMMA TypeStep == TypeOK /\ [Next]_vars => TypeOK'
<1> SUFFICES ASSUME TypeOK, [Next]_vars PROVE TypeOK'
  OBVIOUS
<1> USE ProcessAssumption, BoundAssumption DEF TypeOK, Procs

<1>1. CASE Connect
  BY <1>1, RunGoto
  DEF Connect, authVars, toldVars, connVars, tunVars, osVars, evVars, At, RunLabels
<1>2. CASE InitAuthBegin
  BY <1>2, RunGoto, PutType
  DEF InitAuthBegin, authVars, toldVars, connVars, tunVars, osVars, At, Emit, RunLabels,
      EventType
<1>3. CASE InitAuthOK
  BY <1>3, RunGoto
  DEF InitAuthOK, authVars, toldVars, connVars, tunVars, osVars, evVars, At, RunLabels
<1>4. CASE InitAuthRedirect
  <2>1. hops' \in 0..MaxRedirects
    BY <1>4 DEF InitAuthRedirect
  <2>2. events' \in Seq(EventType) /\ Len(events') <= EventsCap
    BY <1>4, PutType DEF InitAuthRedirect, Emit, EventType
  <2>3. ProgramPoints'
    BY <1>4, RunGoto DEF InitAuthRedirect, ProgramPoints, RunLabels
  <2> QED
    BY <1>4, <2>1, <2>2, <2>3
    DEF InitAuthRedirect, lockVars, toldVars, connVars, tunVars, osVars, At, Emit
<1>5. CASE InitAuthFail
  BY <1>5, RunGoto, PutType
  DEF InitAuthFail, authVars, toldVars, tunVars, osVars, At, Fail, Emit, RunLabels,
      EventType
<1>6. CASE PasswordAuthBegin
  <2>1. round' \in 0..2
    BY <1>6 DEF PasswordAuthBegin, Panic, authVars
  <2>2. events' \in Seq(EventType) /\ Len(events') <= EventsCap
    BY <1>6, PutType DEF PasswordAuthBegin, Emit, EventType, Panic, evVars
  <2>3. ProgramPoints'
    BY <1>6, RunGoto DEF PasswordAuthBegin, Panic, ProgramPoints, RunLabels
  <2> QED
    BY <1>6, <2>1, <2>2, <2>3
    DEF PasswordAuthBegin, lockVars, authVars, toldVars, connVars, tunVars, osVars, At,
        Emit, Panic, evVars
<1>7. CASE PasswordAuthComplete
  BY <1>7, RunGoto, PutType
  DEF PasswordAuthComplete, toldVars, connVars, tunVars, osVars, At, Emit, RunLabels,
      EventType
<1>8. CASE PasswordAuthChallenge
  BY <1>8, RunGoto
  DEF PasswordAuthChallenge, toldVars, connVars, tunVars, osVars, evVars, At, RunLabels
<1>9. CASE PasswordAuthAgain
  <2>1. round' \in 0..2
    BY <1>9 DEF PasswordAuthAgain
  <2>2. ProgramPoints'
    BY <1>9 DEF PasswordAuthAgain, ProgramPoints
  <2> QED
    BY <1>9, <2>1, <2>2
    DEF PasswordAuthAgain, lockVars, toldVars, connVars, tunVars, osVars, evVars, At
<1>10. CASE PasswordAuthFail
  BY <1>10, RunGoto, PutType
  DEF PasswordAuthFail, authVars, toldVars, tunVars, osVars, At, Fail, Emit, RunLabels,
      EventType
<1>11. CASE Announce2FA
  BY <1>11, RunGoto, PutType
  DEF Announce2FA, lockVars, authVars, toldVars, connVars, tunVars, osVars, At, Emit,
      RunLabels, EventType
<1>12. CASE Wait2FAPassed
  <2>1. twoFAOK' \in BOOLEAN
    BY <1>12 DEF Wait2FAPassed
  <2> QED
    BY <1>12, <2>1, RunGoto, PutType
    DEF Wait2FAPassed, lockVars, toldVars, connVars, tunVars, osVars, At, Emit, RunLabels,
        EventType
<1>13. CASE Wait2FACancelled
  BY <1>13, RunGoto, PutType
  DEF Wait2FACancelled, lockVars, authVars, toldVars, connVars, tunVars, osVars, At, Emit,
      RunLabels, EventType
<1>14. CASE SetupTunnelCheck
  BY <1>14, RunGoto, PutType
  DEF SetupTunnelCheck, lockVars, authVars, toldVars, connVars, tunVars, osVars, evVars,
      At, Fail, Emit, RunLabels, EventType
<1>15. CASE SetupTunnelCookie
  BY <1>15, RunGoto, PutType
  DEF SetupTunnelCookie, lockVars, authVars, toldVars, connVars, tunVars, osVars, evVars,
      At, Fail, Emit, RunLabels, EventType
<1>16. CASE SendConnect
  <2>1. ProgramPoints'
    <3> DEFINE l == IF wire = "open" THEN "connWait" ELSE "connErr"
    <3>1. l \in RunLabels
      BY DEF RunLabels
    <3>2. CASE Goto(Run, l)
      <4> HIDE DEF l
      <4> QED
        BY <3>1, <3>2, RunGoto
    <3>3. CASE UNCHANGED pc
      BY <3>3 DEF ProgramPoints
    <3> QED
      BY <1>16, <3>2, <3>3 DEF SendConnect, Panic
  <2> QED
    BY <1>16, <2>1
    DEF SendConnect, lockVars, authVars, toldVars, connVars, tunVars, osVars, evVars, At,
        Panic
<1>17. CASE ConnectAccepted
  BY <1>17, RunGoto
  DEF ConnectAccepted, lockVars, authVars, toldVars, connVars, tunVars, osVars, evVars, At,
      RunLabels
<1>18. CASE ConnectRefused
  BY <1>18, RunGoto
  DEF ConnectRefused, lockVars, authVars, toldVars, connVars, tunVars, osVars, evVars, At,
      RunLabels
<1>19. CASE SetupTunnelFail
  <2>1. ProgramPoints'
    BY <1>19, RunGoto DEF SetupTunnelFail, Fail, Panic, ProgramPoints, RunLabels
  <2>2. events' \in Seq(EventType) /\ Len(events') <= EventsCap
    BY <1>19, PutType DEF SetupTunnelFail, Fail, Emit, EventType, Panic, evVars
  <2> QED
    BY <1>19, <2>1, <2>2
    DEF SetupTunnelFail, lockVars, authVars, toldVars, tunVars, osVars, At, Fail, Panic,
        Emit, connVars, evVars
<1>20. CASE BuildTunnel
  <2>1. ProgramPoints'
    BY <1>20, RunGoto DEF BuildTunnel, Panic, ProgramPoints, RunLabels, SettingUp
  <2>2. pumps' \subseteq Pump
    BY <1>20 DEF BuildTunnel, Panic, osVars, Pump
  <2> QED
    BY <1>20, <2>1, <2>2
    DEF BuildTunnel, lockVars, authVars, toldVars, connVars, evVars, At, Panic, tunVars,
        osVars, SettingUp, Pump
<1>21. CASE RecordTunnel
  BY <1>21, RunGoto
  DEF RecordTunnel, lockVars, authVars, toldVars, connVars, osVars, evVars, At, RunLabels,
      SettingUp
<1>22. CASE HookDone
  BY <1>22, RunGoto, PutType
  DEF HookDone, lockVars, authVars, toldVars, connVars, tunVars, osVars, At, Emit,
      RunLabels, EventType
<1>23. CASE HookFailed
  BY <1>23, RunGoto, PutType
  DEF HookFailed, lockVars, authVars, toldVars, connVars, tunVars, osVars, At, Emit,
      RunLabels, CloseLabels, EventType
<1>24. CASE CreateDevice
  BY <1>24, RunGoto
  DEF CreateDevice, lockVars, authVars, toldVars, connVars, tunVars, evVars, At, RunLabels,
      SettingUp, Pump
<1>25. CASE CreateFailed
  BY <1>25, RunGoto, PutType
  DEF CreateFailed, lockVars, authVars, toldVars, connVars, tunVars, osVars, At, Fail,
      Emit, RunLabels, EventType
<1>26. CASE AssignDevice
  BY <1>26, RunGoto
  DEF AssignDevice, lockVars, authVars, toldVars, connVars, evVars, At, RunLabels,
      SettingUp, Pump
<1>27. CASE ApplyRoutes
  BY <1>27, RunGoto
  DEF ApplyRoutes, lockVars, authVars, toldVars, connVars, tunVars, evVars, At, RunLabels,
      SettingUp, Pump
<1>28. CASE ApplyDNSPolicy
  BY <1>28, RunGoto, PutType
  DEF ApplyDNSPolicy, lockVars, authVars, toldVars, connVars, tunVars, At, Emit, RunLabels,
      SettingUp, EventType, Pump
<1>29. CASE RunEnds
  BY <1>29, RunGoto, PutType
  DEF RunEnds, lockVars, authVars, toldVars, connVars, tunVars, osVars, At, Emit,
      RunLabels, EventType
<1>30. CASE ExitRunning
  <2>1. running' \in BOOLEAN
    BY <1>30 DEF ExitRunning
  <2> QED
    BY <1>30, <2>1, RunGoto
    DEF ExitRunning, authVars, toldVars, connVars, tunVars, osVars, evVars, At, RunLabels
<1>31. CASE CloseEvents
  BY <1>31, RunGoto
  DEF CloseEvents, lockVars, authVars, toldVars, connVars, tunVars, osVars, At, RunLabels
<1>32. ASSUME NEW p \in Closers, TunnelClose(p) PROVE TypeOK'
  <2>1. overlap' \in BOOLEAN
    <3>1. CASE overlap' = (pc[Run] \in SettingUp)
      BY <3>1
    <3>2. CASE UNCHANGED overlap
      BY <3>2
    <3> QED
      BY <1>32, <3>1, <3>2 DEF TunnelClose
  <2>2. once' \in {"fresh", "busy", "finished"}
    BY <1>32 DEF TunnelClose
  <2>3. ProgramPoints'
    BY <1>32, RunGoto, StopperGoto
    DEF TunnelClose, AfterClose, Closers, RunLabels, StopLabels, CloseLabels
  <2> QED
    BY <1>32, <2>1, <2>2, <2>3
    DEF TunnelClose, lockVars, authVars, toldVars, connVars, osVars, evVars, At,
        AfterClose, SettingUp, Closers
<1>33. ASSUME NEW p \in Closers, RemoveRoutes(p) PROVE TypeOK'
  <2>1. routes' \in BOOLEAN
    BY <1>33 DEF RemoveRoutes
  <2> QED
    BY <1>33, <2>1, RunGoto, StopperGoto
    DEF RemoveRoutes, lockVars, authVars, toldVars, connVars, tunVars, evVars, At, Closers,
        RunLabels, StopLabels, CloseLabels
<1>34. ASSUME NEW p \in Closers, RemoveDNSPolicy(p) PROVE TypeOK'
  <2>1. nrpt' \in BOOLEAN
    BY <1>34 DEF RemoveDNSPolicy
  <2> QED
    BY <1>34, <2>1, RunGoto, StopperGoto
    DEF RemoveDNSPolicy, lockVars, authVars, toldVars, connVars, tunVars, evVars, At,
        Closers, RunLabels, StopLabels, CloseLabels
<1>35. ASSUME NEW p \in Closers, CloseSession(p) PROVE TypeOK'
  BY <1>35, RunGoto, StopperGoto
  DEF CloseSession, lockVars, authVars, toldVars, connVars, osVars, evVars, At, Closers,
      RunLabels, StopLabels, CloseLabels
<1>36. ASSUME NEW p \in Closers, CloseTLS(p) PROVE TypeOK'
  BY <1>36, RunGoto, StopperGoto
  DEF CloseTLS, lockVars, authVars, toldVars, tunVars, osVars, evVars, At, Closers,
      RunLabels, StopLabels, CloseLabels
<1>37. ASSUME NEW p \in Closers, CloseDevice(p) PROVE TypeOK'
  <2>1. routes' \in BOOLEAN /\ dev' \in {"none", "open", "closed"}
    BY <1>37 DEF CloseDevice
  <2> QED
    BY <1>37, <2>1, RunGoto, StopperGoto
    DEF CloseDevice, lockVars, authVars, toldVars, connVars, evVars, At, AfterClose,
        Closers, RunLabels, StopLabels, CloseLabels
<1>38. ASSUME NEW d \in Stoppers, DisconnectCall(d) PROVE TypeOK'
  BY <1>38, StopperGoto
  DEF DisconnectCall, lockVars, authVars, connVars, tunVars, osVars, evVars, At,
      StopLabels, CloseLabels
<1>39. ASSUME NEW d \in Stoppers, DisconnectRead(d) PROVE TypeOK'
  <2>1. running' \in BOOLEAN
    BY <1>39 DEF DisconnectRead
  <2> QED
    BY <1>39, <2>1, StopperGoto
    DEF DisconnectRead, authVars, toldVars, connVars, tunVars, osVars, evVars, At,
        StopLabels, CloseLabels
<1>40. ASSUME NEW d \in Stoppers, CloseConn(d) PROVE TypeOK'
  BY <1>40, StopperGoto
  DEF CloseConn, authVars, toldVars, tunVars, osVars, evVars, At, StopLabels, CloseLabels
<1>41. ASSUME NEW d \in Stoppers, ClearConn(d) PROVE TypeOK'
  BY <1>41, StopperGoto
  DEF ClearConn, authVars, toldVars, tunVars, osVars, evVars, At, StopLabels, CloseLabels
<1>42. ASSUME NEW s \in Submitters, SubmitBegin(s) PROVE TypeOK'
  <2>1. submits' \in 0..MaxSubmits
    BY <1>42 DEF SubmitBegin
  <2>2. ProgramPoints'
    BY <1>42, SubmitterGoto DEF SubmitBegin, ProgramPoints, SubmitLabels
  <2> QED
    BY <1>42, <2>1, <2>2
    DEF SubmitBegin, toldVars, connVars, tunVars, osVars, evVars, At
<1>43. ASSUME NEW s \in Submitters, SubmitAccepted(s) PROVE TypeOK'
  <2>1. needs2FA' \in BOOLEAN /\ token' \in BOOLEAN
    BY <1>43 DEF SubmitAccepted
  <2> QED
    BY <1>43, <2>1, SubmitterGoto
    DEF SubmitAccepted, toldVars, connVars, tunVars, osVars, evVars, At, SubmitLabels
<1>44. ASSUME NEW s \in Submitters, SubmitChallenged(s) PROVE TypeOK'
  <2>1. events' \in Seq(EventType) /\ Len(events') <= EventsCap
    BY <1>44, PutType DEF SubmitChallenged, Emit, EventType, Panic, evVars
  <2>2. ProgramPoints'
    BY <1>44, SubmitterGoto DEF SubmitChallenged, ProgramPoints, Panic, SubmitLabels
  <2> QED
    BY <1>44, <2>1, <2>2
    DEF SubmitChallenged, authVars, toldVars, connVars, tunVars, osVars, At, Emit, Panic,
        lockVars, evVars
<1>45. ASSUME NEW s \in Submitters, SubmitRejected(s) PROVE TypeOK'
  <2>1. needs2FA' \in BOOLEAN
    BY <1>45 DEF SubmitRejected
  <2> QED
    BY <1>45, <2>1, SubmitterGoto
    DEF SubmitRejected, connVars, tunVars, osVars, evVars, At, SubmitLabels
<1>46. ASSUME NEW s \in Submitters, SubmitFailed(s) PROVE TypeOK'
  BY <1>46, SubmitterGoto
  DEF SubmitFailed, authVars, toldVars, tunVars, osVars, evVars, At, SubmitLabels
<1>47. ASSUME NEW g \in Pump, TLSPumpExit(g) PROVE TypeOK'
  BY <1>47
  DEF TLSPumpExit, lockVars, authVars, toldVars, evVars, Alive, ProgramPoints
<1>48. CASE TunToPayloadOutExit
  <2>1. routes' \in BOOLEAN
    BY <1>48 DEF TunToPayloadOutExit
  <2> QED
    BY <1>48, <2>1
    DEF TunToPayloadOutExit, lockVars, authVars, toldVars, connVars, tunVars, evVars,
        Alive, ProgramPoints
<1>49. CASE PayloadInToTunExit
  <2>1. routes' \in BOOLEAN
    BY <1>49 DEF PayloadInToTunExit
  <2> QED
    BY <1>49, <2>1
    DEF PayloadInToTunExit, lockVars, authVars, toldVars, connVars, evVars, Alive,
        ProgramPoints
<1>50. CASE PeerCloses
  BY <1>50
  DEF PeerCloses, lockVars, authVars, toldVars, tunVars, osVars, evVars, Alive,
      ProgramPoints
<1>51. CASE CancelContext
  BY <1>51
  DEF CancelContext, lockVars, authVars, connVars, tunVars, osVars, evVars, Alive,
      ProgramPoints
<1>52. CASE TakeEvent
  BY <1>52
  DEF TakeEvent, lockVars, authVars, toldVars, connVars, tunVars, osVars, Alive,
      ProgramPoints
<1>53. CASE StartChannel
  BY <1>53, RunGoto
  DEF StartChannel, lockVars, authVars, toldVars, connVars, tunVars, evVars, At, Pump,
      RunLabels, SettingUp
<1>54. CASE NilChannelPanics
  BY <1>54
  DEF NilChannelPanics, Panic, lockVars, authVars, toldVars, connVars, tunVars, osVars,
      evVars, ProgramPoints
<1>55. CASE UNCHANGED vars
  BY <1>55
  DEF vars, ProgramPoints, lockVars, authVars, toldVars, connVars, tunVars, osVars, evVars
<1> QED
  BY <1>1, <1>2, <1>3, <1>4, <1>5, <1>6, <1>7, <1>8, <1>9, <1>10, <1>11, <1>12, <1>13,
     <1>14, <1>15, <1>16, <1>17, <1>18, <1>19, <1>20, <1>21, <1>22, <1>23, <1>24, <1>25,
     <1>26, <1>27, <1>28, <1>29, <1>30, <1>31, <1>32, <1>33, <1>34, <1>35, <1>36, <1>37,
     <1>38, <1>39, <1>40, <1>41, <1>42, <1>43, <1>44, <1>45, <1>46, <1>47, <1>48, <1>49,
     <1>50, <1>51, <1>52, <1>53, <1>54, <1>55
  DEF Next, RunStep, GatewayAnswers, CloseStep, DisconnectStep, PumpStep, UserStep

\* Every variable keeps its type: no redirect beyond the limit of initWithRedirects
\* and no event beyond the capacity of Client.events, whoever calls what and when.
THEOREM TypeCorrect == Spec => []TypeOK
<1>1. Init => TypeOK
  BY TypeInit
<1>2. TypeOK /\ [Next]_vars => TypeOK'
  BY TypeStep
<1> QED
  BY <1>1, <1>2, PTL DEF Spec

-----------------------------------------------------------------------------
(* The second factor                                                       *)

Over == {"exit", "closeEv", "done"}
Asking == {"challenged", "wait2fa"}
Tunnelled == {"hook", "create", "assign", "routes", "dns", "up"} \cup CloseLabels

\* Who holds Client.mu: run during a login exchange, Disconnect between the two
\* statements of Close, Submit2FA while its code is under way.
Locking ==
  /\ mu = Run <=> pc[Run] \in {"initWait", "pwdWait"}
  /\ \A d \in Stoppers : mu = d <=> pc[d] = "cnil"
  /\ \A s \in Submitters : mu = s <=> pc[s] = "posted"

\* A code is under way only while the challenge is open; an open challenge is
\* not decided yet, and run has got to it and not past it, unless it was
\* cancelled; when run is past it the gateway has accepted a code.
Challenge ==
  /\ needs2FA => pc[Run] \in Asking \cup Over /\ ~twoFAOK
  /\ needs2FA /\ pc[Run] \in Over => stopped \/ ctxDone
  /\ \A s \in Submitters : pc[s] = "posted" => needs2FA
  /\ twoFAOK => granted /\ pc[Run] \in Asking \cup Over
  /\ pc[Run] \in {"setup", "cookie"} => granted

\* A Disconnect has been all the way through Client.Close.
Disconnected == stopped /\ \E d \in Stoppers : pc[d] = "returned"

\* Only a Disconnect clears the connection of a login that has begun, and the
\* tunnel and the end of the events come with their program points.
Progress ==
  /\ \A d \in Stoppers : pc[d] # "idle" => stopped
  /\ conn = "nil" => pc[Run] \in {"new", "init"} \cup Over \/ Disconnected
  /\ "nilChannel" \in pumps => Disconnected
  /\ tunnel => pc[Run] \in Tunnelled \cup Over
  /\ evClosed <=> pc[Run] = "done"

\* The inductive invariant of the second factor.
AuthInv ==
  /\ TypeOK /\ Locking /\ Challenge /\ Progress
  /\ NoLostWakeup /\ GrantedBeforeTunnel /\ PanicsAreCancellations

\* The invariant of the second factor holds in a new client.
LEMMA AuthInit == Init => AuthInv
  BY TypeInit, ProcessAssumption
  DEF Init, Procs, AuthInv, Locking, Challenge, Progress, NoLostWakeup, GrantedBeforeTunnel,
      PanicsAreCancellations, SettingUp, Asking, Over, Tunnelled, Disconnected

\* Every step of every goroutine keeps the invariant of the second factor.
LEMMA AuthStep == AuthInv /\ [Next]_vars => AuthInv'
<1> SUFFICES ASSUME AuthInv, [Next]_vars PROVE AuthInv'
  OBVIOUS
<1>type. TypeOK' /\ TypeOK /\ ProgramPoints
  BY TypeStep DEF AuthInv, TypeOK
<1> USE ProcessAssumption, <1>type
    DEF AuthInv, Locking, Challenge, Progress, NoLostWakeup, GrantedBeforeTunnel,
        PanicsAreCancellations, Disconnected, Procs, Over, Asking, Tunnelled, SettingUp,
        CloseLabels

<1>1. CASE Connect
  BY <1>1, RunGoto
  DEF Connect, authVars, toldVars, connVars, tunVars, osVars, evVars, At, RunLabels
<1>2. CASE InitAuthBegin
  BY <1>2, RunGoto
  DEF InitAuthBegin, authVars, toldVars, connVars, tunVars, osVars, At, Emit, RunLabels
<1>3. CASE InitAuthOK
  BY <1>3, RunGoto
  DEF InitAuthOK, authVars, toldVars, connVars, tunVars, osVars, evVars, At, RunLabels
<1>4. CASE InitAuthRedirect
  BY <1>4, RunGoto
  DEF InitAuthRedirect, lockVars, toldVars, connVars, tunVars, osVars, At, Emit, RunLabels
<1>5. CASE InitAuthFail
  BY <1>5, RunGoto
  DEF InitAuthFail, authVars, toldVars, tunVars, osVars, At, Fail, Emit, RunLabels
<1>6. CASE PasswordAuthBegin
  BY <1>6, RunGoto
  DEF PasswordAuthBegin, lockVars, authVars, toldVars, connVars, tunVars, osVars, At, Emit,
      Panic, evVars, RunLabels
<1>7. CASE PasswordAuthComplete
  BY <1>7, RunGoto
  DEF PasswordAuthComplete, toldVars, connVars, tunVars, osVars, At, Emit, RunLabels
<1>8. CASE PasswordAuthChallenge
  BY <1>8, RunGoto
  DEF PasswordAuthChallenge, toldVars, connVars, tunVars, osVars, evVars, At, RunLabels
<1>9. CASE PasswordAuthAgain
  BY <1>9
  DEF PasswordAuthAgain, lockVars, toldVars, connVars, tunVars, osVars, evVars, At,
      RunLabels
<1>10. CASE PasswordAuthFail
  BY <1>10, RunGoto
  DEF PasswordAuthFail, authVars, toldVars, tunVars, osVars, At, Fail, Emit, RunLabels
<1>11. CASE Announce2FA
  BY <1>11, RunGoto
  DEF Announce2FA, lockVars, authVars, toldVars, connVars, tunVars, osVars, At, Emit,
      RunLabels
<1>12. CASE Wait2FAPassed
  BY <1>12, RunGoto
  DEF Wait2FAPassed, lockVars, toldVars, connVars, tunVars, osVars, At, Emit, RunLabels
<1>13. CASE Wait2FACancelled
  BY <1>13, RunGoto
  DEF Wait2FACancelled, lockVars, authVars, toldVars, connVars, tunVars, osVars, At, Emit,
      RunLabels
<1>14. CASE SetupTunnelCheck
  BY <1>14, RunGoto
  DEF SetupTunnelCheck, lockVars, authVars, toldVars, connVars, tunVars, osVars, evVars,
      At, Fail, Emit, RunLabels
<1>15. CASE SetupTunnelCookie
  BY <1>15, RunGoto
  DEF SetupTunnelCookie, lockVars, authVars, toldVars, connVars, tunVars, osVars, evVars,
      At, Fail, Emit, RunLabels
<1>16. CASE SendConnect
  <2>1. CASE conn = "nil"
    BY <1>16, <2>1
    DEF SendConnect, lockVars, authVars, toldVars, connVars, tunVars, osVars, evVars, At,
        Panic, RunLabels
  <2>2. CASE conn = "set"
    <3>1. Goto(Run, "connWait") \/ Goto(Run, "connErr")
      BY <1>16, <2>2 DEF SendConnect
    <3> QED
      BY <1>16, <2>2, <3>1, RunGoto
      DEF SendConnect, lockVars, authVars, toldVars, connVars, tunVars, osVars, evVars, At,
          Panic, RunLabels
  <2> QED
    BY <2>1, <2>2 DEF TypeOK
<1>17. CASE ConnectAccepted
  BY <1>17, RunGoto
  DEF ConnectAccepted, lockVars, authVars, toldVars, connVars, tunVars, osVars, evVars, At,
      RunLabels
<1>18. CASE ConnectRefused
  BY <1>18, RunGoto
  DEF ConnectRefused, lockVars, authVars, toldVars, connVars, tunVars, osVars, evVars, At,
      RunLabels
<1>19. CASE SetupTunnelFail
  <2>1. CASE conn = "nil"
    BY <1>19, <2>1
    DEF SetupTunnelFail, lockVars, authVars, toldVars, tunVars, osVars, At, Fail, Panic,
        Emit, connVars, evVars, RunLabels
  <2>2. CASE conn = "set"
    BY <1>19, <2>2, RunGoto
    DEF SetupTunnelFail, lockVars, authVars, toldVars, tunVars, osVars, At, Fail, Panic,
        Emit, connVars, evVars, RunLabels
  <2> QED
    BY <2>1, <2>2 DEF TypeOK
<1>20. CASE BuildTunnel
  <2>1. CASE conn = "nil"
    BY <1>20, <2>1
    DEF BuildTunnel, lockVars, authVars, toldVars, connVars, evVars, At, Panic, tunVars,
        osVars, RunLabels
  <2>2. CASE conn = "set"
    BY <1>20, <2>2, RunGoto
    DEF BuildTunnel, lockVars, authVars, toldVars, connVars, evVars, At, Panic, tunVars,
        osVars, RunLabels
  <2> QED
    BY <2>1, <2>2 DEF TypeOK
<1>21. CASE RecordTunnel
  <2>1. pc[Run] = "record" /\ (Goto(Run, "hook") \/ Goto(Run, "create"))
    BY <1>21 DEF RecordTunnel, At
  <2>2. pc'[Run] \in {"hook", "create"} /\ \A p \in Procs \ {Run} : pc'[p] = pc[p]
    BY <2>1, RunGoto DEF RunLabels
  <2>3. UNCHANGED <<mu, needs2FA, twoFAOK, token, granted, stopped, ctxDone, conn, evClosed, crash>>
    BY <1>21 DEF RecordTunnel, lockVars, authVars, toldVars, connVars, evVars
  <2>4. Locking'
    BY <2>1, <2>2, <2>3
  <2>5. Challenge' /\ NoLostWakeup' /\ GrantedBeforeTunnel'
    BY <2>1, <2>2, <2>3
  <2>6. UNCHANGED pumps /\ crash = "no"
    BY <1>21 DEF RecordTunnel, osVars, At, Alive
  <2>7. Disconnected => Disconnected'
    BY <2>2, <2>3
  <2>8. Progress' /\ PanicsAreCancellations'
    BY <2>1, <2>2, <2>3, <2>6, <2>7
  <2> QED
    BY <2>4, <2>5, <2>8
<1>22. CASE HookDone
  BY <1>22, RunGoto
  DEF HookDone, lockVars, authVars, toldVars, connVars, tunVars, osVars, At, Emit, RunLabels
<1>23. CASE HookFailed
  BY <1>23, RunGoto
  DEF HookFailed, lockVars, authVars, toldVars, connVars, tunVars, osVars, At, Emit,
      RunLabels
<1>24. CASE CreateDevice
  BY <1>24, RunGoto
  DEF CreateDevice, lockVars, authVars, toldVars, connVars, tunVars, evVars, At, RunLabels
<1>25. CASE CreateFailed
  BY <1>25, RunGoto
  DEF CreateFailed, lockVars, authVars, toldVars, connVars, tunVars, osVars, At, Fail,
      Emit, RunLabels
<1>26. CASE AssignDevice
  BY <1>26, RunGoto
  DEF AssignDevice, lockVars, authVars, toldVars, connVars, evVars, At, RunLabels
<1>27. CASE ApplyRoutes
  BY <1>27, RunGoto
  DEF ApplyRoutes, lockVars, authVars, toldVars, connVars, tunVars, evVars, At, RunLabels
<1>28. CASE ApplyDNSPolicy
  BY <1>28, RunGoto
  DEF ApplyDNSPolicy, lockVars, authVars, toldVars, connVars, tunVars, At, Emit, RunLabels
<1>29. CASE RunEnds
  BY <1>29, RunGoto
  DEF RunEnds, lockVars, authVars, toldVars, connVars, tunVars, osVars, At, Emit, RunLabels
<1>30. CASE ExitRunning
  BY <1>30, RunGoto
  DEF ExitRunning, authVars, toldVars, connVars, tunVars, osVars, evVars, At, RunLabels
<1>31. CASE CloseEvents
  BY <1>31, RunGoto
  DEF CloseEvents, lockVars, authVars, toldVars, connVars, tunVars, osVars, At, RunLabels
<1>32. ASSUME NEW p \in Closers, TunnelClose(p) PROVE AuthInv'
  BY <1>32, RunGoto, StopperGoto
  DEF TunnelClose, lockVars, authVars, toldVars, connVars, osVars, evVars, At, AfterClose,
      Closers, RunLabels, StopLabels
<1>33. ASSUME NEW p \in Closers, RemoveRoutes(p) PROVE AuthInv'
  BY <1>33, RunGoto, StopperGoto
  DEF RemoveRoutes, lockVars, authVars, toldVars, connVars, tunVars, evVars, At, Closers,
      RunLabels, StopLabels
<1>34. ASSUME NEW p \in Closers, RemoveDNSPolicy(p) PROVE AuthInv'
  BY <1>34, RunGoto, StopperGoto
  DEF RemoveDNSPolicy, lockVars, authVars, toldVars, connVars, tunVars, evVars, At,
      Closers, RunLabels, StopLabels
<1>35. ASSUME NEW p \in Closers, CloseSession(p) PROVE AuthInv'
  BY <1>35, RunGoto, StopperGoto
  DEF CloseSession, lockVars, authVars, toldVars, connVars, osVars, evVars, At, Closers,
      RunLabels, StopLabels
<1>36. ASSUME NEW p \in Closers, CloseTLS(p) PROVE AuthInv'
  BY <1>36, RunGoto, StopperGoto
  DEF CloseTLS, lockVars, authVars, toldVars, tunVars, osVars, evVars, At, Closers,
      RunLabels, StopLabels
<1>37. ASSUME NEW p \in Closers, CloseDevice(p) PROVE AuthInv'
  BY <1>37, RunGoto, StopperGoto
  DEF CloseDevice, lockVars, authVars, toldVars, connVars, evVars, At, AfterClose, Closers,
      RunLabels, StopLabels
<1>38. ASSUME NEW d \in Stoppers, DisconnectCall(d) PROVE AuthInv'
  BY <1>38, StopperGoto
  DEF DisconnectCall, lockVars, authVars, connVars, tunVars, osVars, evVars, At, StopLabels
<1>39. ASSUME NEW d \in Stoppers, DisconnectRead(d) PROVE AuthInv'
  BY <1>39, StopperGoto
  DEF DisconnectRead, authVars, toldVars, connVars, tunVars, osVars, evVars, At, StopLabels
<1>40. ASSUME NEW d \in Stoppers, CloseConn(d) PROVE AuthInv'
  BY <1>40, StopperGoto
  DEF CloseConn, authVars, toldVars, tunVars, osVars, evVars, At, StopLabels
<1>41. ASSUME NEW d \in Stoppers, ClearConn(d) PROVE AuthInv'
  BY <1>41, StopperGoto
  DEF ClearConn, authVars, toldVars, tunVars, osVars, evVars, At, StopLabels
<1>42. ASSUME NEW s \in Submitters, SubmitBegin(s) PROVE AuthInv'
  BY <1>42, SubmitterGoto
  DEF SubmitBegin, toldVars, connVars, tunVars, osVars, evVars, At, SubmitLabels
<1>43. ASSUME NEW s \in Submitters, SubmitAccepted(s) PROVE AuthInv'
  BY <1>43, SubmitterGoto
  DEF SubmitAccepted, toldVars, connVars, tunVars, osVars, evVars, At, SubmitLabels
<1>44. ASSUME NEW s \in Submitters, SubmitChallenged(s) PROVE AuthInv'
  BY <1>44, SubmitterGoto
  DEF SubmitChallenged, authVars, toldVars, connVars, tunVars, osVars, At, Emit, Panic,
      lockVars, evVars, SubmitLabels
<1>45. ASSUME NEW s \in Submitters, SubmitRejected(s) PROVE AuthInv'
  BY <1>45, SubmitterGoto
  DEF SubmitRejected, connVars, tunVars, osVars, evVars, At, SubmitLabels
<1>46. ASSUME NEW s \in Submitters, SubmitFailed(s) PROVE AuthInv'
  BY <1>46, SubmitterGoto
  DEF SubmitFailed, authVars, toldVars, tunVars, osVars, evVars, At, SubmitLabels
<1>47. ASSUME NEW g \in Pump, TLSPumpExit(g) PROVE AuthInv'
  BY <1>47
  DEF TLSPumpExit, lockVars, authVars, toldVars, evVars, Alive
<1>48. CASE TunToPayloadOutExit
  BY <1>48
  DEF TunToPayloadOutExit, lockVars, authVars, toldVars, connVars, tunVars, evVars, Alive
<1>49. CASE PayloadInToTunExit
  BY <1>49
  DEF PayloadInToTunExit, lockVars, authVars, toldVars, connVars, evVars, Alive
<1>50. CASE PeerCloses
  BY <1>50
  DEF PeerCloses, lockVars, authVars, toldVars, tunVars, osVars, evVars, Alive
<1>51. CASE CancelContext
  BY <1>51
  DEF CancelContext, lockVars, authVars, connVars, tunVars, osVars, evVars, Alive
<1>52. CASE TakeEvent
  BY <1>52
  DEF TakeEvent, lockVars, authVars, toldVars, connVars, tunVars, osVars, Alive
<1>53. CASE StartChannel
  BY <1>53, RunGoto
  DEF StartChannel, lockVars, authVars, toldVars, connVars, tunVars, evVars, At, RunLabels
<1>54. CASE NilChannelPanics
  BY <1>54
  DEF NilChannelPanics, Panic, lockVars, authVars, toldVars, connVars, tunVars, osVars,
      evVars, Alive
<1>55. CASE UNCHANGED vars
  BY <1>55
  DEF vars, lockVars, authVars, toldVars, connVars, tunVars, osVars, evVars
<1> QED
  BY <1>1, <1>2, <1>3, <1>4, <1>5, <1>6, <1>7, <1>8, <1>9, <1>10, <1>11, <1>12, <1>13,
     <1>14, <1>15, <1>16, <1>17, <1>18, <1>19, <1>20, <1>21, <1>22, <1>23, <1>24, <1>25,
     <1>26, <1>27, <1>28, <1>29, <1>30, <1>31, <1>32, <1>33, <1>34, <1>35, <1>36, <1>37,
     <1>38, <1>39, <1>40, <1>41, <1>42, <1>43, <1>44, <1>45, <1>46, <1>47, <1>48, <1>49,
     <1>50, <1>51, <1>52, <1>53, <1>54, <1>55
  DEF Next, RunStep, GatewayAnswers, CloseStep, DisconnectStep, PumpStep, UserStep

\* No CONNECT and no tunnel without accepted credentials and a token, whatever
\* Submit2FA and Disconnect do while SetupTunnel runs.
THEOREM GrantedCorrect == Spec => []GrantedBeforeTunnel
<1>1. AuthInv => GrantedBeforeTunnel
  BY DEF AuthInv
<1> QED
  BY <1>1, AuthInit, AuthStep, PTL DEF Spec

\* Once Submit2FA has decided the second factor, run has a wake-up waiting.
THEOREM WakeupCorrect == Spec => []NoLostWakeup
<1>1. AuthInv => NoLostWakeup
  BY DEF AuthInv
<1> QED
  BY <1>1, AuthInit, AuthStep, PTL DEF Spec

\* A nil connection is met only after a Disconnect has cleared it and returned,
\* once the tunnel is recorded only by a tlsChannel started without one, and the
\* closed channel of Submit2FA only in an attempt that is being cancelled.
THEOREM PanicsCorrect == Spec => []PanicsAreCancellations
<1>1. AuthInv => PanicsAreCancellations
  BY DEF AuthInv
<1> QED
  BY <1>1, AuthInit, AuthStep, PTL DEF Spec
-----------------------------------------------------------------------------
(* What Tunnel.Close leaves behind                                         *)

\* The program points between the two ends of closeOnce.Do.
Closing == CloseLabels \ {"tclose"}

\* The program points of run that only a client with a session reaches.
Built == SettingUp \cup {"up"} \cup CloseLabels

\* How far run has got tells what exists: no session and no goroutine of a
\* tunnel before BuildTunnel, a recorded tunnel after RecordTunnel, and each mode
\* on its own branch of run.
Setup ==
  /\ pc[Run] \in Built => sess # "none"
  /\ tunnel \/ pumps # {} => sess # "none"
  /\ pc[Run] \notin Built \cup Over => sess = "none" /\ pumps = {}
  /\ pc[Run] \in Tunnelled => tunnel
  /\ pc[Run] \in {"hook"} \cup CloseLabels => mode = "socks5"
  /\ pc[Run] \in {"create", "assign", "routes", "dns"} => mode = "tun"

\* A socks5 client that has left run has no session (FinishedMeansClosed, one
\* step earlier: run closes the channel after it has left).
LeftMeansClosed == mode = "socks5" /\ pc[Run] \in Over /\ ~ctxDone => sess # "open"

\* Routes and rules come after the adapter, and routes go with it.
Adapter ==
  /\ pc[Run] \in {"routes", "dns"} => tunDev
  /\ tunDev => pc[Run] \in {"routes", "dns", "up"} \cup Over
  /\ dev = "open" => tunDev \/ pc[Run] = "assign"
  /\ routes => tunDev /\ dev = "open"
  /\ nrpt => tunDev

\* closeOnce lets one caller through, and only for a tunnel that is recorded; a
\* Close that began after the setup is never caught up by it.
Once ==
  /\ \A p \in Closers : pc[p] \in CloseLabels => tunnel
  /\ \A p \in Closers : pc[p] \in Closing => once = "busy"
  /\ \A p, q \in Closers : pc[p] \in Closing /\ pc[q] \in Closing => p = q
  /\ once # "fresh" => tunnel
  /\ once # "fresh" /\ ~overlap => pc[Run] \notin SettingUp

\* What the caller inside has cleared so far, in the order of Tunnel.Close.
Cleared ==
  /\ \A p \in Closers : pc[p] \in Closing /\ ~overlap =>
       /\ pc[p] # "closeRoutes" => ~routes
       /\ pc[p] \notin {"closeRoutes", "closeDNS"} => ~nrpt
       /\ pc[p] = "closeDev" => wire = "closed"
  /\ \A p \in Closers : pc[p] \in {"closeConn", "closeDev"} => sess = "closed"
  /\ once = "finished" => sess = "closed"

\* The inductive invariant of the teardown, on top of that of the login.
CloseInv == Setup /\ LeftMeansClosed /\ Adapter /\ Once /\ Cleared /\ CleanTeardown

\* A new client has nothing to clear.
LEMMA CloseInit == Init => CloseInv
<1> SUFFICES ASSUME Init PROVE CloseInv
  OBVIOUS
<1>1. pc[Run] = "new" /\ \A d \in Stoppers : pc[d] = "idle"
  BY ProcessAssumption DEF Init, Procs
<1> QED
  BY <1>1
  DEF Init, CloseInv, Setup, LeftMeansClosed, Adapter, Once, Cleared, CleanTeardown, Closing,
      Built, Closers, CloseLabels, SettingUp, Over, Tunnelled

\* A step of run before it has a tunnel, or into its deferred exit, leaves
\* nothing to clear and nobody who clears it.
LEMMA LoginKeepsClose ==
  ASSUME TypeOK, Progress, CloseInv,
         pc[Run] \notin Built \cup Over, pc'[Run] \notin Built,
         \A d \in Stoppers : pc'[d] = pc[d],
         UNCHANGED <<mode, tunVars, osVars>>
  PROVE  CloseInv'
<1> USE DEF CloseInv, Closing, Built, Closers, CloseLabels, SettingUp, Over, Tunnelled, tunVars,
        osVars
<1>1. ~tunnel /\ sess = "none" /\ once = "fresh" /\ ~tunDev /\ ~routes /\ ~nrpt /\ pumps = {}
  BY DEF Progress, Setup, Adapter, Once, TypeOK
<1>2. \A p \in Closers : pc'[p] \notin CloseLabels
  BY <1>1 DEF Once
<1>3. Setup' /\ LeftMeansClosed'
  BY <1>1 DEF Setup, LeftMeansClosed
<1>4. Adapter'
  BY <1>1 DEF Adapter
<1>5. Once' /\ Cleared' /\ CleanTeardown'
  BY <1>1, <1>2 DEF Once, Cleared, CleanTeardown
<1> QED
  BY <1>3, <1>4, <1>5

\* A step of the others that does not touch the tunnel but may close the
\* connection under it.
LEMMA AsideKeepsClose ==
  ASSUME CloseInv, pc'[Run] = pc[Run],
         \A d \in Stoppers : pc'[d] = pc[d] \/ pc'[d] \notin CloseLabels,
         UNCHANGED <<mode, tunVars, osVars>>,
         wire' = wire \/ wire' = "closed", ctxDone => ctxDone'
  PROVE  CloseInv'
<1> USE DEF CloseInv, Closing, Built, Closers, CloseLabels, SettingUp, Over, Tunnelled, tunVars,
        osVars
<1>1. Setup' /\ LeftMeansClosed' /\ Adapter' /\ CleanTeardown'
  BY DEF Setup, LeftMeansClosed, Adapter, CleanTeardown
<1>2. Once'
  BY DEF Once
<1>3. Cleared'
  BY DEF Cleared
<1> QED
  BY <1>1, <1>2, <1>3

\* Every step of every goroutine keeps the invariant of the teardown.
LEMMA CloseStepInv == AuthInv /\ CloseInv /\ [Next]_vars => CloseInv'
<1> SUFFICES ASSUME AuthInv, CloseInv, [Next]_vars PROVE CloseInv'
  OBVIOUS
<1>type. TypeOK /\ ProgramPoints /\ Progress
  BY DEF AuthInv, TypeOK
<1> USE ProcessAssumption, <1>type
<1>1. CASE Connect
  <2>1. pc[Run] \notin Built \cup Over /\ UNCHANGED <<mode, tunVars, osVars>>
    BY <1>1 DEF Connect, At, Panic, toldVars, Built, Over, SettingUp, CloseLabels
  <2>2. pc'[Run] \notin Built /\ \A d \in Stoppers : pc'[d] = pc[d]
    BY <1>1, <2>1, RunGoto
    DEF Connect, At, Panic, Fail, RunLabels, Built, SettingUp, CloseLabels, Procs
  <2> QED
    BY <2>1, <2>2, LoginKeepsClose
<1>2. CASE InitAuthBegin
  <2>1. pc[Run] \notin Built \cup Over /\ UNCHANGED <<mode, tunVars, osVars>>
    BY <1>2 DEF InitAuthBegin, At, Panic, toldVars, Built, Over, SettingUp, CloseLabels
  <2>2. pc'[Run] \notin Built /\ \A d \in Stoppers : pc'[d] = pc[d]
    BY <1>2, <2>1, RunGoto
    DEF InitAuthBegin, At, Panic, Fail, RunLabels, Built, SettingUp, CloseLabels, Procs
  <2> QED
    BY <2>1, <2>2, LoginKeepsClose
<1>3. CASE InitAuthOK
  <2>1. pc[Run] \notin Built \cup Over /\ UNCHANGED <<mode, tunVars, osVars>>
    BY <1>3 DEF InitAuthOK, At, Panic, toldVars, Built, Over, SettingUp, CloseLabels
  <2>2. pc'[Run] \notin Built /\ \A d \in Stoppers : pc'[d] = pc[d]
    BY <1>3, <2>1, RunGoto
    DEF InitAuthOK, At, Panic, Fail, RunLabels, Built, SettingUp, CloseLabels, Procs
  <2> QED
    BY <2>1, <2>2, LoginKeepsClose
<1>4. CASE InitAuthRedirect
  <2>1. pc[Run] \notin Built \cup Over /\ UNCHANGED <<mode, tunVars, osVars>>
    BY <1>4 DEF InitAuthRedirect, At, Panic, toldVars, Built, Over, SettingUp, CloseLabels
  <2>2. pc'[Run] \notin Built /\ \A d \in Stoppers : pc'[d] = pc[d]
    BY <1>4, <2>1, RunGoto
    DEF InitAuthRedirect, At, Panic, Fail, RunLabels, Built, SettingUp, CloseLabels, Procs
  <2> QED
    BY <2>1, <2>2, LoginKeepsClose
<1>5. CASE InitAuthFail
  <2>1. pc[Run] \notin Built \cup Over /\ UNCHANGED <<mode, tunVars, osVars>>
    BY <1>5 DEF InitAuthFail, At, Panic, toldVars, Built, Over, SettingUp, CloseLabels
  <2>2. pc'[Run] \notin Built /\ \A d \in Stoppers : pc'[d] = pc[d]
    BY <1>5, <2>1, RunGoto
    DEF InitAuthFail, At, Panic, Fail, RunLabels, Built, SettingUp, CloseLabels, Procs
  <2> QED
    BY <2>1, <2>2, LoginKeepsClose
<1>6. CASE PasswordAuthBegin
  <2>1. pc[Run] \notin Built \cup Over /\ UNCHANGED <<mode, tunVars, osVars>>
    BY <1>6 DEF PasswordAuthBegin, At, Panic, toldVars, Built, Over, SettingUp, CloseLabels
  <2>2. pc'[Run] \notin Built /\ \A d \in Stoppers : pc'[d] = pc[d]
    BY <1>6, <2>1, RunGoto
    DEF PasswordAuthBegin, At, Panic, Fail, RunLabels, Built, SettingUp, CloseLabels, Procs
  <2> QED
    BY <2>1, <2>2, LoginKeepsClose
<1>7. CASE PasswordAuthComplete
  <2>1. pc[Run] \notin Built \cup Over /\ UNCHANGED <<mode, tunVars, osVars>>
    BY <1>7 DEF PasswordAuthComplete, At, Panic, toldVars, Built, Over, SettingUp, CloseLabels
  <2>2. pc'[Run] \notin Built /\ \A d \in Stoppers : pc'[d] = pc[d]
    BY <1>7, <2>1, RunGoto
    DEF PasswordAuthComplete, At, Panic, Fail, RunLabels, Built, SettingUp, CloseLabels, Procs
  <2> QED
    BY <2>1, <2>2, LoginKeepsClose
<1>8. CASE PasswordAuthChallenge
  <2>1. pc[Run] \notin Built \cup Over /\ UNCHANGED <<mode, tunVars, osVars>>
    BY <1>8 DEF PasswordAuthChallenge, At, Panic, toldVars, Built, Over, SettingUp, CloseLabels
  <2>2. pc'[Run] \notin Built /\ \A d \in Stoppers : pc'[d] = pc[d]
    BY <1>8, <2>1, RunGoto
    DEF PasswordAuthChallenge, At, Panic, Fail, RunLabels, Built, SettingUp, CloseLabels, Procs
  <2> QED
    BY <2>1, <2>2, LoginKeepsClose
<1>9. CASE PasswordAuthAgain
  <2>1. pc[Run] \notin Built \cup Over /\ UNCHANGED <<mode, tunVars, osVars>>
    BY <1>9 DEF PasswordAuthAgain, At, Panic, toldVars, Built, Over, SettingUp, CloseLabels
  <2>2. pc'[Run] \notin Built /\ \A d \in Stoppers : pc'[d] = pc[d]
    BY <1>9, <2>1, RunGoto
    DEF PasswordAuthAgain, At, Panic, Fail, RunLabels, Built, SettingUp, CloseLabels, Procs
  <2> QED
    BY <2>1, <2>2, LoginKeepsClose
<1>10. CASE PasswordAuthFail
  <2>1. pc[Run] \notin Built \cup Over /\ UNCHANGED <<mode, tunVars, osVars>>
    BY <1>10 DEF PasswordAuthFail, At, Panic, toldVars, Built, Over, SettingUp, CloseLabels
  <2>2. pc'[Run] \notin Built /\ \A d \in Stoppers : pc'[d] = pc[d]
    BY <1>10, <2>1, RunGoto
    DEF PasswordAuthFail, At, Panic, Fail, RunLabels, Built, SettingUp, CloseLabels, Procs
  <2> QED
    BY <2>1, <2>2, LoginKeepsClose
<1>11. CASE Announce2FA
  <2>1. pc[Run] \notin Built \cup Over /\ UNCHANGED <<mode, tunVars, osVars>>
    BY <1>11 DEF Announce2FA, At, Panic, toldVars, Built, Over, SettingUp, CloseLabels
  <2>2. pc'[Run] \notin Built /\ \A d \in Stoppers : pc'[d] = pc[d]
    BY <1>11, <2>1, RunGoto
    DEF Announce2FA, At, Panic, Fail, RunLabels, Built, SettingUp, CloseLabels, Procs
  <2> QED
    BY <2>1, <2>2, LoginKeepsClose
<1>12. CASE Wait2FAPassed
  <2>1. pc[Run] \notin Built \cup Over /\ UNCHANGED <<mode, tunVars, osVars>>
    BY <1>12 DEF Wait2FAPassed, At, Panic, toldVars, Built, Over, SettingUp, CloseLabels
  <2>2. pc'[Run] \notin Built /\ \A d \in Stoppers : pc'[d] = pc[d]
    BY <1>12, <2>1, RunGoto
    DEF Wait2FAPassed, At, Panic, Fail, RunLabels, Built, SettingUp, CloseLabels, Procs
  <2> QED
    BY <2>1, <2>2, LoginKeepsClose
<1>13. CASE Wait2FACancelled
  <2>1. pc[Run] \notin Built \cup Over /\ UNCHANGED <<mode, tunVars, osVars>>
    BY <1>13 DEF Wait2FACancelled, At, Panic, toldVars, Built, Over, SettingUp, CloseLabels
  <2>2. pc'[Run] \notin Built /\ \A d \in Stoppers : pc'[d] = pc[d]
    BY <1>13, <2>1, RunGoto
    DEF Wait2FACancelled, At, Panic, Fail, RunLabels, Built, SettingUp, CloseLabels, Procs
  <2> QED
    BY <2>1, <2>2, LoginKeepsClose
<1>14. CASE SetupTunnelCheck
  <2>1. pc[Run] \notin Built \cup Over /\ UNCHANGED <<mode, tunVars, osVars>>
    BY <1>14 DEF SetupTunnelCheck, At, Panic, toldVars, Built, Over, SettingUp, CloseLabels
  <2>2. pc'[Run] \notin Built /\ \A d \in Stoppers : pc'[d] = pc[d]
    BY <1>14, <2>1, RunGoto
    DEF SetupTunnelCheck, At, Panic, Fail, RunLabels, Built, SettingUp, CloseLabels, Procs
  <2> QED
    BY <2>1, <2>2, LoginKeepsClose
<1>15. CASE SetupTunnelCookie
  <2>1. pc[Run] \notin Built \cup Over /\ UNCHANGED <<mode, tunVars, osVars>>
    BY <1>15 DEF SetupTunnelCookie, At, Panic, toldVars, Built, Over, SettingUp, CloseLabels
  <2>2. pc'[Run] \notin Built /\ \A d \in Stoppers : pc'[d] = pc[d]
    BY <1>15, <2>1, RunGoto
    DEF SetupTunnelCookie, At, Panic, Fail, RunLabels, Built, SettingUp, CloseLabels, Procs
  <2> QED
    BY <2>1, <2>2, LoginKeepsClose
<1>16. CASE SendConnect
  <2>1. pc[Run] \notin Built \cup Over /\ UNCHANGED <<mode, tunVars, osVars>>
    BY <1>16 DEF SendConnect, At, Panic, toldVars, Built, Over, SettingUp, CloseLabels
  <2>2. pc'[Run] \notin Built /\ \A d \in Stoppers : pc'[d] = pc[d]
    BY <1>16, <2>1, RunGoto
    DEF SendConnect, At, Panic, Fail, RunLabels, Built, SettingUp, CloseLabels, Procs
  <2> QED
    BY <2>1, <2>2, LoginKeepsClose
<1>17. CASE ConnectAccepted
  <2>1. pc[Run] \notin Built \cup Over /\ UNCHANGED <<mode, tunVars, osVars>>
    BY <1>17 DEF ConnectAccepted, At, Panic, toldVars, Built, Over, SettingUp, CloseLabels
  <2>2. pc'[Run] \notin Built /\ \A d \in Stoppers : pc'[d] = pc[d]
    BY <1>17, <2>1, RunGoto
    DEF ConnectAccepted, At, Panic, Fail, RunLabels, Built, SettingUp, CloseLabels, Procs
  <2> QED
    BY <2>1, <2>2, LoginKeepsClose
<1>18. CASE ConnectRefused
  <2>1. pc[Run] \notin Built \cup Over /\ UNCHANGED <<mode, tunVars, osVars>>
    BY <1>18 DEF ConnectRefused, At, Panic, toldVars, Built, Over, SettingUp, CloseLabels
  <2>2. pc'[Run] \notin Built /\ \A d \in Stoppers : pc'[d] = pc[d]
    BY <1>18, <2>1, RunGoto
    DEF ConnectRefused, At, Panic, Fail, RunLabels, Built, SettingUp, CloseLabels, Procs
  <2> QED
    BY <2>1, <2>2, LoginKeepsClose
<1>19. CASE SetupTunnelFail
  <2>1. pc[Run] \notin Built \cup Over /\ UNCHANGED <<mode, tunVars, osVars>>
    BY <1>19 DEF SetupTunnelFail, At, Panic, toldVars, Built, Over, SettingUp, CloseLabels
  <2>2. pc'[Run] \notin Built /\ \A d \in Stoppers : pc'[d] = pc[d]
    BY <1>19, <2>1, RunGoto
    DEF SetupTunnelFail, At, Panic, Fail, RunLabels, Built, SettingUp, CloseLabels, Procs
  <2> QED
    BY <2>1, <2>2, LoginKeepsClose
<1>20. CASE BuildTunnel
  <2>1. CASE conn = "nil"
    <3>1. pc[Run] \notin Built \cup Over /\ UNCHANGED <<pc, mode, tunVars, osVars>>
      BY <1>20, <2>1
      DEF BuildTunnel, At, Panic, toldVars, Built, Over, SettingUp, CloseLabels
    <3> QED
      BY <3>1, LoginKeepsClose
  <2>2. CASE conn = "set"
    <3>1. /\ pc[Run] = "connBuild" /\ pc'[Run] = "connStart" /\ sess' = "open"
          /\ \A d \in Stoppers : pc'[d] = pc[d]
          /\ UNCHANGED <<mode, tunnel, once, tunDev, overlap, dev, routes, nrpt, wire>>
      BY <1>20, <2>2, RunGoto
      DEF BuildTunnel, At, toldVars, connVars, osVars, RunLabels, SettingUp, Procs
    <3>2. ~tunnel /\ once = "fresh" /\ ~tunDev /\ ~routes /\ ~nrpt /\ dev # "open"
      BY <3>1 DEF Progress, CloseInv, Once, Adapter, TypeOK, SettingUp, Tunnelled, Over,
                  CloseLabels
    <3>3. \A p \in Closers : pc'[p] \notin CloseLabels
      BY <3>1, <3>2 DEF CloseInv, Once, Closers, CloseLabels
    <3>4. Setup' /\ LeftMeansClosed' /\ Adapter'
      BY <3>1, <3>2
      DEF Setup, LeftMeansClosed, Adapter, Built, Over, Tunnelled, SettingUp, CloseLabels
    <3>5. Once' /\ Cleared' /\ CleanTeardown'
      BY <3>1, <3>2, <3>3 DEF Once, Cleared, CleanTeardown, Closing, CloseLabels
    <3> QED
      BY <3>4, <3>5 DEF CloseInv
  <2> QED
    BY <2>1, <2>2 DEF TypeOK
<1>21. CASE RecordTunnel
  <2> USE DEF CloseInv, Built, Over, Tunnelled, SettingUp, CloseLabels, Closing, Closers
  <2>1. ProgramPoints' /\ \A d \in Stoppers : pc'[d] = pc[d]
    BY <1>21, RunGoto DEF RecordTunnel, Fail, RunLabels, Procs
  <2>2. Setup' /\ LeftMeansClosed'
    BY <1>21, RunGoto, ModeAssumption
    DEF TypeOK, RecordTunnel, At, toldVars, tunVars, osVars, Setup, LeftMeansClosed, RunLabels
  <2>3. Adapter'
    BY <1>21, RunGoto DEF RecordTunnel, At, Fail, tunVars, osVars, Adapter, Setup, RunLabels
  <2>4. Once'
    BY <1>21, <2>1, RunGoto DEF RecordTunnel, At, Fail, tunVars, Once, Setup, RunLabels
  <2>5. Cleared' /\ CleanTeardown'
    BY <1>21, <2>1, RunGoto
    DEF RecordTunnel, At, Fail, tunVars, osVars, connVars, Cleared, CleanTeardown, Once, Setup,
        RunLabels
  <2> QED
    BY <2>2, <2>3, <2>4, <2>5
<1>22. CASE HookDone
  <2> USE DEF CloseInv, Built, Over, Tunnelled, SettingUp, CloseLabels, Closing, Closers
  <2>1. ProgramPoints' /\ \A d \in Stoppers : pc'[d] = pc[d]
    BY <1>22, RunGoto DEF HookDone, Fail, RunLabels, Procs
  <2>2. Setup' /\ LeftMeansClosed'
    BY <1>22, RunGoto
    DEF HookDone, At, Fail, toldVars, tunVars, osVars, Setup, LeftMeansClosed, RunLabels
  <2>3. Adapter'
    BY <1>22, RunGoto DEF HookDone, At, Fail, tunVars, osVars, Adapter, Setup, RunLabels
  <2>4. Once'
    BY <1>22, <2>1, RunGoto DEF HookDone, At, Fail, tunVars, Once, Setup, RunLabels
  <2>5. Cleared' /\ CleanTeardown'
    BY <1>22, <2>1, RunGoto
    DEF HookDone, At, Fail, tunVars, osVars, connVars, Cleared, CleanTeardown, Once, Setup,
        RunLabels
  <2> QED
    BY <2>2, <2>3, <2>4, <2>5
<1>23. CASE HookFailed
  <2> USE DEF CloseInv, Built, Over, Tunnelled, SettingUp, CloseLabels, Closing, Closers
  <2>1. ProgramPoints' /\ \A d \in Stoppers : pc'[d] = pc[d]
    BY <1>23, RunGoto DEF HookFailed, Fail, RunLabels, Procs
  <2>2. Setup' /\ LeftMeansClosed'
    BY <1>23, RunGoto
    DEF HookFailed, At, Fail, toldVars, tunVars, osVars, Setup, LeftMeansClosed, RunLabels
  <2>3. Adapter'
    BY <1>23, RunGoto DEF HookFailed, At, Fail, tunVars, osVars, Adapter, Setup, RunLabels
  <2>4. Once'
    BY <1>23, <2>1, RunGoto DEF HookFailed, At, Fail, tunVars, Once, Setup, RunLabels
  <2>5. Cleared' /\ CleanTeardown'
    BY <1>23, <2>1, RunGoto
    DEF HookFailed, At, Fail, tunVars, osVars, connVars, Cleared, CleanTeardown, Once, Setup,
        RunLabels
  <2> QED
    BY <2>2, <2>3, <2>4, <2>5
<1>24. CASE CreateDevice
  <2> USE DEF CloseInv, Built, Over, Tunnelled, SettingUp, CloseLabels, Closing, Closers
  <2>1. ProgramPoints' /\ \A d \in Stoppers : pc'[d] = pc[d]
    BY <1>24, RunGoto DEF CreateDevice, Fail, RunLabels, Procs
  <2>2. Setup' /\ LeftMeansClosed'
    BY <1>24, RunGoto
    DEF CreateDevice, At, Fail, toldVars, tunVars, osVars, Setup, LeftMeansClosed, RunLabels
  <2>3. Adapter'
    BY <1>24, RunGoto DEF CreateDevice, At, Fail, tunVars, osVars, Adapter, Setup, RunLabels
  <2>4. Once'
    BY <1>24, <2>1, RunGoto DEF CreateDevice, At, Fail, tunVars, Once, Setup, RunLabels
  <2>5. Cleared' /\ CleanTeardown'
    BY <1>24, <2>1, RunGoto
    DEF CreateDevice, At, Fail, tunVars, osVars, connVars, Cleared, CleanTeardown, Once, Setup,
        RunLabels
  <2> QED
    BY <2>2, <2>3, <2>4, <2>5
<1>25. CASE CreateFailed
  <2> USE DEF CloseInv, Built, Over, Tunnelled, SettingUp, CloseLabels, Closing, Closers
  <2>1. ProgramPoints' /\ \A d \in Stoppers : pc'[d] = pc[d]
    BY <1>25, RunGoto DEF CreateFailed, Fail, RunLabels, Procs
  <2>2. Setup' /\ LeftMeansClosed'
    BY <1>25, RunGoto
    DEF CreateFailed, At, Fail, toldVars, tunVars, osVars, Setup, LeftMeansClosed, RunLabels
  <2>3. Adapter'
    BY <1>25, RunGoto DEF CreateFailed, At, Fail, tunVars, osVars, Adapter, Setup, RunLabels
  <2>4. Once'
    BY <1>25, <2>1, RunGoto DEF CreateFailed, At, Fail, tunVars, Once, Setup, RunLabels
  <2>5. Cleared' /\ CleanTeardown'
    BY <1>25, <2>1, RunGoto
    DEF CreateFailed, At, Fail, tunVars, osVars, connVars, Cleared, CleanTeardown, Once, Setup,
        RunLabels
  <2> QED
    BY <2>2, <2>3, <2>4, <2>5
<1>26. CASE AssignDevice
  <2> USE DEF CloseInv, Built, Over, Tunnelled, SettingUp, CloseLabels, Closing, Closers
  <2>1. ProgramPoints' /\ \A d \in Stoppers : pc'[d] = pc[d]
    BY <1>26, RunGoto DEF AssignDevice, Fail, RunLabels, Procs
  <2>2. Setup' /\ LeftMeansClosed'
    BY <1>26, RunGoto
    DEF AssignDevice, At, Fail, toldVars, tunVars, osVars, Setup, LeftMeansClosed, RunLabels
  <2>3. Adapter'
    BY <1>26, RunGoto DEF AssignDevice, At, Fail, tunVars, osVars, Adapter, Setup, RunLabels
  <2>4. Once'
    BY <1>26, <2>1, RunGoto DEF AssignDevice, At, Fail, tunVars, Once, Setup, RunLabels
  <2>5. Cleared' /\ CleanTeardown'
    BY <1>26, <2>1, RunGoto
    DEF AssignDevice, At, Fail, tunVars, osVars, connVars, Cleared, CleanTeardown, Once, Setup,
        RunLabels
  <2> QED
    BY <2>2, <2>3, <2>4, <2>5
<1>27. CASE ApplyRoutes
  <2> USE DEF CloseInv, Built, Over, Tunnelled, SettingUp, CloseLabels, Closing, Closers
  <2>1. ProgramPoints' /\ \A d \in Stoppers : pc'[d] = pc[d]
    BY <1>27, RunGoto DEF ApplyRoutes, Fail, RunLabels, Procs
  <2>2. Setup' /\ LeftMeansClosed'
    BY <1>27, RunGoto
    DEF ApplyRoutes, At, Fail, toldVars, tunVars, osVars, Setup, LeftMeansClosed, RunLabels
  <2>3. Adapter'
    BY <1>27, RunGoto DEF ApplyRoutes, At, Fail, tunVars, osVars, Adapter, Setup, RunLabels
  <2>4. Once'
    BY <1>27, <2>1, RunGoto DEF ApplyRoutes, At, Fail, tunVars, Once, Setup, RunLabels
  <2>5. Cleared' /\ CleanTeardown'
    BY <1>27, <2>1, RunGoto
    DEF ApplyRoutes, At, Fail, tunVars, osVars, connVars, Cleared, CleanTeardown, Once, Setup,
        RunLabels
  <2> QED
    BY <2>2, <2>3, <2>4, <2>5
<1>28. CASE ApplyDNSPolicy
  <2> USE DEF CloseInv, Built, Over, Tunnelled, SettingUp, CloseLabels, Closing, Closers
  <2>1. ProgramPoints' /\ \A d \in Stoppers : pc'[d] = pc[d]
    BY <1>28, RunGoto DEF ApplyDNSPolicy, Fail, RunLabels, Procs
  <2>2. Setup' /\ LeftMeansClosed'
    BY <1>28, RunGoto
    DEF ApplyDNSPolicy, At, Fail, toldVars, tunVars, osVars, Setup, LeftMeansClosed, RunLabels
  <2>3. Adapter'
    BY <1>28, RunGoto DEF ApplyDNSPolicy, At, Fail, tunVars, osVars, Adapter, Setup, RunLabels
  <2>4. Once'
    BY <1>28, <2>1, RunGoto DEF ApplyDNSPolicy, At, Fail, tunVars, Once, Setup, RunLabels
  <2>5. Cleared' /\ CleanTeardown'
    BY <1>28, <2>1, RunGoto
    DEF ApplyDNSPolicy, At, Fail, tunVars, osVars, connVars, Cleared, CleanTeardown, Once, Setup,
        RunLabels
  <2> QED
    BY <2>2, <2>3, <2>4, <2>5
<1>29. CASE RunEnds
  <2> USE DEF CloseInv, Built, Over, Tunnelled, SettingUp, CloseLabels, Closing, Closers
  <2>1. ProgramPoints' /\ \A d \in Stoppers : pc'[d] = pc[d]
    BY <1>29, RunGoto DEF RunEnds, Fail, RunLabels, Procs
  <2>2. Setup' /\ LeftMeansClosed'
    BY <1>29, RunGoto
    DEF RunEnds, At, Fail, toldVars, tunVars, osVars, Setup, LeftMeansClosed, RunLabels
  <2>3. Adapter'
    BY <1>29, RunGoto DEF RunEnds, At, Fail, tunVars, osVars, Adapter, Setup, RunLabels
  <2>4. Once'
    BY <1>29, <2>1, RunGoto DEF RunEnds, At, Fail, tunVars, Once, Setup, RunLabels
  <2>5. Cleared' /\ CleanTeardown'
    BY <1>29, <2>1, RunGoto
    DEF RunEnds, At, Fail, tunVars, osVars, connVars, Cleared, CleanTeardown, Once, Setup,
        RunLabels
  <2> QED
    BY <2>2, <2>3, <2>4, <2>5
<1>30. CASE ExitRunning
  <2> USE DEF CloseInv, Built, Over, Tunnelled, SettingUp, CloseLabels, Closing, Closers
  <2>1. ProgramPoints' /\ \A d \in Stoppers : pc'[d] = pc[d]
    BY <1>30, RunGoto DEF ExitRunning, Fail, RunLabels, Procs
  <2>2. Setup' /\ LeftMeansClosed'
    BY <1>30, RunGoto
    DEF ExitRunning, At, Fail, toldVars, tunVars, osVars, Setup, LeftMeansClosed, RunLabels
  <2>3. Adapter'
    BY <1>30, RunGoto DEF ExitRunning, At, Fail, tunVars, osVars, Adapter, Setup, RunLabels
  <2>4. Once'
    BY <1>30, <2>1, RunGoto DEF ExitRunning, At, Fail, tunVars, Once, Setup, RunLabels
  <2>5. Cleared' /\ CleanTeardown'
    BY <1>30, <2>1, RunGoto
    DEF ExitRunning, At, Fail, tunVars, osVars, connVars, Cleared, CleanTeardown, Once, Setup,
        RunLabels
  <2> QED
    BY <2>2, <2>3, <2>4, <2>5
<1>31. CASE CloseEvents
  <2> USE DEF CloseInv, Built, Over, Tunnelled, SettingUp, CloseLabels, Closing, Closers
  <2>1. ProgramPoints' /\ \A d \in Stoppers : pc'[d] = pc[d]
    BY <1>31, RunGoto DEF CloseEvents, Fail, RunLabels, Procs
  <2>2. Setup' /\ LeftMeansClosed'
    BY <1>31, RunGoto
    DEF CloseEvents, At, Fail, toldVars, tunVars, osVars, Setup, LeftMeansClosed, RunLabels
  <2>3. Adapter'
    BY <1>31, RunGoto DEF CloseEvents, At, Fail, tunVars, osVars, Adapter, Setup, RunLabels
  <2>4. Once'
    BY <1>31, <2>1, RunGoto DEF CloseEvents, At, Fail, tunVars, Once, Setup, RunLabels
  <2>5. Cleared' /\ CleanTeardown'
    BY <1>31, <2>1, RunGoto
    DEF CloseEvents, At, Fail, tunVars, osVars, connVars, Cleared, CleanTeardown, Once, Setup,
        RunLabels
  <2> QED
    BY <2>2, <2>3, <2>4, <2>5
<1>32. ASSUME NEW p \in Closers, TunnelClose(p) PROVE CloseInv'
  <2> USE DEF CloseInv, Built, Over, Tunnelled, SettingUp, CloseLabels, Closing
  <2>1. /\ pc[p] \in CloseLabels /\ p \in Procs
        /\ \A q \in Closers \ {p} : pc'[q] = pc[q]
    BY <1>32, RunGoto, StopperGoto
    DEF TunnelClose, At, AfterClose, Closers, Procs, RunLabels, StopLabels
  <2>2. tunnel /\ sess # "none"
    BY <2>1 DEF Once, Setup, TypeOK
  <2>3. Setup' /\ LeftMeansClosed'
    BY <1>32, <2>1, <2>2, RunGoto, StopperGoto
    DEF TunnelClose, At, AfterClose, toldVars, tunVars, osVars, Setup, LeftMeansClosed, Once, Cleared,
        Closers, RunLabels, StopLabels
  <2>4. Adapter'
    BY <1>32, <2>1, <2>2, RunGoto, StopperGoto
    DEF TunnelClose, At, AfterClose, tunVars, osVars, Adapter, Setup, Closers, RunLabels, StopLabels
  <2>5. Once'
    <3>1. CASE once = "fresh"
      <4>1. pc'[p] = "closeRoutes" /\ once' = "busy" /\ UNCHANGED tunnel
        BY <1>32, <3>1, RunGoto, StopperGoto DEF TunnelClose, Closers, RunLabels, StopLabels
      <4>2. \A q \in Closers \ {p} : pc'[q] \notin Closing
        BY <2>1, <3>1 DEF Once
      <4>3. ~overlap' => pc[Run] \notin SettingUp
        BY <1>32, <3>1, Zenon DEF TunnelClose
      <4>4. ~overlap' => pc'[Run] \notin SettingUp
        BY <2>1, <4>1, <4>3 DEF Closers
      <4> QED
        BY <2>1, <2>2, <4>1, <4>2, <4>4 DEF Once
    <3>2. CASE once = "finished"
      <4>1. pc'[p] \notin CloseLabels /\ pc'[p] \notin SettingUp
            /\ UNCHANGED <<tunnel, once, overlap>>
        BY <1>32, <3>2, RunGoto, StopperGoto
        DEF TunnelClose, AfterClose, Closers, RunLabels, StopLabels
      <4> QED
        BY <2>1, <4>1 DEF Once, Closers
    <3> QED
      BY <1>32, <3>1, <3>2 DEF TunnelClose
  <2>6. Cleared'
    <3>1. UNCHANGED <<sess, wire, routes, nrpt>>
      BY <1>32 DEF TunnelClose, osVars, connVars
    <3>2. CASE once = "fresh"
      <4>1. pc'[p] = "closeRoutes" /\ once' = "busy"
        BY <1>32, <3>2, RunGoto, StopperGoto DEF TunnelClose, Closers, RunLabels, StopLabels
      <4>2. \A q \in Closers \ {p} : pc'[q] \notin Closing
        BY <2>1, <3>2 DEF Once
      <4> QED
        BY <3>1, <4>1, <4>2 DEF Cleared
    <3>3. CASE once = "finished"
      <4>1. pc'[p] \notin CloseLabels /\ UNCHANGED <<once, overlap>>
        BY <1>32, <3>3, RunGoto, StopperGoto
        DEF TunnelClose, AfterClose, Closers, RunLabels, StopLabels
      <4> QED
        BY <2>1, <3>1, <4>1 DEF Cleared
    <3> QED
      BY <1>32, <3>2, <3>3 DEF TunnelClose
  <2>7. CleanTeardown'
    BY <1>32, <2>1, <2>2
    DEF TunnelClose, At, tunVars, osVars, connVars, CleanTeardown, Cleared, Once, Adapter, TypeOK
  <2> QED
    BY <2>3, <2>4, <2>5, <2>6, <2>7
<1>33. ASSUME NEW p \in Closers, RemoveRoutes(p) PROVE CloseInv'
  <2> USE DEF CloseInv, Built, Over, Tunnelled, SettingUp, CloseLabels, Closing
  <2>1. /\ pc[p] \in CloseLabels /\ p \in Procs
        /\ \A q \in Closers \ {p} : pc'[q] = pc[q]
    BY <1>33, RunGoto, StopperGoto
    DEF RemoveRoutes, At, AfterClose, Closers, Procs, RunLabels, StopLabels
  <2>2. tunnel /\ sess # "none"
    BY <2>1 DEF Once, Setup, TypeOK
  <2>3. Setup' /\ LeftMeansClosed'
    BY <1>33, <2>1, <2>2, RunGoto, StopperGoto
    DEF RemoveRoutes, At, AfterClose, toldVars, tunVars, osVars, Setup, LeftMeansClosed, Once, Cleared,
        Closers, RunLabels, StopLabels
  <2>4. Adapter'
    BY <1>33, <2>1, <2>2, RunGoto, StopperGoto
    DEF RemoveRoutes, At, AfterClose, tunVars, osVars, Adapter, Setup, Closers, RunLabels, StopLabels
  <2>5. Once'
    BY <1>33, <2>1, <2>2, RunGoto, StopperGoto
    DEF RemoveRoutes, At, AfterClose, tunVars, Once, Setup, Closers, RunLabels, StopLabels
  <2>6. Cleared'
    BY <1>33, <2>1, <2>2, RunGoto, StopperGoto
    DEF RemoveRoutes, At, AfterClose, tunVars, osVars, connVars, Cleared, Once, Adapter, Closers,
        RunLabels, StopLabels
  <2>7. CleanTeardown'
    BY <1>33, <2>1, <2>2
    DEF RemoveRoutes, At, tunVars, osVars, connVars, CleanTeardown, Cleared, Once, Adapter, TypeOK
  <2> QED
    BY <2>3, <2>4, <2>5, <2>6, <2>7
<1>34. ASSUME NEW p \in Closers, RemoveDNSPolicy(p) PROVE CloseInv'
  <2> USE DEF CloseInv, Built, Over, Tunnelled, SettingUp, CloseLabels, Closing
  <2>1. /\ pc[p] \in CloseLabels /\ p \in Procs
        /\ \A q \in Closers \ {p} : pc'[q] = pc[q]
    BY <1>34, RunGoto, StopperGoto
    DEF RemoveDNSPolicy, At, AfterClose, Closers, Procs, RunLabels, StopLabels
  <2>2. tunnel /\ sess # "none"
    BY <2>1 DEF Once, Setup, TypeOK
  <2>3. Setup' /\ LeftMeansClosed'
    BY <1>34, <2>1, <2>2, RunGoto, StopperGoto
    DEF RemoveDNSPolicy, At, AfterClose, toldVars, tunVars, osVars, Setup, LeftMeansClosed, Once, Cleared,
        Closers, RunLabels, StopLabels
  <2>4. Adapter'
    BY <1>34, <2>1, <2>2, RunGoto, StopperGoto
    DEF RemoveDNSPolicy, At, AfterClose, tunVars, osVars, Adapter, Setup, Closers, RunLabels, StopLabels
  <2>5. Once'
    BY <1>34, <2>1, <2>2, RunGoto, StopperGoto
    DEF RemoveDNSPolicy, At, AfterClose, tunVars, Once, Setup, Closers, RunLabels, StopLabels
  <2>6. Cleared'
    BY <1>34, <2>1, <2>2, RunGoto, StopperGoto
    DEF RemoveDNSPolicy, At, AfterClose, tunVars, osVars, connVars, Cleared, Once, Adapter, Closers,
        RunLabels, StopLabels
  <2>7. CleanTeardown'
    BY <1>34, <2>1, <2>2
    DEF RemoveDNSPolicy, At, tunVars, osVars, connVars, CleanTeardown, Cleared, Once, Adapter, TypeOK
  <2> QED
    BY <2>3, <2>4, <2>5, <2>6, <2>7
<1>35. ASSUME NEW p \in Closers, CloseSession(p) PROVE CloseInv'
  <2> USE DEF CloseInv, Built, Over, Tunnelled, SettingUp, CloseLabels, Closing
  <2>1. /\ pc[p] \in CloseLabels /\ p \in Procs
        /\ \A q \in Closers \ {p} : pc'[q] = pc[q]
    BY <1>35, RunGoto, StopperGoto
    DEF CloseSession, At, AfterClose, Closers, Procs, RunLabels, StopLabels
  <2>2. tunnel /\ sess # "none"
    BY <2>1 DEF Once, Setup, TypeOK
  <2>3. Setup' /\ LeftMeansClosed'
    BY <1>35, <2>1, <2>2, RunGoto, StopperGoto
    DEF CloseSession, At, AfterClose, toldVars, tunVars, osVars, Setup, LeftMeansClosed, Once, Cleared,
        Closers, RunLabels, StopLabels
  <2>4. Adapter'
    BY <1>35, <2>1, <2>2, RunGoto, StopperGoto
    DEF CloseSession, At, AfterClose, tunVars, osVars, Adapter, Setup, Closers, RunLabels, StopLabels
  <2>5. Once'
    BY <1>35, <2>1, <2>2, RunGoto, StopperGoto
    DEF CloseSession, At, AfterClose, tunVars, Once, Setup, Closers, RunLabels, StopLabels
  <2>6. Cleared'
    BY <1>35, <2>1, <2>2, RunGoto, StopperGoto
    DEF CloseSession, At, AfterClose, tunVars, osVars, connVars, Cleared, Once, Adapter, Closers,
        RunLabels, StopLabels
  <2>7. CleanTeardown'
    BY <1>35, <2>1, <2>2
    DEF CloseSession, At, tunVars, osVars, connVars, CleanTeardown, Cleared, Once, Adapter, TypeOK
  <2> QED
    BY <2>3, <2>4, <2>5, <2>6, <2>7
<1>36. ASSUME NEW p \in Closers, CloseTLS(p) PROVE CloseInv'
  <2> USE DEF CloseInv, Built, Over, Tunnelled, SettingUp, CloseLabels, Closing
  <2>1. /\ pc[p] \in CloseLabels /\ p \in Procs
        /\ \A q \in Closers \ {p} : pc'[q] = pc[q]
    BY <1>36, RunGoto, StopperGoto
    DEF CloseTLS, At, AfterClose, Closers, Procs, RunLabels, StopLabels
  <2>2. tunnel /\ sess # "none"
    BY <2>1 DEF Once, Setup, TypeOK
  <2>3. Setup' /\ LeftMeansClosed'
    BY <1>36, <2>1, <2>2, RunGoto, StopperGoto
    DEF CloseTLS, At, AfterClose, toldVars, tunVars, osVars, Setup, LeftMeansClosed, Once, Cleared,
        Closers, RunLabels, StopLabels
  <2>4. Adapter'
    BY <1>36, <2>1, <2>2, RunGoto, StopperGoto
    DEF CloseTLS, At, AfterClose, tunVars, osVars, Adapter, Setup, Closers, RunLabels, StopLabels
  <2>5. Once'
    BY <1>36, <2>1, <2>2, RunGoto, StopperGoto
    DEF CloseTLS, At, AfterClose, tunVars, Once, Setup, Closers, RunLabels, StopLabels
  <2>6. Cleared'
    BY <1>36, <2>1, <2>2, RunGoto, StopperGoto
    DEF CloseTLS, At, AfterClose, tunVars, osVars, connVars, Cleared, Once, Adapter, Closers,
        RunLabels, StopLabels
  <2>7. CleanTeardown'
    BY <1>36, <2>1, <2>2
    DEF CloseTLS, At, tunVars, osVars, connVars, CleanTeardown, Cleared, Once, Adapter, TypeOK
  <2> QED
    BY <2>3, <2>4, <2>5, <2>6, <2>7
<1>37. ASSUME NEW p \in Closers, CloseDevice(p) PROVE CloseInv'
  <2> USE DEF CloseInv, Built, Over, Tunnelled, SettingUp, CloseLabels, Closing
  <2>1. /\ pc[p] \in CloseLabels /\ p \in Procs
        /\ \A q \in Closers \ {p} : pc'[q] = pc[q]
    BY <1>37, RunGoto, StopperGoto
    DEF CloseDevice, At, AfterClose, Closers, Procs, RunLabels, StopLabels
  <2>2. tunnel /\ sess # "none"
    BY <2>1 DEF Once, Setup, TypeOK
  <2>3. Setup' /\ LeftMeansClosed'
    BY <1>37, <2>1, <2>2, RunGoto, StopperGoto
    DEF CloseDevice, At, AfterClose, toldVars, tunVars, osVars, Setup, LeftMeansClosed, Once, Cleared,
        Closers, RunLabels, StopLabels
  <2>4. Adapter'
    BY <1>37, <2>1, <2>2, RunGoto, StopperGoto
    DEF CloseDevice, At, AfterClose, tunVars, osVars, Adapter, Setup, Closers, RunLabels, StopLabels
  <2>5. Once'
    BY <1>37, <2>1, <2>2, RunGoto, StopperGoto
    DEF CloseDevice, At, AfterClose, tunVars, Once, Setup, Closers, RunLabels, StopLabels
  <2>6. Cleared'
    BY <1>37, <2>1, <2>2, RunGoto, StopperGoto
    DEF CloseDevice, At, AfterClose, tunVars, osVars, connVars, Cleared, Once, Adapter, Closers,
        RunLabels, StopLabels
  <2>7. CleanTeardown'
    BY <1>37, <2>1, <2>2
    DEF CloseDevice, At, tunVars, osVars, connVars, CleanTeardown, Cleared, Once, Adapter, TypeOK
  <2> QED
    BY <2>3, <2>4, <2>5, <2>6, <2>7
<1>38. ASSUME NEW d \in Stoppers, DisconnectCall(d) PROVE CloseInv'
  <2>1. /\ UNCHANGED <<mode, tunVars, osVars>>
        /\ wire' = wire \/ wire' = "closed"
        /\ ctxDone => ctxDone'
    BY <1>38 DEF DisconnectCall, toldVars, connVars
  <2>2. /\ pc'[Run] = pc[Run]
        /\ \A e \in Stoppers : pc'[e] = pc[e] \/ pc'[e] \notin CloseLabels
    BY <1>38, StopperGoto DEF DisconnectCall, Procs, StopLabels, CloseLabels
  <2> QED
    BY <2>1, <2>2, AsideKeepsClose
<1>39. ASSUME NEW d \in Stoppers, DisconnectRead(d) PROVE CloseInv'
  <2> USE DEF CloseInv, Built, Over, Tunnelled, SettingUp, CloseLabels, Closing, Closers
  <2>1. /\ UNCHANGED <<mode, ctxDone, wire, tunVars, osVars>>
        /\ pc[d] = "lock" /\ (pc'[d] = "cclose" \/ (pc'[d] = "tclose" /\ tunnel))
        /\ \A p \in Closers \ {d} : pc'[p] = pc[p]
    BY <1>39, StopperGoto DEF DisconnectRead, At, toldVars, connVars, Procs, StopLabels
  <2>2. Setup' /\ LeftMeansClosed' /\ Adapter' /\ CleanTeardown'
    BY <2>1 DEF Setup, LeftMeansClosed, Adapter, CleanTeardown, tunVars, osVars
  <2>3. Once'
    BY <2>1 DEF Once, tunVars
  <2>4. Cleared'
    BY <2>1 DEF Cleared, tunVars, osVars
  <2> QED
    BY <2>2, <2>3, <2>4
<1>40. ASSUME NEW d \in Stoppers, CloseConn(d) PROVE CloseInv'
  <2>1. /\ UNCHANGED <<mode, tunVars, osVars>>
        /\ wire' = wire \/ wire' = "closed"
        /\ ctxDone => ctxDone'
    BY <1>40 DEF CloseConn, toldVars, connVars
  <2>2. /\ pc'[Run] = pc[Run]
        /\ \A e \in Stoppers : pc'[e] = pc[e] \/ pc'[e] \notin CloseLabels
    BY <1>40, StopperGoto DEF CloseConn, Procs, StopLabels, CloseLabels
  <2> QED
    BY <2>1, <2>2, AsideKeepsClose
<1>41. ASSUME NEW d \in Stoppers, ClearConn(d) PROVE CloseInv'
  <2>1. /\ UNCHANGED <<mode, tunVars, osVars>>
        /\ wire' = wire \/ wire' = "closed"
        /\ ctxDone => ctxDone'
    BY <1>41 DEF ClearConn, toldVars, connVars
  <2>2. /\ pc'[Run] = pc[Run]
        /\ \A e \in Stoppers : pc'[e] = pc[e] \/ pc'[e] \notin CloseLabels
    BY <1>41, StopperGoto DEF ClearConn, Procs, StopLabels, CloseLabels
  <2> QED
    BY <2>1, <2>2, AsideKeepsClose
<1>42. ASSUME NEW s \in Submitters, SubmitBegin(s) PROVE CloseInv'
  <2>1. /\ UNCHANGED <<mode, tunVars, osVars>>
        /\ wire' = wire \/ wire' = "closed"
        /\ ctxDone => ctxDone'
    BY <1>42 DEF SubmitBegin, toldVars, connVars
  <2>2. /\ pc'[Run] = pc[Run]
        /\ \A e \in Stoppers : pc'[e] = pc[e] \/ pc'[e] \notin CloseLabels
    BY <1>42, SubmitterGoto DEF SubmitBegin, Procs, SubmitLabels, CloseLabels
  <2> QED
    BY <2>1, <2>2, AsideKeepsClose
<1>43. ASSUME NEW s \in Submitters, SubmitAccepted(s) PROVE CloseInv'
  <2>1. /\ UNCHANGED <<mode, tunVars, osVars>>
        /\ wire' = wire \/ wire' = "closed"
        /\ ctxDone => ctxDone'
    BY <1>43 DEF SubmitAccepted, toldVars, connVars
  <2>2. /\ pc'[Run] = pc[Run]
        /\ \A e \in Stoppers : pc'[e] = pc[e] \/ pc'[e] \notin CloseLabels
    BY <1>43, SubmitterGoto DEF SubmitAccepted, Procs, SubmitLabels, CloseLabels
  <2> QED
    BY <2>1, <2>2, AsideKeepsClose
<1>44. ASSUME NEW s \in Submitters, SubmitChallenged(s) PROVE CloseInv'
  <2>1. /\ UNCHANGED <<mode, tunVars, osVars>>
        /\ wire' = wire \/ wire' = "closed"
        /\ ctxDone => ctxDone'
    BY <1>44 DEF SubmitChallenged, toldVars, connVars, Panic
  <2>2. /\ pc'[Run] = pc[Run]
        /\ \A e \in Stoppers : pc'[e] = pc[e] \/ pc'[e] \notin CloseLabels
    BY <1>44, SubmitterGoto DEF SubmitChallenged, Procs, SubmitLabels, CloseLabels, Panic
  <2> QED
    BY <2>1, <2>2, AsideKeepsClose
<1>45. ASSUME NEW s \in Submitters, SubmitRejected(s) PROVE CloseInv'
  <2>1. /\ UNCHANGED <<mode, tunVars, osVars>>
        /\ wire' = wire \/ wire' = "closed"
        /\ ctxDone => ctxDone'
    BY <1>45 DEF SubmitRejected, toldVars, connVars
  <2>2. /\ pc'[Run] = pc[Run]
        /\ \A e \in Stoppers : pc'[e] = pc[e] \/ pc'[e] \notin CloseLabels
    BY <1>45, SubmitterGoto DEF SubmitRejected, Procs, SubmitLabels, CloseLabels
  <2> QED
    BY <2>1, <2>2, AsideKeepsClose
<1>46. ASSUME NEW s \in Submitters, SubmitFailed(s) PROVE CloseInv'
  <2>1. /\ UNCHANGED <<mode, tunVars, osVars>>
        /\ wire' = wire \/ wire' = "closed"
        /\ ctxDone => ctxDone'
    BY <1>46 DEF SubmitFailed, toldVars, connVars
  <2>2. /\ pc'[Run] = pc[Run]
        /\ \A e \in Stoppers : pc'[e] = pc[e] \/ pc'[e] \notin CloseLabels
    BY <1>46, SubmitterGoto DEF SubmitFailed, Procs, SubmitLabels, CloseLabels
  <2> QED
    BY <2>1, <2>2, AsideKeepsClose
<1>47. ASSUME NEW g \in Pump, TLSPumpExit(g) PROVE CloseInv'
  <2> USE DEF TLSPumpExit, toldVars, connVars, tunVars, osVars, CloseInv
  <2>1. Setup' /\ LeftMeansClosed' /\ Adapter'
    BY <1>47 DEF Setup, LeftMeansClosed, Adapter
  <2>2. Once' /\ Cleared' /\ CleanTeardown'
    BY <1>47 DEF Once, Cleared, CleanTeardown, Closers
  <2> QED
    BY <2>1, <2>2
<1>48. CASE TunToPayloadOutExit
  <2> USE DEF TunToPayloadOutExit, toldVars, connVars, tunVars, osVars, CloseInv
  <2>1. Setup' /\ LeftMeansClosed' /\ Adapter'
    BY <1>48 DEF Setup, LeftMeansClosed, Adapter
  <2>2. Once' /\ Cleared' /\ CleanTeardown'
    BY <1>48 DEF Once, Cleared, CleanTeardown, Closers
  <2> QED
    BY <2>1, <2>2
<1>49. CASE PayloadInToTunExit
  <2> USE DEF PayloadInToTunExit, toldVars, connVars, tunVars, osVars, CloseInv
  <2>1. Setup' /\ LeftMeansClosed' /\ Adapter'
    BY <1>49 DEF Setup, LeftMeansClosed, Adapter
  <2>2. Once' /\ Cleared' /\ CleanTeardown'
    BY <1>49 DEF Once, Cleared, CleanTeardown, Closers
  <2> QED
    BY <2>1, <2>2
<1>50. CASE PeerCloses
  BY <1>50, AsideKeepsClose DEF PeerCloses, toldVars, connVars
<1>51. CASE CancelContext
  BY <1>51, AsideKeepsClose DEF CancelContext, toldVars, connVars
<1>52. CASE TakeEvent
  BY <1>52, AsideKeepsClose DEF TakeEvent, toldVars, connVars
<1>53. CASE StartChannel
  <2>1. /\ pc[Run] = "connStart" /\ pc'[Run] = "record"
        /\ \A d \in Stoppers : pc'[d] = pc[d]
        /\ UNCHANGED <<mode, tunVars, dev, routes, nrpt, wire>>
    BY <1>53, RunGoto
    DEF StartChannel, At, toldVars, connVars, RunLabels, SettingUp, Procs
  <2>2. ~tunnel /\ once = "fresh" /\ ~tunDev /\ ~routes /\ ~nrpt /\ dev # "open"
    BY <2>1 DEF Progress, CloseInv, Once, Adapter, TypeOK, SettingUp, Tunnelled, Over, CloseLabels
  <2>3. \A p \in Closers : pc'[p] \notin CloseLabels
    BY <2>1, <2>2 DEF CloseInv, Once, Closers, CloseLabels
  <2>4. Setup' /\ LeftMeansClosed' /\ Adapter'
    BY <2>1, <2>2
    DEF CloseInv, Setup, LeftMeansClosed, Adapter, Built, Over, Tunnelled, SettingUp, CloseLabels,
        tunVars
  <2>5. Once' /\ Cleared' /\ CleanTeardown'
    BY <2>1, <2>2, <2>3 DEF Once, Cleared, CleanTeardown, Closing, CloseLabels, tunVars
  <2> QED
    BY <2>4, <2>5 DEF CloseInv
<1>54. CASE NilChannelPanics
  BY <1>54, AsideKeepsClose DEF NilChannelPanics, Panic, toldVars, connVars
<1>55. CASE UNCHANGED vars
  BY <1>55, AsideKeepsClose DEF vars, toldVars, connVars
<1> QED
  BY <1>1, <1>2, <1>3, <1>4, <1>5, <1>6, <1>7, <1>8, <1>9, <1>10, <1>11, <1>12,
     <1>13, <1>14, <1>15, <1>16, <1>17, <1>18, <1>19, <1>20, <1>21, <1>22, <1>23,
     <1>24, <1>25, <1>26, <1>27, <1>28, <1>29, <1>30, <1>31, <1>32, <1>33, <1>34,
     <1>35, <1>36, <1>37, <1>38, <1>39, <1>40, <1>41, <1>42, <1>43, <1>44, <1>45,
     <1>46, <1>47, <1>48, <1>49, <1>50, <1>51, <1>52, <1>53, <1>54, <1>55
  DEF Next, RunStep, GatewayAnswers, CloseStep, DisconnectStep, PumpStep, UserStep

\* A Tunnel.Close that began after the setup leaves no routes, no NRPT rules, no
\* adapter, no session and no connection, whoever closes and however often.
THEOREM TeardownCorrect == Spec => []CleanTeardown
<1>1. CloseInv => CleanTeardown
  BY DEF CloseInv
<1> QED
  BY <1>1, AuthInit, AuthStep, CloseInit, CloseStepInv, PTL DEF Spec

\* The event channel of a socks5 client closes after its session.
THEOREM FinishedCorrect == Spec => []FinishedMeansClosed
<1>1. AuthInv /\ CloseInv => FinishedMeansClosed
  BY DEF AuthInv, Progress, CloseInv, LeftMeansClosed, FinishedMeansClosed, Over
<1> QED
  BY <1>1, AuthInit, AuthStep, CloseInit, CloseStepInv, PTL DEF Spec

\* A working session is closed by nobody who has not removed its routes first:
\* neither by Tunnel.Close nor by a pump that gives up (closeOnce, payloadInToTun).
THEOREM RoutesCorrect == Spec => RoutesBeforeSession
<1>1. AuthInv /\ CloseInv /\ [Next]_vars
        => [sess = "open" /\ sess' = "closed" /\ wire = "open" => ~routes \/ overlap]_vars
  <2> SUFFICES ASSUME AuthInv, CloseInv, [Next]_vars, sess = "open", sess' = "closed",
                      wire = "open"
               PROVE  ~routes \/ overlap
    OBVIOUS
  <2>1. ASSUME NEW p \in Closers, CloseSession(p) PROVE ~routes \/ overlap
    BY <2>1 DEF CloseSession, At, CloseInv, Cleared, Closing, CloseLabels
  <2>2. CASE PayloadInToTunExit
    BY <2>2 DEF PayloadInToTunExit, CloseInv, Adapter
  <2>3. ASSUME NEW g \in Pump, TLSPumpExit(g) PROVE FALSE
    BY <2>3 DEF TLSPumpExit
  <2>4. CASE BuildTunnel
    BY <2>4 DEF BuildTunnel, Panic, tunVars
  <2>5. CASE UNCHANGED vars
    BY <2>5 DEF vars, tunVars
  <2>6. CASE RunStep /\ ~BuildTunnel
    BY <2>6 DEF RunStep, tunVars, Connect, InitAuthBegin, PasswordAuthBegin, Announce2FA,
      Wait2FAPassed, Wait2FACancelled, SetupTunnelCheck, SetupTunnelCookie, SendConnect,
      SetupTunnelFail, StartChannel, RecordTunnel, HookDone, HookFailed, CreateDevice, CreateFailed,
      AssignDevice, ApplyRoutes, ApplyDNSPolicy, RunEnds, ExitRunning, CloseEvents, Panic
  <2>7. CASE GatewayAnswers
    BY <2>7 DEF GatewayAnswers, tunVars, InitAuthOK, InitAuthRedirect, InitAuthFail,
      PasswordAuthComplete, PasswordAuthChallenge, PasswordAuthAgain, PasswordAuthFail,
      ConnectAccepted, ConnectRefused, SubmitAccepted, SubmitChallenged, SubmitRejected,
      SubmitFailed, Panic
  <2>8. ASSUME NEW p \in Closers, CloseStep(p), ~CloseSession(p) PROVE FALSE
    BY <2>8 DEF CloseStep, tunVars, TunnelClose, RemoveRoutes, RemoveDNSPolicy, CloseTLS,
      CloseDevice
  <2>9. ASSUME NEW d \in Stoppers, DisconnectStep(d) PROVE FALSE
    BY <2>9 DEF DisconnectStep, tunVars, DisconnectRead, CloseConn, ClearConn
  <2>10. CASE TunToPayloadOutExit
    BY <2>10 DEF TunToPayloadOutExit, tunVars
  <2>11. CASE NilChannelPanics
    BY <2>11 DEF NilChannelPanics, Panic, tunVars
  <2>12. CASE UserStep \/ PeerCloses \/ CancelContext \/ TakeEvent
    BY <2>12 DEF UserStep, DisconnectCall, SubmitBegin, PeerCloses, CancelContext, TakeEvent,
      tunVars
  <2> QED
    BY <2>1, <2>2, <2>3, <2>4, <2>5, <2>6, <2>7, <2>8, <2>9, <2>10, <2>11, <2>12
    DEF Next, PumpStep
<1> QED
  BY <1>1, AuthInit, AuthStep, CloseInit, CloseStepInv, PTL DEF Spec, RoutesBeforeSession

-----------------------------------------------------------------------------
(* What the events say                                                     *)

\* A "connected" event is in the channel.
Announced(q) == \E i \in 1..Len(q) : q[i] = "connected"

\* emit announces a connection only with a "connected" event.
LEMMA PutAnnounces ==
  ASSUME NEW q \in Seq(EventType), NEW e \in EventType, e # "connected",
         Announced(Put(q, e))
  PROVE  Announced(q)
<1>1. CASE Len(q) < EventsCap
  <2>1. PICK i \in 1..Len(Append(q, e)) : Append(q, e)[i] = "connected"
    BY <1>1 DEF Put, Announced
  <2>2. i \in 1..Len(q) /\ Append(q, e)[i] = q[i]
    BY <2>1
  <2> QED
    BY <2>1, <2>2 DEF Announced
<1>2. CASE ~(Len(q) < EventsCap)
  BY <1>2 DEF Put
<1> QED
  BY <1>1, <1>2

\* Taking the oldest event announces nothing.
LEMMA TailAnnounces ==
  ASSUME NEW q \in Seq(EventType), q # <<>>, Announced(Tail(q))
  PROVE  Announced(q)
<1>1. PICK i \in 1..Len(Tail(q)) : Tail(q)[i] = "connected"
  BY DEF Announced
<1>2. i + 1 \in 1..Len(q) /\ q[i + 1] = "connected"
  BY <1>1
<1> QED
  BY <1>2 DEF Announced

\* Only the last step of a setup announces a connection, and neither the tunnel
\* nor the consent of the gateway is ever taken back.
LEMMA AnnounceStep ==
  ASSUME TypeOK, [Next]_vars
  PROVE  /\ Announced(events') => Announced(events) \/ pc[Run] \in {"hook", "dns"}
         /\ tunnel => tunnel'
         /\ granted => granted'
<1> USE DEF EventType
<1>1. events \in Seq(EventType) /\ Len(events) <= EventsCap
  BY DEF TypeOK
<1>2. ASSUME NEW e \in EventType \ {"connected"}, Emit(e)
      PROVE  Announced(events') => Announced(events)
  BY <1>1, <1>2, PutAnnounces DEF Emit
<1>3. ASSUME events' = Put(Put(events, "progress"), "error")
      PROVE  Announced(events') => Announced(events)
  <2>1. Put(events, "progress") \in Seq(EventType)
    BY <1>1, PutType
  <2> QED
    BY <1>1, <1>3, <2>1, PutAnnounces
<1>4. CASE UNCHANGED vars
  BY <1>4 DEF vars, evVars, tunVars, authVars
<1>5. CASE RunStep
  BY <1>2, <1>3, <1>5
  DEF RunStep, tunVars, evVars, authVars, At, Fail, Connect, InitAuthBegin, PasswordAuthBegin,
    Announce2FA, Wait2FAPassed, Wait2FACancelled, SetupTunnelCheck, SetupTunnelCookie,
    SendConnect, SetupTunnelFail, BuildTunnel, StartChannel, RecordTunnel, HookDone,
    HookFailed, CreateDevice, CreateFailed, AssignDevice, ApplyRoutes, ApplyDNSPolicy, RunEnds,
    ExitRunning, CloseEvents, Panic
<1>6. CASE GatewayAnswers
  BY <1>2, <1>3, <1>6
  DEF GatewayAnswers, tunVars, evVars, authVars, Fail, InitAuthOK, InitAuthRedirect,
    InitAuthFail, PasswordAuthComplete, PasswordAuthChallenge, PasswordAuthAgain,
    PasswordAuthFail, ConnectAccepted, ConnectRefused, SubmitAccepted, SubmitChallenged,
    SubmitRejected, SubmitFailed, Panic
<1>7. ASSUME NEW p \in Closers, CloseStep(p) PROVE UNCHANGED <<events, tunnel, granted>>
  BY <1>7 DEF CloseStep, tunVars, evVars, authVars, TunnelClose, RemoveRoutes,
    RemoveDNSPolicy, CloseSession, CloseTLS, CloseDevice
<1>8. ASSUME NEW d \in Stoppers, DisconnectStep(d) PROVE UNCHANGED <<events, tunnel, granted>>
  BY <1>8 DEF DisconnectStep, tunVars, evVars, authVars, DisconnectRead, CloseConn, ClearConn
<1>9. CASE PumpStep
  BY <1>9 DEF PumpStep, TLSPumpExit, NilChannelPanics, Panic, TunToPayloadOutExit,
    PayloadInToTunExit, tunVars, evVars, authVars
<1>10. CASE UserStep \/ PeerCloses \/ CancelContext
  BY <1>10 DEF UserStep, DisconnectCall, SubmitBegin, PeerCloses, CancelContext, tunVars,
    evVars, authVars
<1>11. CASE TakeEvent
  <2>1. UNCHANGED <<tunnel, granted>>
    BY <1>11 DEF TakeEvent, tunVars, authVars
  <2> QED
    BY <1>1, <1>11, <2>1, TailAnnounces DEF TakeEvent
<1> QED
  BY <1>4, <1>5, <1>6, <1>7, <1>8, <1>9, <1>10, <1>11 DEF Next

\* A "connected" event is in the channel only with a tunnel behind it, made after
\* the gateway accepted the credentials.
THEOREM ConnectedCorrect == Spec => []ConnectedMeansTunnel
<1>1. Init => ConnectedMeansTunnel
  BY DEF Init, ConnectedMeansTunnel
<1>2. AuthInv /\ CloseInv /\ ConnectedMeansTunnel /\ [Next]_vars => ConnectedMeansTunnel'
  <2> SUFFICES ASSUME AuthInv, CloseInv, ConnectedMeansTunnel, [Next]_vars,
                      Announced(events')
               PROVE  tunnel' /\ granted'
    BY DEF ConnectedMeansTunnel, Announced
  <2>1. CASE Announced(events)
    BY <2>1, AnnounceStep DEF ConnectedMeansTunnel, Announced, AuthInv
  <2>2. CASE pc[Run] \in {"hook", "dns"}
    BY <2>2, AnnounceStep
    DEF AuthInv, GrantedBeforeTunnel, CloseInv, Setup, Tunnelled, SettingUp
  <2> QED
    BY <2>1, <2>2, AnnounceStep DEF AuthInv
<1> QED
  BY <1>1, <1>2, AuthInit, AuthStep, CloseInit, CloseStepInv, PTL DEF Spec
-----------------------------------------------------------------------------
(* The contract with Manager                                               *)

\* The points of run before it has a tunnel.
LoginPoints ==
  {"init", "initWait", "auth", "pwdWait", "challenged", "wait2fa", "setup", "cookie",
   "connect", "connWait", "connErr", "connBuild"}

\* What the contract sees of a client.
contract == <<mode = "socks5", PhaseAt(pc[Run]), sess, stopped, ctxDone, events>>

\* What the contract sees besides the words and the phase.
plain == <<mode, sess, stopped, ctxDone>>

\* The phase at each program point.
LEMMA Phases ==
  /\ PhaseAt("new") = "new" /\ PhaseAt("up") = "up" /\ PhaseAt("done") = "closed"
  /\ PhaseAt("exit") = "ended" /\ PhaseAt("closeEv") = "ended"
  /\ \A l \in LoginPoints : PhaseAt(l) = "login"
  /\ \A l \in SettingUp : PhaseAt(l) = "setup"
  /\ \A l \in CloseLabels : PhaseAt(l) = "ended"
  BY DEF PhaseAt, LoginPoints, SettingUp, CloseLabels

\* emit puts a word as the contract says it.
LEMMA PutSays == \A s, w : Contract!Say(s, w) = Put(s, w)
  BY DEF Contract!Say, Put

\* A step within a phase that at most talks.
LEMMA TalkStep ==
  ASSUME PhaseAt(pc'[Run]) = PhaseAt(pc[Run]), UNCHANGED plain,
         \/ UNCHANGED events
         \/ /\ PhaseAt(pc[Run]) \notin {"new", "closed"}
            /\ \E w \in {"progress", "2fa_required"} : events' = Put(events, w)
  PROVE  Contract!Next \/ UNCHANGED contract
<1>1. CASE UNCHANGED events
  BY <1>1 DEF contract, plain
<1>2. CASE PhaseAt(pc[Run]) \notin {"new", "closed"}
           /\ \E w \in {"progress", "2fa_required"} : events' = Put(events, w)
  <2>1. Contract!Talks
    BY <1>2, PutSays DEF Contract!Talks, Contract!Talk, plain
  <2> QED
    BY <2>1 DEF Contract!Next
<1> QED
  BY <1>1, <1>2

\* A login that ends with its last word.
LEMMA LoginOver ==
  ASSUME pc[Run] \in LoginPoints, pc'[Run] = "exit", UNCHANGED plain,
         NEW w \in {"disconnected", "error"}, w = "disconnected" => stopped \/ ctxDone,
         events' = Put(events, w) \/ events' = Put(Put(events, "progress"), w)
  PROVE  Contract!Next
<1>1. Contract!LoginEnds
  BY Phases, PutSays DEF Contract!LoginEnds, Contract!Move, Contract!LastWord, plain
<1> QED
  BY <1>1 DEF Contract!Next

\* A setup that fails, leaving run or by way of Tunnel.Close.
LEMMA SetupOver ==
  ASSUME pc[Run] \in SettingUp, pc'[Run] \in {"exit"} \cup CloseLabels, UNCHANGED plain,
         events' = Put(events, "error")
  PROVE  Contract!Next
<1>1. Contract!SetupFails
  BY Phases, PutSays DEF Contract!SetupFails, Contract!Move, plain
<1> QED
  BY <1>1 DEF Contract!Next

\* A setup that ends with a connection.
LEMMA SetupDone ==
  ASSUME pc[Run] \in SettingUp, pc'[Run] = "up", UNCHANGED plain,
         events' = Put(events, "connected")
  PROVE  Contract!Next
<1>1. Contract!Connected
  BY Phases, PutSays DEF Contract!Connected, Contract!Move, plain
<1> QED
  BY <1>1 DEF Contract!Next

\* Steps of others that may close the session and do nothing else to be seen.
LEMMA SessionStep ==
  ASSUME PhaseAt(pc'[Run]) = PhaseAt(pc[Run]), UNCHANGED <<mode, stopped, ctxDone, events>>,
         sess \in {"open", "closed"}, sess' = "closed"
  PROVE  Contract!Next \/ UNCHANGED contract
<1>1. CASE sess = "open"
  <2>1. Contract!SessionCloses
    BY <1>1 DEF Contract!SessionCloses
  <2> QED
    BY <2>1 DEF Contract!Next
<1>2. CASE sess = "closed"
  BY <1>2 DEF contract
<1> QED
  BY <1>1, <1>2

\* Disconnect and failAuth.
LEMMA AskStep ==
  ASSUME PhaseAt(pc'[Run]) = PhaseAt(pc[Run]), UNCHANGED <<mode, sess, ctxDone, events>>,
         stopped \in BOOLEAN, stopped' = TRUE
  PROVE  Contract!Next \/ UNCHANGED contract
<1>1. CASE ~stopped
  <2>1. Contract!Ask
    BY <1>1 DEF Contract!Ask
  <2> QED
    BY <2>1 DEF Contract!Next
<1>2. CASE stopped
  BY <1>2 DEF contract
<1> QED
  BY <1>1, <1>2

\* A new client is at the beginning of the contract.
LEMMA ContractInit == Init => Contract!Init
  BY Phases, ProcessAssumption, ModeAssumption DEF Init, Contract!Init, Procs

\* Every step of every goroutine is a step of the contract or none of its concern.
LEMMA ContractStep ==
  AuthInv /\ CloseInv /\ [Next]_vars => Contract!Next \/ UNCHANGED contract
<1> SUFFICES ASSUME AuthInv, CloseInv, [Next]_vars PROVE Contract!Next \/ UNCHANGED contract
  OBVIOUS
<1>t. TypeOK /\ ProgramPoints
  BY DEF AuthInv, TypeOK
<1>s. stopped \in BOOLEAN /\ sess \in {"none", "open", "closed"}
  BY <1>t DEF TypeOK
<1>go. ASSUME NEW l \in RunLabels, Goto(Run, l) PROVE pc'[Run] = l
  BY <1>t, <1>go, RunGoto
<1>stop. ASSUME NEW d \in Stoppers, NEW l \in StopLabels, Goto(d, l) PROVE pc'[Run] = pc[Run]
  BY <1>t, <1>stop, StopperGoto, ProcessAssumption DEF Procs
<1>sub. ASSUME NEW s \in Submitters, NEW l \in SubmitLabels, Goto(s, l) PROVE pc'[Run] = pc[Run]
  BY <1>t, <1>sub, SubmitterGoto, ProcessAssumption DEF Procs
<1>p. ASSUME NEW why, Panic(why) PROVE UNCHANGED contract
  BY <1>p DEF Panic, contract, toldVars, tunVars, evVars
<1>same. ASSUME UNCHANGED <<pc, mode, sess, stopped, ctxDone, events>> PROVE UNCHANGED contract
  BY <1>same DEF contract
\* run
<1>1. CASE Connect
  <2>1. pc[Run] = "new" /\ pc'[Run] = "init"
    BY <1>1, <1>go DEF Connect, At, RunLabels
  <2>2. Contract!Begin
    BY <1>1, <2>1, Phases
    DEF Connect, Contract!Begin, Contract!Move, LoginPoints, toldVars, tunVars, evVars
  <2> QED
    BY <2>2 DEF Contract!Next
<1>2. CASE \/ InitAuthBegin \/ InitAuthOK \/ InitAuthRedirect \/ InitAuthFail
           \/ PasswordAuthBegin \/ PasswordAuthComplete \/ PasswordAuthChallenge
           \/ PasswordAuthAgain \/ PasswordAuthFail
           \/ Announce2FA \/ Wait2FAPassed \/ Wait2FACancelled
           \/ SetupTunnelCheck \/ SetupTunnelCookie \/ SendConnect \/ SetupTunnelFail
           \/ ConnectAccepted \/ ConnectRefused
  <2>1. pc[Run] \in LoginPoints
    BY <1>2
    DEF At, LoginPoints, InitAuthBegin, InitAuthOK, InitAuthRedirect, InitAuthFail,
      PasswordAuthBegin, PasswordAuthComplete, PasswordAuthChallenge, PasswordAuthAgain,
      PasswordAuthFail, Announce2FA, Wait2FAPassed, Wait2FACancelled, SetupTunnelCheck,
      SetupTunnelCookie, SendConnect, SetupTunnelFail, ConnectAccepted, ConnectRefused
  <2>2. UNCHANGED plain
    BY <1>2
    DEF plain, toldVars, tunVars, Panic, InitAuthBegin, InitAuthOK, InitAuthRedirect,
      InitAuthFail, PasswordAuthBegin, PasswordAuthComplete, PasswordAuthChallenge,
      PasswordAuthAgain, PasswordAuthFail, Announce2FA, Wait2FAPassed, Wait2FACancelled,
      SetupTunnelCheck, SetupTunnelCookie, SendConnect, SetupTunnelFail, ConnectAccepted,
      ConnectRefused
  <2>a. ASSUME pc'[Run] \in LoginPoints,
               UNCHANGED events \/ \E w \in {"progress", "2fa_required"} : events' = Put(events, w)
        PROVE  Contract!Next \/ UNCHANGED contract
    BY <2>1, <2>2, <2>a, Phases, TalkStep
  <2>b. ASSUME pc'[Run] = "exit",
               events' = Put(events, "error") \/ events' = Put(Put(events, "progress"), "error")
        PROVE  Contract!Next
    BY <2>1, <2>2, <2>b, LoginOver
  <2>3. CASE InitAuthBegin
    BY <2>3, <2>a, <2>b, <1>go DEF InitAuthBegin, Emit, RunLabels, LoginPoints
  <2>4. CASE InitAuthOK
    BY <2>4, <2>a, <1>go DEF InitAuthOK, evVars, RunLabels, LoginPoints
  <2>5. CASE InitAuthRedirect
    BY <2>1, <2>5, <2>a, <2>b, <1>go DEF InitAuthRedirect, Emit, RunLabels
  <2>6. CASE InitAuthFail
    BY <2>6, <2>b, <1>go DEF InitAuthFail, Fail, Emit, RunLabels
  <2>7. CASE PasswordAuthBegin
    BY <2>7, <2>a, <2>b, <1>p, <1>go DEF PasswordAuthBegin, Emit, RunLabels, LoginPoints
  <2>8. CASE PasswordAuthComplete
    BY <2>8, <2>a, <1>go DEF PasswordAuthComplete, Emit, RunLabels, LoginPoints
  <2>9. CASE PasswordAuthChallenge
    BY <2>9, <2>a, <1>go DEF PasswordAuthChallenge, evVars, RunLabels, LoginPoints
  <2>10. CASE PasswordAuthAgain
    BY <2>1, <2>10, <2>a DEF PasswordAuthAgain, evVars
  <2>11. CASE PasswordAuthFail
    BY <2>11, <2>b, <1>go DEF PasswordAuthFail, Fail, Emit, RunLabels
  <2>12. CASE Announce2FA
    BY <2>12, <2>a, <1>go DEF Announce2FA, Emit, RunLabels, LoginPoints
  <2>13. CASE Wait2FAPassed
    BY <2>13, <2>a, <1>go DEF Wait2FAPassed, Emit, RunLabels, LoginPoints
  <2>14. CASE Wait2FACancelled
    <3>1. pc'[Run] = "exit" /\ events' = Put(events, "disconnected") /\ (stopped \/ ctxDone)
      BY <2>14, <1>go DEF Wait2FACancelled, Emit, RunLabels
    <3> QED
      BY <2>1, <2>2, <3>1, LoginOver
  <2>15. CASE SetupTunnelCheck
    BY <2>15, <2>a, <2>b, <1>go DEF SetupTunnelCheck, Fail, Emit, evVars, RunLabels, LoginPoints
  <2>16. CASE SetupTunnelCookie
    BY <2>16, <2>a, <2>b, <1>go DEF SetupTunnelCookie, Fail, Emit, evVars, RunLabels, LoginPoints
  <2>17. CASE SendConnect
    BY <2>17, <2>a, <1>p, <1>go DEF SendConnect, evVars, RunLabels, LoginPoints
  <2>18. CASE SetupTunnelFail
    BY <2>18, <2>b, <1>p, <1>go DEF SetupTunnelFail, Fail, Emit, RunLabels
  <2>19. CASE ConnectAccepted
    BY <2>19, <2>a, <1>go DEF ConnectAccepted, evVars, RunLabels, LoginPoints
  <2>20. CASE ConnectRefused
    BY <2>20, <2>a, <1>go DEF ConnectRefused, evVars, RunLabels, LoginPoints
  <2> QED
    BY <1>2, <2>3, <2>4, <2>5, <2>6, <2>7, <2>8, <2>9, <2>10, <2>11, <2>12, <2>13, <2>14,
       <2>15, <2>16, <2>17, <2>18, <2>19, <2>20
<1>3. CASE BuildTunnel
  <2>1. CASE conn = "nil" /\ Panic("nilConn")
    BY <2>1, <1>p
  <2>2. CASE Goto(Run, "connStart")
    <3>1. pc[Run] = "connBuild" /\ pc'[Run] = "connStart"
      BY <1>3, <2>2, <1>go DEF BuildTunnel, At, RunLabels, SettingUp
    <3>2. sess = "none"
      BY <3>1 DEF CloseInv, Setup, Built, Over, SettingUp, CloseLabels
    <3>3. sess' = "open" /\ UNCHANGED <<mode, stopped, ctxDone, events>>
      BY <1>3, <2>2, <3>1 DEF BuildTunnel, Panic, Goto, toldVars, evVars
    <3>4. Contract!TunnelMade
      BY <3>1, <3>2, <3>3, Phases
      DEF Contract!TunnelMade, Contract!Move, LoginPoints, SettingUp
    <3> QED
      BY <3>4 DEF Contract!Next
  <2> QED
    BY <1>3, <2>1, <2>2 DEF BuildTunnel
<1>4. CASE StartChannel \/ RecordTunnel \/ CreateDevice \/ AssignDevice \/ ApplyRoutes
  <2>1. pc[Run] \in SettingUp /\ UNCHANGED <<plain, events>>
    BY <1>4 DEF StartChannel, RecordTunnel, CreateDevice, AssignDevice, ApplyRoutes, At,
      SettingUp, plain, toldVars, tunVars, evVars
  <2>2. pc'[Run] \in SettingUp
    BY <1>4, <1>go DEF StartChannel, RecordTunnel, CreateDevice, AssignDevice, ApplyRoutes,
      RunLabels, SettingUp
  <2> QED
    BY <2>1, <2>2, Phases, TalkStep
<1>5. CASE HookDone \/ ApplyDNSPolicy
  <2>1. pc[Run] \in SettingUp /\ pc'[Run] = "up"
    BY <1>5, <1>go DEF HookDone, ApplyDNSPolicy, At, SettingUp, RunLabels
  <2>2. UNCHANGED plain /\ events' = Put(events, "connected")
    BY <1>5 DEF HookDone, ApplyDNSPolicy, Emit, plain, toldVars, tunVars
  <2> QED
    BY <2>1, <2>2, SetupDone
<1>6. CASE HookFailed \/ CreateFailed
  <2>1. pc[Run] \in SettingUp /\ pc'[Run] \in {"exit"} \cup CloseLabels
    BY <1>6, <1>go DEF HookFailed, CreateFailed, Fail, At, SettingUp, RunLabels, CloseLabels
  <2>2. UNCHANGED plain /\ events' = Put(events, "error")
    BY <1>6 DEF HookFailed, CreateFailed, Fail, Emit, plain, toldVars, tunVars
  <2> QED
    BY <2>1, <2>2, SetupOver
<1>7. CASE RunEnds
  <2>1. pc[Run] = "up" /\ pc'[Run] = "exit"
    BY <1>7, <1>go DEF RunEnds, At, RunLabels
  <2>2. Contract!TunnelEnds
    BY <1>7, <2>1, Phases, PutSays
    DEF RunEnds, Emit, Contract!TunnelEnds, Contract!Move, toldVars, tunVars
  <2> QED
    BY <2>2 DEF Contract!Next
<1>8. CASE ExitRunning
  <2>1. pc[Run] = "exit" /\ pc'[Run] = "closeEv" /\ UNCHANGED <<plain, events>>
    BY <1>8, <1>go DEF ExitRunning, At, RunLabels, plain, toldVars, tunVars, evVars
  <2> QED
    BY <2>1, Phases, TalkStep
<1>9. CASE CloseEvents
  <2>1. pc[Run] = "closeEv" /\ pc'[Run] = "done" /\ UNCHANGED <<plain, events>>
    BY <1>9, <1>go DEF CloseEvents, At, RunLabels, plain, toldVars, tunVars
  <2>2. mode = "socks5" /\ ~ctxDone => sess # "open"
    BY <2>1 DEF CloseInv, LeftMeansClosed, Over
  <2>3. Contract!Close
    BY <2>1, <2>2, Phases DEF Contract!Close, Contract!Move, plain
  <2> QED
    BY <2>3 DEF Contract!Next
\* Tunnel.Close
<1>10. ASSUME NEW p \in Closers, CloseStep(p) PROVE Contract!Next \/ UNCHANGED contract
  <2>1. PhaseAt(pc'[Run]) = PhaseAt(pc[Run])
    <3>1. PICK l \in CloseLabels \cup {AfterClose(p)} : Goto(p, l) /\ pc[p] \in CloseLabels
      BY <1>10 DEF CloseStep, TunnelClose, RemoveRoutes, RemoveDNSPolicy, CloseSession, CloseTLS,
        CloseDevice, At, CloseLabels
    <3>2. CASE p = Run
      BY <3>1, <3>2, <1>go, Phases DEF AfterClose, RunLabels
    <3>3. CASE p \in Stoppers
      BY <3>1, <3>3, <1>stop, ProcessAssumption DEF AfterClose, StopLabels
    <3> QED
      BY <3>2, <3>3 DEF Closers
  <2>2. UNCHANGED <<mode, stopped, ctxDone, events>>
    BY <1>10 DEF CloseStep, TunnelClose, RemoveRoutes, RemoveDNSPolicy, CloseSession, CloseTLS,
      CloseDevice, toldVars, evVars
  <2>3. sess' = sess \/ (sess' = "closed" /\ pc[p] = "closeSess")
    BY <1>10 DEF CloseStep, TunnelClose, RemoveRoutes, RemoveDNSPolicy, CloseSession, CloseTLS,
      CloseDevice, tunVars, At
  <2>4. CASE UNCHANGED sess
    BY <2>1, <2>2, <2>4, TalkStep DEF plain
  <2>5. CASE sess' = "closed" /\ pc[p] = "closeSess"
    <3>1. sess # "none"
      BY <2>5 DEF CloseInv, Once, Setup, CloseLabels
    <3> QED
      BY <2>1, <2>2, <2>5, <3>1, <1>s, SessionStep
  <2> QED
    BY <2>3, <2>4, <2>5
\* Disconnect
<1>11. ASSUME NEW d \in Stoppers, DisconnectCall(d) PROVE Contract!Next \/ UNCHANGED contract
  <2>1. pc'[Run] = pc[Run]
    BY <1>11, <1>stop DEF DisconnectCall, StopLabels
  <2> QED
    BY <1>11, <2>1, <1>s, AskStep DEF DisconnectCall, tunVars, evVars
<1>12. ASSUME NEW d \in Stoppers, DisconnectStep(d) PROVE Contract!Next \/ UNCHANGED contract
  <2>1. \E l \in StopLabels : Goto(d, l)
    BY <1>12 DEF DisconnectStep, DisconnectRead, CloseConn, ClearConn, StopLabels, CloseLabels
  <2>2. UNCHANGED <<plain, events>>
    BY <1>12 DEF DisconnectStep, DisconnectRead, CloseConn, ClearConn, plain, toldVars, tunVars,
      evVars
  <2> QED
    BY <2>1, <2>2, <1>stop, TalkStep
\* Submit2FA
<1>13. ASSUME NEW s \in Submitters, SubmitBegin(s) \/ SubmitAccepted(s) \/ SubmitFailed(s)
       PROVE  Contract!Next \/ UNCHANGED contract
  <2>1. UNCHANGED pc \/ \E l \in SubmitLabels : Goto(s, l)
    BY <1>13 DEF SubmitBegin, SubmitAccepted, SubmitFailed, SubmitLabels
  <2>2. UNCHANGED <<plain, events>>
    BY <1>13 DEF SubmitBegin, SubmitAccepted, SubmitFailed, plain, toldVars, tunVars, evVars
  <2> QED
    BY <2>1, <2>2, <1>sub, TalkStep
<1>14. ASSUME NEW s \in Submitters, SubmitChallenged(s) PROVE Contract!Next \/ UNCHANGED contract
  <2>1. CASE Panic("closedEvents")
    BY <2>1, <1>p
  <2>2. CASE ~evClosed /\ Emit("2fa_required") /\ Goto(s, "idle") /\ UNCHANGED plain
    <3>1. needs2FA
      BY <1>14 DEF SubmitChallenged, At, AuthInv, Challenge
    <3>2. pc[Run] \in {"challenged", "wait2fa", "exit", "closeEv", "done"}
      BY <3>1 DEF AuthInv, Challenge, Asking, Over
    <3>3. pc[Run] # "done"
      BY <2>2 DEF AuthInv, Progress
    <3>4. PhaseAt(pc[Run]) \notin {"new", "closed"}
      BY <3>2, <3>3, Phases DEF LoginPoints
    <3>5. pc'[Run] = pc[Run]
      BY <2>2, <1>sub DEF SubmitLabels
    <3> QED
      BY <2>2, <3>4, <3>5, TalkStep DEF Emit
  <2> QED
    BY <1>14, <2>1, <2>2 DEF SubmitChallenged, plain, toldVars, tunVars
<1>15. ASSUME NEW s \in Submitters, SubmitRejected(s) PROVE Contract!Next \/ UNCHANGED contract
  <2>1. pc'[Run] = pc[Run]
    BY <1>15, <1>sub DEF SubmitRejected, SubmitLabels
  <2> QED
    BY <1>15, <2>1, <1>s, AskStep DEF SubmitRejected, tunVars, evVars
\* The goroutines of the tunnel
<1>16. CASE PumpStep
  <2>1. UNCHANGED <<pc, mode, stopped, ctxDone, events>>
    BY <1>16 DEF PumpStep, TLSPumpExit, NilChannelPanics, Panic, TunToPayloadOutExit,
      PayloadInToTunExit, toldVars, evVars
  <2>2. CASE TunToPayloadOutExit \/ NilChannelPanics
    BY <2>1, <2>2, <1>same DEF TunToPayloadOutExit, NilChannelPanics, Panic, tunVars
  <2>3. CASE sess' = "closed" /\ pumps # {}
    <3>1. sess # "none"
      BY <2>3 DEF CloseInv, Setup
    <3> QED
      BY <2>1, <2>3, <3>1, <1>s, SessionStep
  <2> QED
    BY <1>16, <2>2, <2>3 DEF PumpStep, TLSPumpExit, PayloadInToTunExit
\* The environment
<1>17. CASE CancelContext
  <2>1. Contract!Cancel
    BY <1>17 DEF CancelContext, Contract!Cancel, tunVars, evVars
  <2> QED
    BY <2>1 DEF Contract!Next
<1>18. CASE TakeEvent
  <2>1. Contract!Take
    BY <1>18 DEF TakeEvent, Contract!Take, toldVars, tunVars
  <2> QED
    BY <2>1 DEF Contract!Next
<1>19. CASE PeerCloses \/ UNCHANGED vars
  BY <1>19, <1>same DEF PeerCloses, vars, toldVars, tunVars, evVars
<1> QED
  BY <1>1, <1>2, <1>3, <1>4, <1>5, <1>6, <1>7, <1>8, <1>9, <1>10, <1>11, <1>12, <1>13, <1>14,
     <1>15, <1>16, <1>17, <1>18, <1>19
  DEF Next, RunStep, GatewayAnswers, UserStep

\* The client is what Manager takes it for: run, Tunnel.Close, Disconnect,
\* Submit2FA and the goroutines of the tunnel, in whatever order, only do what
\* the contract allows.
THEOREM ContractCorrect == Spec => ImplementsContract
<1>1. AuthInv /\ CloseInv /\ [Next]_vars => [Contract!Next]_contract
  BY ContractStep
<1> QED
  BY <1>1, ContractInit, AuthInit, AuthStep, CloseInit, CloseStepInv, PTL
  DEF Spec, ImplementsContract, Contract!Spec, Contract!vars, contract

\* The words s agree with the phase ph and the session se of the contract.
Agree(s, ph, se) ==
  /\ \A i \in 1..Len(s) :
       /\ s[i] = "connected" => ph \in {"up", "ended", "closed"} /\ se # "none"
       /\ s[i] \in {"disconnected", "error"} => ph \in {"ended", "closed"}
  /\ \A i, j \in 1..Len(s) :
       i < j /\ s[j] \notin {"progress", "2fa_required"} => s[i] \notin {"disconnected", "error"}
  /\ \A i, j \in 1..Len(s) : i < j /\ s[i] = "connected" => s[j] # "connected"

\* What emit leaves in the channel is old, or the new word at its end.
LEMMA PutWords ==
  ASSUME NEW s \in Seq(EventType), NEW w \in EventType
  PROVE  /\ Put(s, w) \in Seq(EventType)
         /\ \A i \in 1..Len(Put(s, w)) :
              \/ i \in 1..Len(s) /\ Put(s, w)[i] = s[i]
              \/ i = Len(s) + 1 /\ Put(s, w)[i] = w
<1>1. Append(s, w) \in Seq(EventType) /\ Len(Append(s, w)) = Len(s) + 1
  OBVIOUS
<1>2. \A i \in 1..Len(Append(s, w)) :
        \/ i \in 1..Len(s) /\ Append(s, w)[i] = s[i]
        \/ i = Len(s) + 1 /\ Append(s, w)[i] = w
  BY <1>1
<1> QED
  BY <1>1, <1>2 DEF Put

\* Words agree with a later phase too.
LEMMA AgreeLater ==
  ASSUME NEW s, NEW ph, NEW se, NEW ph2, NEW se2, Agree(s, ph, se),
         ph \in {"up", "ended", "closed"} => ph2 \in {"up", "ended", "closed"},
         ph \in {"ended", "closed"} => ph2 \in {"ended", "closed"},
         se # "none" => se2 # "none"
  PROVE  Agree(s, ph2, se2)
  BY DEF Agree

\* A word keeps the order if it is talk, the first "connected" or the first
\* last word, and agrees with the phase.
LEMMA AgreePut ==
  ASSUME NEW s \in Seq(EventType), NEW w \in EventType, NEW ph, NEW se, NEW ph2, NEW se2,
         Agree(s, ph, se), Agree(s, ph2, se2),
         w = "connected" => ph \notin {"up", "ended", "closed"} /\ ph2 = "up" /\ se2 # "none",
         w \in {"disconnected", "error"} => ph \notin {"ended", "closed"} /\ ph2 = "ended"
  PROVE  Agree(Put(s, w), ph2, se2)
<1> DEFINE r == Put(s, w)
<1>1. \A i \in 1..Len(r) : (i \in 1..Len(s) /\ r[i] = s[i]) \/ (i = Len(s) + 1 /\ r[i] = w)
  BY PutWords
<1>2. Len(s) \in Nat
  OBVIOUS
<1>3. w \notin {"progress", "2fa_required"} => w = "connected" \/ w \in {"disconnected", "error"}
  BY DEF EventType
<1>4. w \notin {"progress", "2fa_required"} =>
        \A i \in 1..Len(s) : s[i] \notin {"disconnected", "error"}
  BY <1>3 DEF Agree
<1>5. w = "connected" => \A i \in 1..Len(s) : s[i] # "connected"
  BY DEF Agree
<1> HIDE DEF r
<1>6. \A i \in 1..Len(r) :
        /\ r[i] = "connected" => ph2 \in {"up", "ended", "closed"} /\ se2 # "none"
        /\ r[i] \in {"disconnected", "error"} => ph2 \in {"ended", "closed"}
  BY <1>1 DEF Agree
<1>7. \A i, j \in 1..Len(r) :
        i < j /\ r[j] \notin {"progress", "2fa_required"} => r[i] \notin {"disconnected", "error"}
  <2> TAKE i, j \in 1..Len(r)
  <2> HAVE i < j /\ r[j] \notin {"progress", "2fa_required"}
  <2>1. i \in 1..Len(s) /\ r[i] = s[i]
    BY <1>1, <1>2
  <2>2. CASE j \in 1..Len(s) /\ r[j] = s[j]
    BY <2>1, <2>2 DEF Agree
  <2>3. CASE r[j] = w
    BY <2>1, <2>3, <1>4
  <2> QED
    BY <2>2, <2>3, <1>1
<1>8. \A i, j \in 1..Len(r) : i < j /\ r[i] = "connected" => r[j] # "connected"
  <2> TAKE i, j \in 1..Len(r)
  <2> HAVE i < j /\ r[i] = "connected"
  <2>1. i \in 1..Len(s) /\ r[i] = s[i]
    BY <1>1, <1>2
  <2>2. CASE j \in 1..Len(s) /\ r[j] = s[j]
    BY <2>1, <2>2 DEF Agree
  <2>3. CASE r[j] = w
    BY <2>1, <2>3, <1>5
  <2> QED
    BY <2>2, <2>3, <1>1
<1> QED
  BY <1>6, <1>7, <1>8 DEF Agree, r

\* Without its first word the rest agrees as before.
LEMMA AgreeTail ==
  ASSUME NEW s \in Seq(EventType), s # <<>>, NEW ph, NEW se, Agree(s, ph, se)
  PROVE  Agree(Tail(s), ph, se) /\ Tail(s) \in Seq(EventType)
<1>1. /\ Tail(s) \in Seq(EventType) /\ Len(Tail(s)) \in Nat
      /\ \A i \in 1..Len(Tail(s)) : i + 1 \in 1..Len(s) /\ Tail(s)[i] = s[i + 1]
  OBVIOUS
<1>2. \A i, j \in 1..Len(Tail(s)) : i < j => i + 1 < j + 1
  OBVIOUS
<1> QED
  BY <1>1, <1>2 DEF Agree

\* The invariant of the contract: a configured tunnel has had a session, and
\* the words agree with the phase.
OrderInv ==
  /\ events \in Seq(EventType)
  /\ PhaseAt(pc[Run]) \in {"setup", "up"} => sess # "none"
  /\ Agree(events, PhaseAt(pc[Run]), sess)

\* Every step the contract allows keeps it.
LEMMA OrderStep == OrderInv /\ [Contract!Next]_contract => OrderInv'
<1> DEFINE ph == PhaseAt(pc[Run])
<1> SUFFICES ASSUME OrderInv, [Contract!Next]_contract PROVE OrderInv'
  OBVIOUS
<1>0. events \in Seq(EventType) /\ Agree(events, ph, sess) /\ (ph \in {"setup", "up"} => sess # "none")
  BY DEF OrderInv
<1>w. {"progress", "2fa_required", "connected", "disconnected", "error"} \subseteq EventType
  BY DEF EventType
<1> USE DEF Contract!Move
<1>1. CASE UNCHANGED contract
  BY <1>0, <1>1 DEF contract, OrderInv
<1>2. CASE Contract!Begin \/ Contract!TunnelMade \/ Contract!SessionCloses \/ Contract!Close
           \/ Contract!Ask \/ Contract!Cancel
  <2>1. /\ UNCHANGED events
        /\ ph \in {"up", "ended", "closed"} => ph' \in {"up", "ended", "closed"}
        /\ ph \in {"ended", "closed"} => ph' \in {"ended", "closed"}
        /\ sess # "none" => sess' # "none"
        /\ ph' \in {"setup", "up"} => sess' # "none"
    BY <1>0, <1>2 DEF Contract!Begin, Contract!TunnelMade, Contract!SessionCloses, Contract!Close,
      Contract!Ask, Contract!Cancel
  <2> HIDE DEF ph
  <2>2. Agree(events, ph', sess')
    BY <1>0, <2>1, AgreeLater
  <2> QED
    BY <1>0, <2>1, <2>2 DEF OrderInv, ph
<1>3. CASE Contract!Talks
  <2>1. PICK w \in {"progress", "2fa_required"} : events' = Put(events, w)
    BY <1>3, PutSays DEF Contract!Talks, Contract!Talk
  <2>2. ph' = ph /\ sess' = sess
    BY <1>3 DEF Contract!Talks
  <2> HIDE DEF ph
  <2>3. events' \in Seq(EventType) /\ Agree(events', ph, sess)
    BY <1>0, <1>w, <2>1, PutWords, AgreePut
  <2> QED
    BY <1>0, <2>2, <2>3 DEF OrderInv, ph
<1>4. CASE Contract!LoginEnds
  <2>1. PICK w \in {"disconnected", "error"} :
          events' = Put(events, w) \/ events' = Put(Put(events, "progress"), w)
    BY <1>4, PutSays DEF Contract!LoginEnds, Contract!LastWord
  <2>2. ph = "login" /\ ph' = "ended" /\ sess' = sess
    BY <1>4 DEF Contract!LoginEnds
  <2> HIDE DEF ph
  <2>3. ASSUME NEW s \in Seq(EventType), Agree(s, ph, sess)
        PROVE  Put(s, w) \in Seq(EventType) /\ Agree(Put(s, w), "ended", sess)
    <3>1. Agree(s, "ended", sess)
      BY <2>3, AgreeLater
    <3> QED
      BY <2>2, <2>3, <3>1, <1>w, PutWords, AgreePut
  <2>4. Put(events, "progress") \in Seq(EventType) /\ Agree(Put(events, "progress"), ph, sess)
    BY <1>0, <1>w, PutWords, AgreePut
  <2>5. events' \in Seq(EventType) /\ Agree(events', "ended", sess)
    BY <1>0, <2>1, <2>3, <2>4
  <2> QED
    BY <2>2, <2>5 DEF OrderInv, ph
<1>5. CASE Contract!Connected \/ Contract!SetupFails \/ Contract!TunnelEnds
  <2>1. PICK w \in {"connected", "disconnected", "error"} :
          /\ events' = Put(events, w) /\ sess' = sess
          /\ \/ w = "connected" /\ ph = "setup" /\ ph' = "up"
             \/ w \in {"disconnected", "error"} /\ ph \in {"setup", "up"} /\ ph' = "ended"
    BY <1>5, PutSays DEF Contract!Connected, Contract!SetupFails, Contract!TunnelEnds
  <2> HIDE DEF ph
  <2>2. Agree(events, ph', sess)
    BY <1>0, <2>1, AgreeLater
  <2>3. events' \in Seq(EventType)
    BY <1>0, <1>w, <2>1, PutWords
  <2>4. Agree(events', ph', sess)
    BY <1>0, <1>w, <2>1, <2>2, AgreePut
  <2> QED
    BY <1>0, <2>1, <2>3, <2>4 DEF OrderInv, ph
<1>6. CASE Contract!Take
  <2>1. events # <<>> /\ events' = Tail(events) /\ ph' = ph /\ sess' = sess
    BY <1>6 DEF Contract!Take
  <2> HIDE DEF ph
  <2>2. Agree(events', ph, sess) /\ events' \in Seq(EventType)
    BY <1>0, <2>1, AgreeTail
  <2> QED
    BY <1>0, <2>1, <2>2 DEF OrderInv, ph
<1> QED
  BY <1>1, <1>2, <1>3, <1>4, <1>5, <1>6 DEF Contract!Next

\* The words of a client come in order and agree with where it is, whatever
\* Manager has taken of them so far: it follows from the contract alone.
THEOREM StatusCorrect == Spec => []StatusInOrder
<1>1. Contract!Init => OrderInv
  BY DEF Contract!Init, OrderInv, Agree
<1>2. OrderInv => StatusInOrder
  BY DEF OrderInv, Agree, StatusInOrder, Contract!StatusInOrder, Contract!Talk, Contract!LastWord
<1>3. Contract!Spec => []OrderInv
  BY <1>1, OrderStep, PTL DEF Contract!Spec, Contract!vars, contract
<1> QED
  BY <1>2, <1>3, ContractCorrect, PTL DEF ImplementsContract
==============================================================================
