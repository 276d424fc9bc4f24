----------------------------- MODULE Ipc_proofs -----------------------------
(* Theorems about Ipc: for any number of callers and calls, any capacities  *)
(* of pipe and event channel.                                               *)
EXTENDS Ipc, SequenceTheorems, TLAPS

CallerRec == [at : {"idle", "add", "write", "wait", "forget"}, id : Call \cup {Nil}, n : Call \cup {Nil}]
ReaderRec == [at : {"read", "put", "wake", "done"}, n : Call \cup {Nil}, ans : Answer, todo : SUBSET Call]
ConnRec   == [at : {"accept", "read", "run", "send", "leave", "done"}, id : Call \cup {Nil},
              n : Call \cup {Nil}, ans : Verdict]
Reply     == {<<>>} \cup {<<a>> : a \in Answer}

\* The parts of TypeOK, with the values that belong to the places of caller,
\* reader, server and sender.
ClientTypes ==
  /\ calls \in 0..MaxCalls /\ nextID = calls
  /\ pending \in [Call -> Call \cup {Nil}] /\ \A i \in Call : pending[i] \in {Nil, i}
  /\ closed \in BOOLEAN
  /\ chan \in [Call -> Reply]
  /\ caller \in [Callers -> CallerRec]
  /\ \A p \in Callers : ~At(p, "idle") => caller[p].n \in Call /\ caller[p].id = caller[p].n
  /\ res \in [Call -> Answer \cup {"none"}]

ReaderTypes ==
  /\ reader \in ReaderRec
  /\ reader.at = "put" => reader.n \in Call /\ reader.ans \in Verdict

EventTypes == events \in Seq(1..MaxEvents) /\ Len(events) <= EventCap

PipeTypes ==
  /\ up \in Seq(Request) /\ Len(up) <= PipeCap
  /\ \A i \in 1..Len(up) : up[i].id = up[i].n
  /\ down \in Seq(Frame) /\ Len(down) <= PipeCap
  /\ \A i \in 1..Len(down) : down[i].kind = "response" => down[i].id = down[i].n
  /\ broken \in BOOLEAN

ServerTypes ==
  /\ conn \in ConnRec
  /\ conn.at \in {"run", "send"} => conn.n \in Call /\ conn.id = conn.n
  /\ member \in BOOLEAN
  /\ ran \in [Call -> Seq(Verdict)]

SenderTypes ==
  /\ sender \in [at : {"idle", "send"}, num : 0..MaxEvents]
  /\ sender.at = "send" => sender.num \in 1..MaxEvents
  /\ happened \in 0..MaxEvents
  /\ missed \in BOOLEAN

Types == ClientTypes /\ ReaderTypes /\ EventTypes /\ PipeTypes /\ ServerTypes /\ SenderTypes

-----------------------------------------------------------------------------
\* A connection starts with nothing under way.
LEMMA TypesInit == Init => Types
<1> SUFFICES ASSUME Init PROVE Types
  OBVIOUS
<1>0. 0 \in 0..MaxCalls /\ 0 \in 0..MaxEvents /\ 0 <= PipeCap /\ 0 <= EventCap
  BY BoundAssumption
<1>1. ClientTypes
  <2>1. NoCall \in CallerRec /\ NoCall.at = "idle"
    BY DEF NoCall, CallerRec, Nil
  <2> QED BY <1>0, <2>1 DEF Init, ClientTypes, Reply, At
<1>2. ReaderTypes
  BY DEF Init, ReaderTypes, ReaderRec, Nil, Answer
<1>3. events = <<>> /\ up = <<>> /\ down = <<>> /\ broken = FALSE
  BY DEF Init
<1>3e. EventTypes
  <2>1. <<>> \in Seq(1..MaxEvents) /\ Len(<<>>) = 0
    BY EmptySeq
  <2> QED BY <1>0, <1>3, <2>1, BoundAssumption DEF EventTypes
<1>3p. PipeTypes
  <2>1. <<>> \in Seq(Request) /\ <<>> \in Seq(Frame) /\ Len(<<>>) = 0
    BY EmptySeq
  <2>2. Len(up) = 0 /\ Len(down) = 0 /\ up \in Seq(Request) /\ down \in Seq(Frame)
    BY <1>3, <2>1
  <2>3. 1..Len(up) = {} /\ 1..Len(down) = {}
    BY <2>2
  <2>4. Len(up) <= PipeCap /\ Len(down) <= PipeCap
    BY <2>2, BoundAssumption
  <2> QED BY <1>3, <2>2, <2>3, <2>4 DEF PipeTypes
<1>4. ServerTypes
  <2>1. conn = [NoRequest EXCEPT !.at = "accept"] /\ member = FALSE /\ ran = [n \in Call |-> <<>>]
    BY DEF Init
  <2>2. [NoRequest EXCEPT !.at = "accept"] \in ConnRec /\ [NoRequest EXCEPT !.at = "accept"].at = "accept"
    BY DEF NoRequest, ConnRec, Nil, Verdict
  <2> QED BY <2>1, <2>2, EmptySeq DEF ServerTypes
<1>5. SenderTypes
  <2>1. sender = [at |-> "idle", num |-> 0] /\ happened = 0 /\ missed = FALSE
    BY DEF Init
  <2> QED BY <1>0, <2>1 DEF SenderTypes
<1> QED
  BY <1>1, <1>2, <1>3e, <1>3p, <1>4, <1>5 DEF Types

\* A break leaves a prefix of what was in the pipe.
LEMMA PrefixOf ==
  ASSUME NEW S, NEW s \in Seq(S), NEW k \in 0..Len(s)
  PROVE  /\ SubSeq(s, 1, k) \in Seq(S) /\ Len(SubSeq(s, 1, k)) = k
         /\ \A i \in 1..k : i \in 1..Len(s) /\ SubSeq(s, 1, k)[i] = s[i]
<1>1. Len(s) \in Nat /\ \A i \in 1..Len(s) : s[i] \in S
  BY LenProperties
<1> QED BY <1>1, SubSeqProperties

\* A read takes the first of what was in the pipe.
LEMMA TailOf ==
  ASSUME NEW S, NEW s \in Seq(S), s # <<>>
  PROVE  /\ Head(s) \in S /\ Head(s) = s[1] /\ 1 \in 1..Len(s)
         /\ Tail(s) \in Seq(S) /\ Len(Tail(s)) < Len(s)
         /\ \A i \in 1..Len(Tail(s)) : i + 1 \in 1..Len(s) /\ Tail(s)[i] = s[i + 1]
<1>1. Len(s) \in Nat \ {0}
  BY EmptySeq
<1>2. Head(s) = s[1]
  OBVIOUS
<1> QED BY <1>1, <1>2, HeadTailProperties

\* A write adds a last one.
LEMMA AppendOf ==
  ASSUME NEW S, NEW s \in Seq(S), NEW e \in S
  PROVE  /\ Append(s, e) \in Seq(S) /\ Len(Append(s, e)) = Len(s) + 1 /\ Len(s) \in Nat
         /\ \A i \in 1..Len(Append(s, e)) :
              (i \in 1..Len(s) /\ Append(s, e)[i] = s[i]) \/ Append(s, e)[i] = e
<1>1. Len(s) \in Nat
  BY LenProperties
<1> QED BY <1>1, AppendProperties

\* Callers move one at a time.
LEMMA CallerMoves ==
  ASSUME ClientTypes, NEW p \in Callers, NEW r \in CallerRec, caller' = [caller EXCEPT ![p] = r],
         r.at # "idle" => r.n \in Call /\ r.id = r.n
  PROVE  /\ caller' \in [Callers -> CallerRec]
         /\ \A q \in Callers : ~At(q, "idle")' => caller'[q].n \in Call /\ caller'[q].id = caller'[q].n
BY DEF ClientTypes, At

\* An idle caller has no call.
LEMMA NoCallType == NoCall \in CallerRec /\ NoCall.at = "idle" /\ NoCall.n = Nil
BY DEF NoCall, CallerRec

\* What a step leaves alone keeps its type.
LEMMA ClientSame == ClientTypes /\ UNCHANGED <<nextID, calls, pending, closed, chan, caller, res>> => ClientTypes'
BY DEF ClientTypes, At

LEMMA ReaderSame == ReaderTypes /\ UNCHANGED reader => ReaderTypes'
BY DEF ReaderTypes

LEMMA PipeSame == PipeTypes /\ UNCHANGED <<up, down, broken>> => PipeTypes'
BY DEF PipeTypes

LEMMA ServerSame == ServerTypes /\ UNCHANGED <<conn, member, ran>> => ServerTypes'
BY DEF ServerTypes

LEMMA OthersSame == EventTypes /\ SenderTypes /\ UNCHANGED <<events, sender, happened, missed>>
                      => EventTypes' /\ SenderTypes'
BY DEF EventTypes, SenderTypes

\* Every step keeps the types.
LEMMA TypesStep == Types /\ [Next]_vars => Types'
<1> SUFFICES ASSUME Types, [Next]_vars PROVE Types'
  OBVIOUS
<1> USE DEF clientVars, pipeVars, serverVars
<1>s. ClientTypes /\ ReaderTypes /\ EventTypes /\ PipeTypes /\ ServerTypes /\ SenderTypes
  BY DEF Types
<1>c. \A p \in Callers : caller[p] \in CallerRec
  BY <1>s DEF ClientTypes
<1>n. \A p \in Callers : ~At(p, "idle") => caller[p].n \in Call /\ caller[p].id = caller[p].n
  BY <1>s DEF ClientTypes
<1>r. ASSUME NEW p \in Callers, NEW a \in Answer, Return(p, a), caller[p].n \in Call
      PROVE  /\ caller' \in [Callers -> CallerRec] /\ res' \in [Call -> Answer \cup {"none"}]
             /\ \A q \in Callers : ~At(q, "idle")' => caller'[q].n \in Call /\ caller'[q].id = caller'[q].n
  <2>1. caller' = [caller EXCEPT ![p] = NoCall] /\ res' = [res EXCEPT ![caller[p].n] = a]
    BY <1>r DEF Return
  <2> QED BY <2>1, <1>s, <1>r, NoCallType, CallerMoves DEF ClientTypes
<1>1. ASSUME NEW p \in Callers, CallNumber(p) PROVE Types'
  <2> DEFINE r == [at |-> "add", id |-> nextID + 1, n |-> calls + 1]
  <2>1. calls + 1 \in Call /\ calls' \in 0..MaxCalls /\ nextID' = calls' /\ nextID = calls
    BY <1>1, <1>s, BoundAssumption DEF CallNumber, ClientTypes, Call
  <2>2. r \in CallerRec /\ r.n \in Call /\ r.id = r.n
    BY <2>1 DEF CallerRec
  <2>3. caller' = [caller EXCEPT ![p] = r]
    BY <1>1 DEF CallNumber
  <2> HIDE DEF r
  <2>4. ClientTypes'
    BY <1>1, <1>s, <2>1, <2>2, <2>3, CallerMoves DEF CallNumber, ClientTypes
  <2> QED BY <1>1, <1>s, <2>4, ReaderSame, PipeSame, ServerSame, OthersSame DEF CallNumber, Types
<1>2. ASSUME NEW p \in Callers, CallAdd(p) PROVE Types'
  <2>1. caller[p].n \in Call /\ caller[p].id = caller[p].n
    BY <1>2, <1>n DEF CallAdd, At
  <2>2. ClientTypes'
    <3>1. CASE closed
      <4>1. Return(p, "lost") /\ UNCHANGED <<nextID, calls, pending, closed, chan>>
        BY <1>2, <3>1 DEF CallAdd
      <4> QED BY <4>1, <1>r, <1>s, <2>1 DEF ClientTypes, Answer
    <3>2. CASE ~closed
      <4> DEFINE r == [caller[p] EXCEPT !.at = "write"]
      <4>1. r \in CallerRec /\ r.n \in Call /\ r.id = r.n
        BY <1>c, <2>1 DEF CallerRec
      <4>2. caller' = [caller EXCEPT ![p] = r] /\ pending' = [pending EXCEPT ![caller[p].id] = caller[p].n]
            /\ UNCHANGED <<nextID, calls, closed, chan, res>>
        BY <1>2, <3>2 DEF CallAdd
      <4> HIDE DEF r
      <4> QED BY <4>1, <4>2, <1>s, <2>1, CallerMoves DEF ClientTypes
    <3> QED BY <3>1, <3>2
  <2> QED BY <1>2, <1>s, <2>2, ReaderSame, PipeSame, ServerSame, OthersSame DEF CallAdd, Types
<1>3. ASSUME NEW p \in Callers, CallWrite(p) PROVE Types'
  <2>1. caller[p].n \in Call /\ caller[p].id = caller[p].n
    BY <1>3, <1>n DEF CallWrite, At
  <2>2. CASE broken
    <3>1. Return(p, "lost") /\ UNCHANGED <<nextID, calls, pending, closed, chan, up, down>>
      BY <1>3, <2>2 DEF CallWrite
    <3>2. ClientTypes'
      BY <3>1, <1>r, <1>s, <2>1 DEF ClientTypes, Answer
    <3> QED BY <1>3, <1>s, <3>1, <3>2, ReaderSame, PipeSame, ServerSame, OthersSame DEF CallWrite, Types
  <2>3. CASE ~broken
    <3> DEFINE q == [id |-> caller[p].id, n |-> caller[p].n]
               r == [caller[p] EXCEPT !.at = "wait"]
    <3>1. up' = Append(up, q) /\ Len(up) < PipeCap /\ caller' = [caller EXCEPT ![p] = r]
          /\ UNCHANGED <<nextID, calls, pending, closed, chan, res, down, broken>>
      BY <1>3, <2>3 DEF CallWrite
    <3>2. q \in Request /\ q.id = q.n /\ r \in CallerRec /\ r.n \in Call /\ r.id = r.n
      BY <2>1, <1>c DEF Request, CallerRec
    <3> HIDE DEF q, r
    <3>3. ClientTypes'
      BY <3>1, <3>2, <1>s, CallerMoves DEF ClientTypes
    <3>4. PipeTypes'
      BY <3>1, <3>2, <1>s, AppendOf, BoundAssumption DEF PipeTypes
    <3> QED BY <1>3, <1>s, <3>3, <3>4, ReaderSame, ServerSame, OthersSame DEF CallWrite, Types
  <2> QED BY <2>2, <2>3
<1>4. ASSUME NEW p \in Callers, CallTake(p) PROVE Types'
  <2>1. caller[p].n \in Call
    BY <1>4, <1>n DEF CallTake, At
  <2>2. Head(chan[caller[p].n]) \in Answer
    BY <1>4, <1>s, <2>1 DEF CallTake, ClientTypes, Reply
  <2>3. ClientTypes'
    BY <1>4, <1>r, <1>s, <2>1, <2>2 DEF CallTake, ClientTypes, Reply
  <2> QED BY <1>4, <1>s, <2>3, ReaderSame, PipeSame, ServerSame, OthersSame DEF CallTake, Types
<1>5. ASSUME NEW p \in Callers, CallTimeout(p) PROVE Types'
  <2> DEFINE r == [caller[p] EXCEPT !.at = "forget"]
  <2>1. r \in CallerRec /\ r.n \in Call /\ r.id = r.n
    BY <1>5, <1>c, <1>n DEF CallTimeout, At, CallerRec
  <2>2. caller' = [caller EXCEPT ![p] = r]
    BY <1>5 DEF CallTimeout
  <2> HIDE DEF r
  <2>3. ClientTypes'
    BY <1>5, <1>s, <2>1, <2>2, CallerMoves DEF CallTimeout, ClientTypes
  <2> QED BY <1>5, <1>s, <2>3, ReaderSame, PipeSame, ServerSame, OthersSame DEF CallTimeout, Types
<1>6. ASSUME NEW p \in Callers, CallForget(p) PROVE Types'
  <2>1. caller[p].n \in Call /\ Return(p, "lost") /\ "lost" \in Answer
    BY <1>6, <1>n DEF CallForget, At, Answer
  <2>2. ClientTypes'
    BY <1>6, <1>r, <1>s, <2>1 DEF CallForget, ClientTypes
  <2> QED BY <1>6, <1>s, <2>2, ReaderSame, PipeSame, ServerSame, OthersSame DEF CallForget, Types
<1>7. ASSUME down # <<>>, down' = Tail(down), UNCHANGED <<up, broken>> PROVE PipeTypes'
  BY <1>7, <1>s, TailOf, LenProperties, BoundAssumption DEF PipeTypes
<1>8. CASE ReadEvent
  <2>1. Head(down).num \in 1..MaxEvents
    BY <1>8, <1>s, TailOf DEF ReadEvent, PipeTypes, Frame
  <2>2. EventTypes'
    <3>1. CASE Len(events) < EventCap
      BY <1>8, <1>s, <2>1, <3>1, AppendOf, BoundAssumption DEF ReadEvent, EventTypes
    <3>2. CASE ~(Len(events) < EventCap)
      BY <1>8, <1>s, <3>2 DEF ReadEvent, EventTypes
    <3> QED BY <3>1, <3>2
  <2>3. SenderTypes'
    BY <1>8, <1>s DEF ReadEvent, SenderTypes
  <2> QED BY <1>7, <1>8, <1>s, <2>2, <2>3, ClientSame, ReaderSame, ServerSame DEF ReadEvent, Types
<1>9. CASE ReadResponse
  <2>1. Head(down) \in Frame /\ Head(down).id \in Call /\ Head(down).ans \in Verdict
    BY <1>9, <1>s, TailOf DEF ReadResponse, PipeTypes, Frame
  <2>2. ClientTypes'
    BY <1>9, <1>s, <2>1 DEF ReadResponse, ClientTypes, At
  <2>3. ReaderTypes'
    <3>1. CASE pending[Head(down).id] = Nil
      BY <1>9, <1>s, <3>1, ReaderSame DEF ReadResponse
    <3>2. CASE pending[Head(down).id] # Nil
      <4>1. reader' = [reader EXCEPT !.at = "put", !.n = pending[Head(down).id], !.ans = Head(down).ans]
        BY <1>9, <3>2 DEF ReadResponse
      <4>2. pending[Head(down).id] \in Call
        BY <1>s, <2>1, <3>2 DEF ClientTypes
      <4> QED BY <4>1, <4>2, <1>s, <2>1 DEF ReaderTypes, ReaderRec, Answer
    <3> QED BY <3>1, <3>2
  <2> QED BY <1>7, <1>9, <1>s, <2>2, <2>3, ServerSame, OthersSame DEF ReadResponse, Types
<1>10. CASE PutAnswer
  <2>1. ClientTypes'
    <3>1. reader.n \in Call /\ <<reader.ans>> \in Reply
      BY <1>10, <1>s DEF PutAnswer, ReaderTypes, Reply, Answer
    <3> QED BY <1>10, <1>s, <3>1 DEF PutAnswer, ClientTypes, At
  <2>2. ReaderTypes'
    BY <1>10, <1>s DEF PutAnswer, ReaderTypes, ReaderRec, Answer
  <2> QED BY <1>10, <1>s, <2>1, <2>2, PipeSame, ServerSame, OthersSame DEF PutAnswer, Types
<1>11. CASE ReadFails
  <2>1. {pending[i] : i \in Call} \ {Nil} \subseteq Call
    BY <1>s DEF ClientTypes
  <2>2. ReaderTypes'
    BY <1>11, <1>s, <2>1 DEF ReadFails, ReaderTypes, ReaderRec
  <2>3. ClientTypes'
    BY <1>11, <1>s DEF ReadFails, ClientTypes, At
  <2> QED BY <1>11, <1>s, <2>2, <2>3, PipeSame, ServerSame, OthersSame DEF ReadFails, Types
<1>12. CASE Wake
  <2>1. ClientTypes' /\ ReaderTypes'
    <3>1. CASE reader.todo = {} /\ reader' = [reader EXCEPT !.at = "done"] /\ UNCHANGED chan
      <4>1. ReaderTypes'
        BY <1>s, <3>1 DEF ReaderTypes, ReaderRec
      <4> QED BY <1>12, <1>s, <3>1, <4>1, ClientSame DEF Wake
    <3>2. ASSUME NEW n \in reader.todo, chan' = [chan EXCEPT ![n] = <<"lost">>],
                 reader' = [reader EXCEPT !.todo = @ \ {n}]
          PROVE  ClientTypes' /\ ReaderTypes'
      <4>1. n \in Call /\ <<"lost">> \in Reply
        BY <1>s DEF ReaderTypes, ReaderRec, Reply, Answer
      <4>2. ReaderTypes'
        BY <1>s, <1>12, <3>2 DEF Wake, ReaderTypes, ReaderRec
      <4>3. ClientTypes'
        BY <1>12, <1>s, <3>2, <4>1 DEF Wake, ClientTypes, At
      <4> QED BY <4>2, <4>3
    <3> QED BY <1>12, <3>1, <3>2 DEF Wake
  <2> QED BY <1>12, <1>s, <2>1, PipeSame, ServerSame, OthersSame DEF Wake, Types
<1>13. CASE TakeEvent
  <2>1. EventTypes' /\ SenderTypes'
    BY <1>13, <1>s, TailOf, LenProperties, BoundAssumption DEF TakeEvent, EventTypes, SenderTypes
  <2> QED BY <1>13, <1>s, <2>1, ClientSame, ReaderSame, PipeSame, ServerSame DEF TakeEvent, Types
<1>14. CASE Break
  <2>1. PICK u \in 0..Len(up), d \in 0..Len(down) : up' = SubSeq(up, 1, u) /\ down' = SubSeq(down, 1, d)
    BY <1>14 DEF Break
  <2>2. PipeTypes'
    BY <1>14, <1>s, <2>1, PrefixOf, LenProperties, BoundAssumption DEF Break, PipeTypes
  <2> QED BY <1>14, <1>s, <2>2, ClientSame, ReaderSame, ServerSame, OthersSame DEF Break, Types
<1>15. ASSUME NEW l \in {"read", "leave", "done"}, conn' = [conn EXCEPT !.at = l], member' \in BOOLEAN,
              UNCHANGED ran
       PROVE  ServerTypes'
  BY <1>15, <1>s DEF ServerTypes, ConnRec
<1>16. CASE Accept \/ ReadEnds \/ Leave
  <2>1. ServerTypes'
    BY <1>15, <1>16, <1>s DEF Accept, ReadEnds, Leave, ServerTypes
  <2> QED BY <1>16, <1>s, <2>1, ClientSame, ReaderSame, PipeSame, OthersSame DEF Accept, ReadEnds, Leave, Types
<1>17. CASE ReadRequest
  <2>1. Head(up) \in Request /\ Head(up).id = Head(up).n
    BY <1>17, <1>s, TailOf DEF ReadRequest, PipeTypes
  <2>2. ServerTypes'
    BY <1>17, <1>s, <2>1 DEF ReadRequest, ServerTypes, ConnRec, Request
  <2>3. PipeTypes'
    BY <1>17, <1>s, TailOf, LenProperties, BoundAssumption DEF ReadRequest, PipeTypes
  <2> QED BY <1>17, <1>s, <2>2, <2>3, ClientSame, ReaderSame, OthersSame DEF ReadRequest, Types
<1>18. CASE Dispatch
  <2>1. PICK v \in Verdict : ran' = [ran EXCEPT ![conn.n] = Append(@, v)]
                             /\ conn' = [conn EXCEPT !.at = "send", !.ans = v]
    BY <1>18 DEF Dispatch
  <2>2. conn.n \in Call /\ conn.id = conn.n
    BY <1>18, <1>s DEF Dispatch, ServerTypes
  <2>3. ran' \in [Call -> Seq(Verdict)]
    BY <1>s, <2>1, AppendOf DEF ServerTypes
  <2>4. conn' \in ConnRec /\ conn'.n \in Call /\ conn'.id = conn'.n
    BY <1>s, <2>1, <2>2 DEF ServerTypes, ConnRec
  <2>5. ServerTypes'
    BY <1>18, <1>s, <2>3, <2>4 DEF Dispatch, ServerTypes
  <2> QED BY <1>18, <1>s, <2>5, ClientSame, ReaderSame, PipeSame, OthersSame DEF Dispatch, Types
<1>19. CASE SendResponse
  <2>0. NoRequest \in ConnRec /\ [NoRequest EXCEPT !.at = "leave"] \in ConnRec
        /\ NoRequest.at = "read" /\ [NoRequest EXCEPT !.at = "leave"].at = "leave"
    BY DEF NoRequest, ConnRec, Verdict
  <2>1. ServerTypes'
    BY <1>19, <1>s, <2>0 DEF SendResponse, ServerTypes
  <2>2. PipeTypes'
    <3>1. CASE broken
      BY <1>19, <1>s, <3>1, PipeSame DEF SendResponse
    <3>2. CASE ~broken
      <4> DEFINE f == [kind |-> "response", id |-> conn.id, n |-> conn.n, ans |-> conn.ans]
      <4>1. down' = Append(down, f) /\ Len(down) < PipeCap /\ UNCHANGED <<up, broken>>
        BY <1>19, <3>2 DEF SendResponse
      <4>2. f \in Frame /\ f.id = f.n
        BY <1>19, <1>s DEF SendResponse, ServerTypes, ConnRec, Frame
      <4> HIDE DEF f
      <4> QED BY <4>1, <4>2, <1>s, AppendOf, BoundAssumption DEF PipeTypes
    <3> QED BY <3>1, <3>2
  <2> QED BY <1>19, <1>s, <2>1, <2>2, ClientSame, ReaderSame, OthersSame DEF SendResponse, Types
<1>20. CASE Broadcast
  <2>1. SenderTypes' /\ EventTypes'
    BY <1>20, <1>s, BoundAssumption DEF Broadcast, SenderTypes, EventTypes
  <2> QED BY <1>20, <1>s, <2>1, ClientSame, ReaderSame, PipeSame, ServerSame DEF Broadcast, Types
<1>21. CASE SendEvent
  <2>1. SenderTypes' /\ EventTypes'
    BY <1>21, <1>s, BoundAssumption DEF SendEvent, SenderTypes, EventTypes
  <2>2. PipeTypes'
    <3>1. CASE broken
      BY <1>21, <1>s, <3>1, PipeSame DEF SendEvent
    <3>2. CASE ~broken
      <4> DEFINE f == [kind |-> "event", num |-> sender.num]
      <4>1. down' = Append(down, f) /\ Len(down) < PipeCap /\ UNCHANGED <<up, broken>>
        BY <1>21, <3>2 DEF SendEvent
      <4>2. f \in Frame /\ f.kind # "response"
        BY <1>21, <1>s DEF SendEvent, SenderTypes, Frame
      <4> HIDE DEF f
      <4> QED BY <4>1, <4>2, <1>s, AppendOf, BoundAssumption DEF PipeTypes
    <3> QED BY <3>1, <3>2
  <2> QED BY <1>21, <1>s, <2>1, <2>2, ClientSame, ReaderSame, ServerSame DEF SendEvent, Types
<1>22. CASE UNCHANGED vars
  BY <1>22, <1>s, ClientSame, ReaderSame, PipeSame, ServerSame, OthersSame DEF vars, Types
<1> QED
  BY <1>1, <1>2, <1>3, <1>4, <1>5, <1>6, <1>8, <1>9, <1>10, <1>11, <1>12, <1>13, <1>14, <1>16,
     <1>17, <1>18, <1>19, <1>20, <1>21, <1>22 DEF Next, CallStep, ReaderStep, ConnStep
-----------------------------------------------------------------------------
\* A call that no goroutine has begun, and one whose request is not written.
Unborn(n) == n > calls
Unsent(n) == Unborn(n) \/ \E p \in Callers : caller[p].at \in {"add", "write"} /\ caller[p].n = n
Unknown(n) == Unborn(n) \/ \E p \in Callers : At(p, "add") /\ caller[p].n = n

\* A call has one caller, who has not returned yet.
Calling ==
  /\ \A p \in Callers : At(p, "idle") => caller[p].n = Nil
  /\ \A p \in Callers : ~At(p, "idle") =>
       /\ caller[p].n <= calls /\ res[caller[p].n] = "none"
       /\ \A q \in Callers : caller[q].n = caller[p].n => q = p
  /\ \A n \in Call : Unborn(n) => res[n] = "none"

\* A request is in one place, and not any more once it has been carried out.
Requests ==
  /\ \A i \in 1..Len(up) : \A j \in 1..Len(up) : up[i].n = up[j].n => i = j
  /\ \A i \in 1..Len(up) : ran[up[i].n] = <<>> /\ (conn.at = "run" => conn.n # up[i].n)
  /\ conn.at = "run" => ran[conn.n] = <<>>
  /\ \A n \in Call : Unsent(n) =>
       /\ ran[n] = <<>>
       /\ conn.at = "run" => conn.n # n
       /\ \A i \in 1..Len(up) : up[i].n # n

\* Every answer on its way is the verdict on its own call.
Answers ==
  /\ conn.at = "send" => ran[conn.n] = <<conn.ans>>
  /\ \A i \in 1..Len(down) : down[i].kind = "response" => ran[down[i].n] = <<down[i].ans>>
  /\ reader.at = "put" => ran[reader.n] = <<reader.ans>>
  /\ \A n \in Call : chan[n] \in {<<>>, <<"lost">>, ran[n]}

\* Whoever has taken an entry out of pending is the only one to answer it.
Replies ==
  /\ reader.at = "put" => chan[reader.n] = <<>> /\ pending[reader.n] = Nil
  /\ reader.at # "wake" => reader.todo = {}
  /\ closed <=> reader.at \in {"wake", "done"}
  /\ closed => \A n \in Call : pending[n] = Nil
  /\ \A n \in reader.todo : chan[n] = <<>>
  /\ \A n \in Call : pending[n] # Nil => chan[n] = <<>>
  /\ \A n \in Call : Unknown(n) =>
       /\ pending[n] = Nil /\ chan[n] = <<>> /\ n \notin reader.todo
       /\ reader.at = "put" => reader.n # n

\* The connection is in Server.clients from before its first request to its end.
Served ==
  /\ conn.at = "accept" => \A n \in Call : ran[n] = <<>>
  /\ conn.at \notin {"accept", "done"} => member
  /\ ~missed

Inv == Types /\ Calling /\ Requests /\ Answers /\ Replies /\ Served

-----------------------------------------------------------------------------
\* A new connection satisfies the invariant: nothing is under way.
LEMMA InitInv == Init => Inv
<1> SUFFICES ASSUME Init PROVE Inv
  OBVIOUS
<1>1. Types
  BY TypesInit
<1>2. Len(up) = 0 /\ Len(down) = 0
  BY EmptySeq DEF Init
<1>3. conn.at = "accept"
  BY DEF Init, NoRequest
<1>4. \A p \in Callers : At(p, "idle") /\ caller[p].n = Nil
  BY DEF Init, NoCall, At
<1>5. Calling
  BY <1>4 DEF Init, Calling
<1>6. Requests /\ Answers
  BY <1>2, <1>3 DEF Init, Requests, Answers
<1>7. Replies
  BY DEF Init, Replies
<1>8. Served
  BY <1>3 DEF Init, Served
<1> QED
  BY <1>1, <1>5, <1>6, <1>7, <1>8 DEF Inv

\* A caller that moves leaves the calls of the others alone.
LEMMA CallingStep == Inv /\ [Next]_vars => Calling'
<1> SUFFICES ASSUME Inv, [Next]_vars PROVE Calling'
  OBVIOUS
<1> USE DEF clientVars, pipeVars, serverVars
<1>t. /\ caller \in [Callers -> CallerRec] /\ res \in [Call -> Answer \cup {"none"}]
      /\ \A p \in Callers : ~At(p, "idle") => caller[p].n \in Call
      /\ calls \in 0..MaxCalls /\ nextID = calls
  BY DEF Inv, Types, ClientTypes
<1>n. /\ \A n \in Call : n \in Nat /\ n # Nil
  BY DEF Call, Nil
<1>1. ASSUME NEW p \in Callers, CallNumber(p) PROVE Calling'
  <2>1. calls + 1 \in Call /\ calls' = calls + 1
    BY <1>1, <1>t, BoundAssumption DEF CallNumber, Call
  <2>2. res[calls + 1] = "none" /\ \A q \in Callers : caller[q].n # calls + 1
    BY <1>t, <1>n, <2>1 DEF Inv, Calling, Unborn, At
  <2> QED BY <1>1, <1>t, <1>n, <2>1, <2>2 DEF CallNumber, Inv, Calling, Unborn, At
<1>2. ASSUME NEW p \in Callers, NEW l \in {"write", "wait", "forget"}, ~At(p, "idle"),
             caller' = [caller EXCEPT ![p].at = l], UNCHANGED <<res, calls>>
      PROVE  Calling'
  BY <1>2, <1>t DEF Inv, Calling, Unborn, At
<1>3. ASSUME NEW p \in Callers, NEW a, Return(p, a), ~At(p, "idle"), UNCHANGED calls PROVE Calling'
  BY <1>3, <1>t, <1>n DEF Inv, Calling, Unborn, At, Return, NoCall
<1>4. ASSUME NEW p \in Callers, CallStep(p) \/ CallTimeout(p) PROVE Calling'
  BY <1>2, <1>3, <1>4 DEF CallStep, CallAdd, CallWrite, CallTake, CallForget, CallTimeout, At
<1>5. ASSUME UNCHANGED <<caller, res, calls>> PROVE Calling'
  BY <1>5 DEF Inv, Calling, Unborn, At
<1> QED
  BY <1>1, <1>4, <1>5 DEF Next, vars, ReaderStep, ConnStep, ReadEvent, ReadResponse, PutAnswer, ReadFails,
     Wake, TakeEvent, Break, Accept, ReadRequest, Dispatch, SendResponse, ReadEnds, Leave,
     Broadcast, SendEvent

\* A caller that moves makes no call unsent, or unknown to the reader, again.
LEMMA UnsentMoves ==
  ASSUME NEW p \in Callers, NEW r, caller \in [Callers -> CallerRec], caller' = [caller EXCEPT ![p] = r],
         calls \in Nat, calls' \in Nat, calls <= calls', NEW n \in Call,
         r.at \in {"add", "write"} /\ r.n = n => Unsent(n), Unsent(n)'
  PROVE  Unsent(n)
<1>1. CASE Unborn(n)'
  BY <1>1 DEF Unsent, Unborn, Call
<1>2. CASE ~Unborn(n)'
  <2>1. PICK q \in Callers : caller'[q].at \in {"add", "write"} /\ caller'[q].n = n
    BY <1>2 DEF Unsent
  <2>2. caller'[q] = IF q = p THEN r ELSE caller[q]
    OBVIOUS
  <2> QED BY <2>1, <2>2 DEF Unsent
<1> QED BY <1>1, <1>2

\* The same of the calls the reader cannot know.
LEMMA UnknownMoves ==
  ASSUME NEW p \in Callers, NEW r, caller \in [Callers -> CallerRec], caller' = [caller EXCEPT ![p] = r],
         calls \in Nat, calls' \in Nat, calls <= calls', NEW n \in Call,
         r.at = "add" /\ r.n = n => Unknown(n), Unknown(n)'
  PROVE  Unknown(n)
<1>1. CASE Unborn(n)'
  BY <1>1 DEF Unknown, Unborn, Call
<1>2. CASE ~Unborn(n)'
  <2>1. PICK q \in Callers : caller'[q].at = "add" /\ caller'[q].n = n
    BY <1>2 DEF Unknown, At
  <2>2. caller'[q] = IF q = p THEN r ELSE caller[q]
    OBVIOUS
  <2> QED BY <2>1, <2>2 DEF Unknown, At
<1> QED BY <1>1, <1>2

\* How a caller moves: it begins a call, stays with it, or returns.
LEMMA CallerSteps ==
  ASSUME Inv, NEW p \in Callers, CallNumber(p) \/ CallStep(p) \/ CallTimeout(p)
  PROVE  /\ calls \in Nat /\ calls' \in Nat /\ calls <= calls'
         /\ \E r : /\ caller' = [caller EXCEPT ![p] = r]
                   /\ \A n \in Call : r.at \in {"add", "write"} /\ r.n = n => Unsent(n)
                   /\ \A n \in Call : r.at = "add" /\ r.n = n => Unknown(n)
<1>t. caller \in [Callers -> CallerRec] /\ calls \in 0..MaxCalls /\ MaxCalls \in Nat
  BY BoundAssumption DEF Inv, Types, ClientTypes
<1>1. CASE CallNumber(p)
  <2> DEFINE x == [at |-> "add", id |-> nextID + 1, n |-> calls + 1]
  <2>1. caller' = [caller EXCEPT ![p] = x] /\ calls' = calls + 1
    BY <1>1 DEF CallNumber
  <2>2. \A n \in Call : x.n = n => Unborn(n)
    BY <1>t DEF Unborn
  <2>3. calls \in Nat /\ calls' \in Nat /\ calls <= calls'
    BY <1>t, <2>1
  <2>4. /\ \A n \in Call : x.at \in {"add", "write"} /\ x.n = n => Unsent(n)
        /\ \A n \in Call : x.at = "add" /\ x.n = n => Unknown(n)
    BY <2>2 DEF Unsent, Unknown
  <2> HIDE DEF x
  <2>5. \E r : /\ caller' = [caller EXCEPT ![p] = r]
               /\ \A n \in Call : r.at \in {"add", "write"} /\ r.n = n => Unsent(n)
               /\ \A n \in Call : r.at = "add" /\ r.n = n => Unknown(n)
    <3> WITNESS x
    <3> QED BY <2>1, <2>4
  <2> QED BY <2>3, <2>5
<1>2. ASSUME caller' = [caller EXCEPT ![p] = NoCall] PROVE
        \E r : /\ caller' = [caller EXCEPT ![p] = r]
               /\ \A n \in Call : r.at \in {"add", "write"} /\ r.n = n => Unsent(n)
               /\ \A n \in Call : r.at = "add" /\ r.n = n => Unknown(n)
  BY <1>2, NoCallType
<1>3. ASSUME NEW l \in {"write", "wait", "forget"}, caller' = [caller EXCEPT ![p].at = l],
             l = "write" => At(p, "add") PROVE
        \E r : /\ caller' = [caller EXCEPT ![p] = r]
               /\ \A n \in Call : r.at \in {"add", "write"} /\ r.n = n => Unsent(n)
               /\ \A n \in Call : r.at = "add" /\ r.n = n => Unknown(n)
  <2> DEFINE x == [caller[p] EXCEPT !.at = l]
  <2>1. caller' = [caller EXCEPT ![p] = x] /\ x.at = l /\ x.n = caller[p].n
    BY <1>3, <1>t DEF CallerRec
  <2> HIDE DEF x
  <2>2. ASSUME NEW n \in Call, x.at \in {"add", "write"}, x.n = n PROVE Unsent(n)
    BY <1>3, <2>1, <2>2 DEF Unsent, At
  <2>3. x.at # "add"
    BY <2>1
  <2> WITNESS x
  <2> QED BY <2>1, <2>2, <2>3
<1>4. CASE CallStep(p) \/ CallTimeout(p)
  <2>1. UNCHANGED calls
    BY <1>4 DEF CallStep, CallAdd, CallWrite, CallTake, CallForget, CallTimeout
  <2>2. \/ caller' = [caller EXCEPT ![p] = NoCall]
        \/ \E l \in {"write", "wait", "forget"} : caller' = [caller EXCEPT ![p].at = l] /\ (l = "write" => At(p, "add"))
    BY <1>4 DEF CallStep, CallAdd, CallWrite, CallTake, CallForget, CallTimeout, Return
  <2> QED BY <1>t, <1>2, <1>3, <2>1, <2>2
<1> QED BY <1>1, <1>4

\* No step makes a call unsent, or unknown to the reader, again.
LEMMA CallsAge == Inv /\ [Next]_vars => \A n \in Call : (Unsent(n)' => Unsent(n)) /\ (Unknown(n)' => Unknown(n))
<1> SUFFICES ASSUME Inv, [Next]_vars, NEW n \in Call PROVE (Unsent(n)' => Unsent(n)) /\ (Unknown(n)' => Unknown(n))
  OBVIOUS
<1>t. caller \in [Callers -> CallerRec]
  BY DEF Inv, Types, ClientTypes
<1>1. ASSUME NEW p \in Callers, CallNumber(p) \/ CallStep(p) \/ CallTimeout(p)
      PROVE  (Unsent(n)' => Unsent(n)) /\ (Unknown(n)' => Unknown(n))
  BY <1>1, <1>t, CallerSteps, UnsentMoves, UnknownMoves
<1>2. ASSUME UNCHANGED <<caller, calls>> PROVE (Unsent(n)' => Unsent(n)) /\ (Unknown(n)' => Unknown(n))
  BY <1>2 DEF Unsent, Unknown, Unborn, At
<1> QED
  BY <1>1, <1>2 DEF Next, vars, clientVars, pipeVars, serverVars, ReaderStep, ConnStep, ReadEvent,
     ReadResponse, PutAnswer, ReadFails, Wake, TakeEvent, Break, Accept, ReadRequest, Dispatch,
     SendResponse, ReadEnds, Leave, Broadcast, SendEvent

\* A request moves from its caller through the pipe to the server, once.
LEMMA RequestsStep == Inv /\ [Next]_vars => Requests'
<1> SUFFICES ASSUME Inv, [Next]_vars PROVE Requests'
  OBVIOUS
<1> USE DEF clientVars, pipeVars, serverVars
<1>t. /\ caller \in [Callers -> CallerRec] /\ calls \in 0..MaxCalls
      /\ \A p \in Callers : ~At(p, "idle") => caller[p].n \in Call /\ caller[p].n <= calls
      /\ up \in Seq(Request) /\ conn \in ConnRec
      /\ conn.at \in {"run", "send"} => conn.n \in Call
      /\ ran \in [Call -> Seq(Verdict)]
  BY DEF Inv, Types, ClientTypes, PipeTypes, ServerTypes, Calling
<1>l. Len(up) \in Nat /\ \A i \in 1..Len(up) : up[i] \in Request
  BY <1>t, LenProperties
<1>u. \A i \in 1..Len(up) : up[i].n \in Call
  BY <1>l DEF Request
<1>r. Requests
  BY DEF Inv
<1>a. \A n \in Call : Unsent(n)' => Unsent(n)
  BY CallsAge
\* The steps that take nothing further on the request's way.
<1>k. ASSUME UNCHANGED ran, \A i \in 1..Len(up') : i \in 1..Len(up) /\ up'[i] = up[i],
             conn'.at = "run" => conn' = conn
      PROVE  Requests'
  <2>1. (\A i \in 1..Len(up) : \A j \in 1..Len(up) : up[i].n = up[j].n => i = j)'
    BY <1>k, <1>r DEF Requests
  <2>2. (\A i \in 1..Len(up) : ran[up[i].n] = <<>> /\ (conn.at = "run" => conn.n # up[i].n))'
    BY <1>k, <1>r DEF Requests
  <2>3. (conn.at = "run" => ran[conn.n] = <<>>)'
    BY <1>k, <1>r DEF Requests
  <2>4. ASSUME NEW n \in Call, Unsent(n)'
        PROVE  (ran[n] = <<>> /\ (conn.at = "run" => conn.n # n) /\ \A i \in 1..Len(up) : up[i].n # n)'
    BY <2>4, <1>k, <1>a, <1>r DEF Requests
  <2> QED BY <2>1, <2>2, <2>3, <2>4 DEF Requests
<1>1. ASSUME UNCHANGED <<up, conn, ran>> PROVE Requests'
  BY <1>1, <1>k
<1>2. ASSUME NEW p \in Callers, CallWrite(p), ~broken PROVE Requests'
  <2> DEFINE q == [id |-> caller[p].id, n |-> caller[p].n]
  <2>1. up' = Append(up, q) /\ caller' = [caller EXCEPT ![p].at = "wait"] /\ UNCHANGED <<conn, ran, calls>>
    BY <1>2 DEF CallWrite
  <2>2. ~At(p, "idle") /\ At(p, "write") /\ caller[p].n \in Call /\ caller[p].id \in Call
    BY <1>2, <1>t DEF CallWrite, Inv, Types, ClientTypes, At
  <2>3. q \in Request /\ q.n = caller[p].n /\ q.n \in Call
    BY <2>2 DEF Request
  <2> HIDE DEF q
  <2>4. Unsent(q.n)
    BY <2>2, <2>3 DEF Unsent, At
  <2>5. ASSUME NEW n \in Call, n = q.n PROVE ~Unsent(n)'
    <3>1. ~(n > calls')
      BY <2>1, <2>2, <2>3, <2>5, <1>t, BoundAssumption DEF Call
    <3>2. ASSUME NEW c \in Callers, caller'[c].n = n PROVE caller'[c].at \notin {"add", "write"}
      <4>1. caller'[c].n = caller[c].n /\ (c = p => caller'[c].at = "wait")
        BY <2>1, <1>t DEF CallerRec
      <4>2. c = p
        BY <4>1, <2>5, <3>2, <2>2, <2>3 DEF Inv, Calling
      <4> QED BY <4>1, <4>2
    <3> QED BY <3>1, <3>2 DEF Unsent, Unborn
  <2>6. \A i \in 1..Len(up') : (i \in 1..Len(up) /\ up'[i] = up[i]) \/ (i = Len(up) + 1 /\ up'[i] = q)
    BY <2>1, <2>3, <1>t, <1>l, AppendProperties
  <2>7. ran[q.n] = <<>> /\ (conn.at = "run" => conn.n # q.n) /\ \A i \in 1..Len(up) : up[i].n # q.n
    BY <2>3, <2>4, <1>r DEF Requests
  <2>8. (\A i \in 1..Len(up) : \A j \in 1..Len(up) : up[i].n = up[j].n => i = j)'
    BY <2>6, <2>7, <1>r DEF Requests
  <2>9. (\A i \in 1..Len(up) : ran[up[i].n] = <<>> /\ (conn.at = "run" => conn.n # up[i].n))'
    BY <2>1, <2>6, <2>7, <1>r DEF Requests
  <2>10. (conn.at = "run" => ran[conn.n] = <<>>)'
    BY <2>1, <1>r DEF Requests
  <2>11. ASSUME NEW n \in Call, Unsent(n)'
         PROVE  (ran[n] = <<>> /\ (conn.at = "run" => conn.n # n) /\ \A i \in 1..Len(up) : up[i].n # n)'
    BY <2>1, <2>5, <2>6, <2>11, <1>a, <1>r DEF Requests
  <2> QED BY <2>8, <2>9, <2>10, <2>11 DEF Requests
<1>3. ASSUME NEW p \in Callers, CallNumber(p) \/ CallStep(p) \/ CallTimeout(p) PROVE Requests'
  BY <1>1, <1>2, <1>3 DEF CallNumber, CallStep, CallAdd, CallWrite, CallTake, CallForget, CallTimeout
<1>4. CASE Break
  <2>1. PICK u \in 0..Len(up) : up' = SubSeq(up, 1, u)
    BY <1>4 DEF Break
  <2>2. \A i \in 1..Len(up') : i \in 1..Len(up) /\ up'[i] = up[i]
    BY <2>1, <1>t, PrefixOf
  <2> QED BY <2>2, <1>4, <1>k DEF Break
<1>5. CASE ReadRequest
  <2>1. /\ Head(up) = up[1] /\ 1 \in 1..Len(up) /\ Len(up') \in Nat
        /\ \A i \in 1..Len(up') : i + 1 \in 1..Len(up) /\ up'[i] = up[i + 1]
    BY <1>5, <1>t, TailOf, LenProperties DEF ReadRequest
  <2>2. conn'.n = up[1].n /\ conn'.at = "run" /\ UNCHANGED ran
    BY <1>5, <1>t, <2>1 DEF ReadRequest, ConnRec
  <2>3. \A i \in 1..Len(up') : up'[i].n # up[1].n
    <3>1. ASSUME NEW i \in 1..Len(up') PROVE i + 1 # 1
      BY <2>1
    <3> QED BY <2>1, <3>1, <1>r DEF Requests
  <2>4. (\A i \in 1..Len(up) : \A j \in 1..Len(up) : up[i].n = up[j].n => i = j)'
    <3> SUFFICES ASSUME NEW i \in 1..Len(up'), NEW j \in 1..Len(up'), up'[i].n = up'[j].n PROVE i = j
      OBVIOUS
    <3>1. i + 1 = j + 1
      BY <2>1, <1>r DEF Requests
    <3> QED BY <3>1, <2>1
  <2>5. (\A i \in 1..Len(up) : ran[up[i].n] = <<>> /\ (conn.at = "run" => conn.n # up[i].n))'
    BY <2>1, <2>2, <2>3, <1>r DEF Requests
  <2>6. (conn.at = "run" => ran[conn.n] = <<>>)'
    BY <2>1, <2>2, <1>r DEF Requests
  <2>7. ASSUME NEW n \in Call, Unsent(n)'
        PROVE  (ran[n] = <<>> /\ (conn.at = "run" => conn.n # n) /\ \A i \in 1..Len(up) : up[i].n # n)'
    BY <2>1, <2>2, <2>7, <1>a, <1>r DEF Requests
  <2> QED BY <2>4, <2>5, <2>6, <2>7 DEF Requests
<1>6. CASE Dispatch
  <2>1. PICK v \in Verdict : ran' = [ran EXCEPT ![conn.n] = Append(@, v)]
                             /\ conn' = [conn EXCEPT !.at = "send", !.ans = v]
    BY <1>6 DEF Dispatch
  <2>2. \A n \in Call : n # conn.n => ran'[n] = ran[n]
    BY <2>1, <1>t
  <2>3. conn'.at # "run" /\ UNCHANGED up /\ conn.at = "run"
    BY <2>1, <1>6, <1>t DEF Dispatch, ConnRec
  <2>4. \A i \in 1..Len(up) : ran'[up[i].n] = <<>>
    BY <2>2, <2>3, <1>r, <1>u DEF Requests
  <2>5. ASSUME NEW n \in Call, Unsent(n)' PROVE ran'[n] = <<>> /\ \A i \in 1..Len(up) : up[i].n # n
    BY <2>2, <2>3, <2>5, <1>a, <1>r DEF Requests
  <2> QED BY <2>3, <2>4, <2>5, <1>r DEF Requests
<1>7. CASE SendResponse
  BY <1>7, <1>k DEF SendResponse, NoRequest
<1>8. CASE Accept \/ ReadEnds \/ Leave
  BY <1>8, <1>k, <1>t DEF Accept, ReadEnds, Leave, ConnRec
<1> QED
  BY <1>1, <1>3, <1>4, <1>5, <1>6, <1>7, <1>8
     DEF Next, vars, ReaderStep, ConnStep, ReadEvent, ReadResponse, PutAnswer, ReadFails,
     Wake, TakeEvent, Broadcast, SendEvent

\* An answer is the verdict of the call it belongs to, wherever it is.
LEMMA AnswersStep == Inv /\ [Next]_vars => Answers'
<1> SUFFICES ASSUME Inv, [Next]_vars PROVE Answers'
  OBVIOUS
<1> USE DEF clientVars, pipeVars, serverVars
<1>t. /\ down \in Seq(Frame) /\ conn \in ConnRec /\ reader \in ReaderRec
      /\ conn.at \in {"run", "send"} => conn.n \in Call
      /\ reader.at = "put" => reader.n \in Call
      /\ chan \in [Call -> Reply] /\ ran \in [Call -> Seq(Verdict)]
      /\ pending \in [Call -> Call \cup {Nil}] /\ \A i \in Call : pending[i] \in {Nil, i}
      /\ \A i \in 1..Len(down) : down[i].kind = "response" => down[i].id = down[i].n
  BY DEF Inv, Types, ClientTypes, ReaderTypes, PipeTypes, ServerTypes
<1>d. \A i \in 1..Len(down) : down[i] \in Frame /\ (down[i].kind = "response" => down[i].n \in Call)
  BY <1>t, LenProperties DEF Frame
<1>a. Answers
  BY DEF Inv
\* The steps that put no answer further on its way.
<1>k. ASSUME UNCHANGED ran, conn'.at = "send" => conn' = conn,
             \A i \in 1..Len(down') : \E j \in 1..Len(down) : down'[i] = down[j],
             reader'.at = "put" => reader' = reader,
             \A n \in Call : chan'[n] \in {<<>>, <<"lost">>, chan[n]}
      PROVE  Answers'
  <2>1. (conn.at = "send" => ran[conn.n] = <<conn.ans>>)'
    BY <1>k, <1>a DEF Answers
  <2>2. (\A i \in 1..Len(down) : down[i].kind = "response" => ran[down[i].n] = <<down[i].ans>>)'
    BY <1>k, <1>a DEF Answers
  <2>3. (reader.at = "put" => ran[reader.n] = <<reader.ans>>)'
    BY <1>k, <1>a DEF Answers
  <2>4. (\A n \in Call : chan[n] \in {<<>>, <<"lost">>, ran[n]})'
    BY <1>k, <1>a DEF Answers
  <2> QED BY <2>1, <2>2, <2>3, <2>4 DEF Answers
<1>1. ASSUME UNCHANGED <<ran, conn, down, reader, chan>> PROVE Answers'
  BY <1>1, <1>k
<1>2. ASSUME NEW p \in Callers, CallNumber(p) \/ CallStep(p) \/ CallTimeout(p) PROVE Answers'
  <2>1. CASE CallTake(p)
    <3>1. \A n \in Call : chan'[n] \in {<<>>, chan[n]}
      BY <2>1, <1>t DEF CallTake
    <3> QED BY <2>1, <3>1, <1>k DEF CallTake
  <2> QED BY <1>1, <1>2, <2>1 DEF CallNumber, CallStep, CallAdd, CallWrite, CallForget, CallTimeout
<1>3. ASSUME down # <<>>, down' = Tail(down) PROVE \A i \in 1..Len(down') : \E j \in 1..Len(down) : down'[i] = down[j]
  BY <1>3, <1>t, TailOf
<1>4. CASE ReadEvent
  BY <1>3, <1>4, <1>k DEF ReadEvent
<1>5. CASE ReadResponse
  <2> DEFINE f == Head(down)
  <2>1. f \in Frame /\ f.kind = "response" /\ f = down[1] /\ 1 \in 1..Len(down)
    BY <1>5, <1>t, TailOf DEF ReadResponse
  <2>2. f.n \in Call /\ f.id = f.n /\ ran[f.n] = <<f.ans>>
    BY <2>1, <1>t, <1>d, <1>a DEF Answers
  <2> HIDE DEF f
  <2>3. CASE pending[f.id] = Nil
    BY <1>3, <1>5, <1>k, <2>3 DEF ReadResponse, f
  <2>4. CASE pending[f.id] # Nil
    <3>1. reader' = [reader EXCEPT !.at = "put", !.n = f.n, !.ans = f.ans]
      BY <1>5, <1>t, <2>2, <2>4 DEF ReadResponse, f
    <3>2. reader'.n = f.n /\ reader'.ans = f.ans
      BY <3>1, <1>t DEF ReaderRec
    <3>3. \A i \in 1..Len(down') : \E j \in 1..Len(down) : down'[i] = down[j]
      BY <1>3, <1>5 DEF ReadResponse
    <3>4. UNCHANGED <<ran, conn, chan>>
      BY <1>5 DEF ReadResponse
    <3>5. (\A i \in 1..Len(down) : down[i].kind = "response" => ran[down[i].n] = <<down[i].ans>>)'
      BY <3>3, <3>4, <1>a DEF Answers
    <3> QED BY <2>2, <3>2, <3>4, <3>5, <1>a DEF Answers
  <2> QED BY <2>3, <2>4
<1>6. CASE PutAnswer
  <2>1. /\ reader.at = "put" /\ chan' = [chan EXCEPT ![reader.n] = <<reader.ans>>]
        /\ UNCHANGED <<ran, conn, down>>
    BY <1>6 DEF PutAnswer
  <2>2. reader'.at = "read"
    BY <1>6, <1>t DEF PutAnswer, ReaderRec
  <2>3. \A n \in Call : chan'[n] = chan[n] \/ (n = reader.n /\ chan'[n] = <<reader.ans>>)
    BY <2>1, <1>t
  <2>4. (\A n \in Call : chan[n] \in {<<>>, <<"lost">>, ran[n]})'
    BY <2>1, <2>3, <1>a DEF Answers
  <2> QED BY <2>1, <2>2, <2>4, <1>a DEF Answers
<1>7. CASE ReadFails
  BY <1>7, <1>k, <1>t DEF ReadFails, ReaderRec
<1>8. CASE Wake
  <2>1. reader'.at # "put" /\ UNCHANGED <<ran, conn, down>>
    BY <1>8, <1>t DEF Wake, ReaderRec
  <2>2. \A n \in Call : chan'[n] \in {<<"lost">>, chan[n]}
    BY <1>8, <1>t DEF Wake
  <2> QED BY <2>1, <2>2, <1>k
<1>9. CASE Break
  <2>1. PICK d \in 0..Len(down) : down' = SubSeq(down, 1, d)
    BY <1>9 DEF Break
  <2>2. \A i \in 1..Len(down') : i \in 1..Len(down) /\ down'[i] = down[i]
    BY <2>1, <1>t, PrefixOf
  <2> QED BY <2>2, <1>9, <1>k DEF Break
<1>10. CASE Accept \/ ReadRequest \/ ReadEnds \/ Leave
  <2>1. conn'.at # "send" /\ UNCHANGED <<ran, down, reader, chan>>
    BY <1>10, <1>t DEF Accept, ReadRequest, ReadEnds, Leave, ConnRec
  <2> QED BY <2>1, <1>k
<1>11. CASE Dispatch
  <2>1. PICK v \in Verdict : ran' = [ran EXCEPT ![conn.n] = Append(@, v)]
                             /\ conn' = [conn EXCEPT !.at = "send", !.ans = v]
    BY <1>11 DEF Dispatch
  <2>2. conn.at = "run" /\ conn.n \in Call /\ ran[conn.n] = <<>>
    BY <1>11, <1>t DEF Dispatch, Inv, Requests
  <2>3. ran'[conn.n] = <<v>> /\ \A n \in Call : n # conn.n => ran'[n] = ran[n]
    BY <2>1, <2>2, <1>t
  <2>4. conn'.n = conn.n /\ conn'.ans = v /\ UNCHANGED <<down, reader, chan>>
    BY <2>1, <1>11, <1>t DEF Dispatch, ConnRec
  <2>5. ASSUME NEW n \in Call, NEW x, ran[n] = <<x>> PROVE ran'[n] = <<x>>
    <3>1. <<x>> # <<>>
      OBVIOUS
    <3> QED BY <2>2, <2>3, <2>5, <3>1
  <2>6. (\A i \in 1..Len(down) : down[i].kind = "response" => ran[down[i].n] = <<down[i].ans>>)'
    BY <2>4, <2>5, <1>a, <1>d DEF Answers
  <2>7. (reader.at = "put" => ran[reader.n] = <<reader.ans>>)'
    BY <2>4, <2>5, <1>a, <1>t DEF Answers
  <2>8. (\A n \in Call : chan[n] \in {<<>>, <<"lost">>, ran[n]})'
    BY <2>2, <2>3, <2>4, <1>a DEF Answers
  <2> QED BY <2>3, <2>4, <2>6, <2>7, <2>8 DEF Answers
<1>12. CASE SendResponse
  <2>1. conn'.at # "send" /\ UNCHANGED <<ran, reader, chan>>
    BY <1>12 DEF SendResponse, NoRequest
  <2>2. CASE broken
    BY <1>12, <2>1, <2>2, <1>k DEF SendResponse
  <2>3. CASE ~broken
    <3> DEFINE f == [kind |-> "response", id |-> conn.id, n |-> conn.n, ans |-> conn.ans]
    <3>1. down' = Append(down, f) /\ conn.at = "send"
      BY <1>12, <2>3 DEF SendResponse
    <3>2. f \in Frame /\ f.n = conn.n /\ f.ans = conn.ans
      BY <1>t, <3>1 DEF Inv, Types, ServerTypes, ConnRec, Frame
    <3> HIDE DEF f
    <3>3. \A i \in 1..Len(down') : (i \in 1..Len(down) /\ down'[i] = down[i]) \/ down'[i] = f
      BY <3>1, <3>2, <1>t, AppendOf
    <3>4. (\A i \in 1..Len(down) : down[i].kind = "response" => ran[down[i].n] = <<down[i].ans>>)'
      BY <2>1, <3>1, <3>2, <3>3, <1>a DEF Answers
    <3> QED BY <2>1, <3>4, <1>a DEF Answers
  <2> QED BY <2>2, <2>3
<1>13. CASE SendEvent
  <2>1. CASE broken
    BY <1>1, <1>13, <2>1 DEF SendEvent
  <2>2. CASE ~broken
    <3> DEFINE f == [kind |-> "event", num |-> sender.num]
    <3>1. down' = Append(down, f) /\ UNCHANGED <<ran, conn, reader, chan>>
      BY <1>13, <2>2 DEF SendEvent
    <3>2. f \in Frame /\ f.kind # "response"
      BY <1>13 DEF SendEvent, Inv, Types, SenderTypes, Frame
    <3> HIDE DEF f
    <3>3. \A i \in 1..Len(down') : (i \in 1..Len(down) /\ down'[i] = down[i]) \/ down'[i] = f
      BY <3>1, <3>2, <1>t, AppendOf
    <3>4. (\A i \in 1..Len(down) : down[i].kind = "response" => ran[down[i].n] = <<down[i].ans>>)'
      BY <3>1, <3>2, <3>3, <1>a DEF Answers
    <3> QED BY <3>1, <3>4, <1>a DEF Answers
  <2> QED BY <2>1, <2>2
<1> QED
  BY <1>1, <1>2, <1>4, <1>5, <1>6, <1>7, <1>8, <1>9, <1>10, <1>11, <1>12, <1>13
     DEF Next, vars, ReaderStep, ConnStep, TakeEvent, Broadcast

\* Every reply channel gets one answer at most, from whoever took the entry.
LEMMA RepliesStep == Inv /\ [Next]_vars => Replies'
<1> SUFFICES ASSUME Inv, [Next]_vars PROVE Replies'
  OBVIOUS
<1> USE DEF clientVars, pipeVars, serverVars
<1>t. /\ reader \in ReaderRec /\ caller \in [Callers -> CallerRec]
      /\ reader.at = "put" => reader.n \in Call
      /\ \A p \in Callers : ~At(p, "idle") => caller[p].n \in Call /\ caller[p].id = caller[p].n
      /\ chan \in [Call -> Reply] /\ calls \in 0..MaxCalls
      /\ pending \in [Call -> Call \cup {Nil}] /\ \A i \in Call : pending[i] \in {Nil, i}
  BY DEF Inv, Types, ClientTypes, ReaderTypes
<1>r. Replies
  BY DEF Inv
<1>a. \A n \in Call : Unknown(n)' => Unknown(n)
  BY CallsAge
\* The steps that only forget: entries of pending and answers that are there.
<1>k. ASSUME UNCHANGED <<reader, closed>>, \A n \in Call : pending'[n] \in {Nil, pending[n]},
             \A n \in Call : chan'[n] \in {<<>>, chan[n]}
      PROVE  Replies'
  <2>1. /\ (reader.at = "put" => chan[reader.n] = <<>> /\ pending[reader.n] = Nil)'
        /\ (\A n \in reader.todo : chan[n] = <<>>)'
    BY <1>k, <1>r, <1>t DEF Replies, ReaderRec
  <2>2. /\ (reader.at # "wake" => reader.todo = {})'
        /\ (closed <=> reader.at \in {"wake", "done"})'
        /\ (closed => \A n \in Call : pending[n] = Nil)'
    BY <1>k, <1>r DEF Replies
  <2>3. (\A n \in Call : pending[n] # Nil => chan[n] = <<>>)'
    BY <1>k, <1>r DEF Replies
  <2>4. ASSUME NEW n \in Call, Unknown(n)'
        PROVE  (pending[n] = Nil /\ chan[n] = <<>> /\ n \notin reader.todo /\ (reader.at = "put" => reader.n # n))'
    BY <2>4, <1>k, <1>a, <1>r DEF Replies
  <2> QED BY <2>1, <2>2, <2>3, <2>4 DEF Replies
<1>1. ASSUME UNCHANGED <<pending, closed, chan, reader>> PROVE Replies'
  BY <1>1, <1>k
<1>2. ASSUME NEW p \in Callers, CallAdd(p) PROVE Replies'
  <2>1. CASE closed
    BY <1>1, <1>2, <2>1 DEF CallAdd
  <2>2. CASE ~closed
    <3> DEFINE m == caller[p].n
    <3>1. /\ pending' = [pending EXCEPT ![m] = m] /\ caller' = [caller EXCEPT ![p].at = "write"]
          /\ m \in Call /\ At(p, "add") /\ UNCHANGED <<reader, chan, closed, calls>>
      BY <1>2, <1>t, <2>2 DEF CallAdd, At
    <3>2. Unknown(m)
      BY <3>1 DEF Unknown
    <3>3. ASSUME NEW n \in Call, n = m PROVE ~Unknown(n)'
      <4>1. ~(n > calls')
        BY <3>1, <3>3, <1>t, BoundAssumption DEF Inv, Calling, Call, At
      <4>2. ASSUME NEW c \in Callers, caller'[c].n = n PROVE caller'[c].at # "add"
        <5>1. caller'[c].n = caller[c].n /\ (c = p => caller'[c].at = "write")
          BY <3>1, <1>t DEF CallerRec
        <5>2. c = p
          BY <5>1, <3>1, <3>3, <4>2 DEF Inv, Calling, At
        <5> QED BY <5>1, <5>2
      <4> QED BY <4>1, <4>2 DEF Unknown, Unborn, At
    <3> HIDE DEF m
    <3>4. chan[m] = <<>> /\ m \notin reader.todo /\ (reader.at = "put" => reader.n # m)
      BY <3>1, <3>2, <1>r DEF Replies
    <3>5. \A n \in Call : n # m => pending'[n] = pending[n]
      BY <3>1, <1>t
    <3>6. (reader.at = "put" => chan[reader.n] = <<>> /\ pending[reader.n] = Nil)'
      BY <3>1, <3>4, <3>5, <1>r, <1>t DEF Replies
    <3>7. (\A n \in Call : pending[n] # Nil => chan[n] = <<>>)'
      BY <3>1, <3>4, <3>5, <1>r DEF Replies
    <3>8. ASSUME NEW n \in Call, Unknown(n)'
          PROVE  (pending[n] = Nil /\ chan[n] = <<>> /\ n \notin reader.todo /\ (reader.at = "put" => reader.n # n))'
      BY <3>1, <3>3, <3>5, <3>8, <1>a, <1>r DEF Replies
    <3> QED BY <2>2, <3>1, <3>6, <3>7, <3>8, <1>r DEF Replies
  <2> QED BY <2>1, <2>2
<1>3. ASSUME NEW p \in Callers, CallTake(p) PROVE Replies'
  <2>1. \A n \in Call : chan'[n] \in {<<>>, chan[n]}
    BY <1>3, <1>t DEF CallTake
  <2> QED BY <1>3, <1>k, <2>1 DEF CallTake
<1>4. ASSUME NEW p \in Callers, CallForget(p) PROVE Replies'
  <2>1. \A n \in Call : pending'[n] \in {Nil, pending[n]}
    BY <1>4, <1>t DEF CallForget
  <2> QED BY <1>4, <1>k, <2>1 DEF CallForget
<1>5. CASE ReadResponse
  <2> DEFINE f == Head(down)
  <2>1. f \in Frame /\ f.kind = "response"
    BY <1>5, TailOf DEF ReadResponse, Inv, Types, PipeTypes
  <2>2. f.id \in Call
    BY <2>1 DEF Frame
  <2>3. /\ reader.at = "read" /\ pending' = [pending EXCEPT ![f.id] = Nil] /\ UNCHANGED <<closed, chan>>
        /\ reader' = IF pending[f.id] = Nil THEN reader
                     ELSE [reader EXCEPT !.at = "put", !.n = pending[f.id], !.ans = f.ans]
    BY <1>5 DEF ReadResponse
  <2> HIDE DEF f
  <2>4. pending'[f.id] = Nil /\ \A n \in Call : n # f.id => pending'[n] = pending[n]
    BY <2>2, <2>3, <1>t
  <2>5. CASE pending[f.id] = Nil
    BY <2>3, <2>4, <2>5, <1>k
  <2>6. CASE pending[f.id] # Nil
    <3>1. pending[f.id] = f.id /\ chan[f.id] = <<>> /\ ~Unknown(f.id)
      BY <2>2, <2>6, <1>r, <1>t DEF Replies
    <3>2. reader'.at = "put" /\ reader'.n = f.id /\ reader'.todo = reader.todo
      BY <2>3, <2>6, <3>1, <1>t DEF ReaderRec
    <3>3. ~closed /\ reader.todo = {}
      BY <2>3, <1>r DEF Replies
    <3>4. (\A n \in Call : pending[n] # Nil => chan[n] = <<>>)'
      BY <2>3, <2>4, <1>r DEF Replies
    <3>5. ASSUME NEW n \in Call, Unknown(n)'
          PROVE  (pending[n] = Nil /\ chan[n] = <<>> /\ n \notin reader.todo /\ (reader.at = "put" => reader.n # n))'
      BY <2>3, <2>4, <3>1, <3>2, <3>3, <3>5, <1>a, <1>r DEF Replies
    <3> QED BY <2>3, <2>4, <3>1, <3>2, <3>3, <3>4, <3>5 DEF Replies
  <2> QED BY <2>5, <2>6
<1>6. CASE PutAnswer
  <2>1. /\ reader.at = "put" /\ reader.n \in Call /\ chan' = [chan EXCEPT ![reader.n] = <<reader.ans>>]
        /\ UNCHANGED <<pending, closed>>
    BY <1>6, <1>t DEF PutAnswer
  <2>2. reader'.at = "read" /\ reader'.todo = reader.todo
    BY <1>6, <1>t DEF PutAnswer, ReaderRec
  <2>3. pending[reader.n] = Nil /\ ~Unknown(reader.n) /\ ~closed /\ reader.todo = {}
    BY <2>1, <1>r DEF Replies
  <2>4. \A n \in Call : n # reader.n => chan'[n] = chan[n]
    BY <2>1, <1>t
  <2>5. (\A n \in Call : pending[n] # Nil => chan[n] = <<>>)'
    BY <2>1, <2>3, <2>4, <1>r DEF Replies
  <2>6. ASSUME NEW n \in Call, Unknown(n)'
        PROVE  (pending[n] = Nil /\ chan[n] = <<>> /\ n \notin reader.todo /\ (reader.at = "put" => reader.n # n))'
    BY <2>1, <2>2, <2>3, <2>4, <2>6, <1>a, <1>r DEF Replies
  <2> QED BY <2>1, <2>2, <2>3, <2>5, <2>6 DEF Replies
<1>7. CASE ReadFails
  <2>1. /\ closed' = TRUE /\ pending' = [i \in Call |-> Nil] /\ UNCHANGED chan
        /\ reader' = [reader EXCEPT !.at = "wake", !.todo = {pending[i] : i \in Call} \ {Nil}]
    BY <1>7 DEF ReadFails
  <2>2. reader'.at = "wake" /\ reader'.todo = {pending[i] : i \in Call} \ {Nil}
    BY <2>1, <1>t DEF ReaderRec
  <2>3. \A n \in reader'.todo : n \in Call /\ pending[n] # Nil
    BY <2>2, <1>t
  <2>4. (\A n \in reader.todo : chan[n] = <<>>)'
    BY <2>1, <2>3, <1>r DEF Replies
  <2>5. ASSUME NEW n \in Call, Unknown(n)'
        PROVE  (pending[n] = Nil /\ chan[n] = <<>> /\ n \notin reader.todo /\ (reader.at = "put" => reader.n # n))'
    BY <2>1, <2>2, <2>3, <2>5, <1>a, <1>r DEF Replies
  <2> QED BY <2>1, <2>2, <2>4, <2>5 DEF Replies
<1>8. CASE Wake
  <2>1. reader.at = "wake" /\ closed /\ (\A n \in Call : pending[n] = Nil) /\ UNCHANGED <<pending, closed>>
    BY <1>8, <1>r DEF Wake, Replies
  <2>2. ASSUME NEW m \in reader.todo, chan' = [chan EXCEPT ![m] = <<"lost">>],
               reader' = [reader EXCEPT !.todo = @ \ {m}]
        PROVE  Replies'
    <3>1. m \in Call /\ ~Unknown(m)
      BY <1>r, <1>t DEF Replies, ReaderRec
    <3>2. reader'.at = "wake" /\ reader'.todo = reader.todo \ {m}
      BY <2>1, <2>2, <1>t DEF ReaderRec
    <3>3. \A n \in Call : n # m => chan'[n] = chan[n]
      BY <2>2, <1>t
    <3>4. (\A n \in reader.todo : chan[n] = <<>>)'
      BY <3>2, <3>3, <1>r, <1>t DEF Replies, ReaderRec
    <3>5. ASSUME NEW n \in Call, Unknown(n)'
          PROVE  (pending[n] = Nil /\ chan[n] = <<>> /\ n \notin reader.todo /\ (reader.at = "put" => reader.n # n))'
      BY <2>1, <3>1, <3>2, <3>3, <3>5, <1>a, <1>r DEF Replies
    <3> QED BY <2>1, <3>2, <3>4, <3>5 DEF Replies
  <2>3. CASE reader.todo = {} /\ reader' = [reader EXCEPT !.at = "done"] /\ UNCHANGED chan
    <3>1. reader'.at = "done" /\ reader'.todo = {}
      BY <2>3, <1>t DEF ReaderRec
    <3>2. ASSUME NEW n \in Call, Unknown(n)'
          PROVE  (pending[n] = Nil /\ chan[n] = <<>> /\ n \notin reader.todo /\ (reader.at = "put" => reader.n # n))'
      BY <2>1, <2>3, <3>1, <3>2, <1>a, <1>r DEF Replies
    <3> QED BY <2>1, <3>1, <3>2 DEF Replies
  <2> QED BY <1>8, <2>2, <2>3 DEF Wake
<1> QED
  BY <1>1, <1>2, <1>3, <1>4, <1>5, <1>6, <1>7, <1>8
     DEF Next, vars, CallNumber, CallStep, CallWrite, CallTimeout, ReaderStep, ConnStep, ReadEvent, TakeEvent,
     Break, Accept, ReadRequest, Dispatch, SendResponse, ReadEnds, Leave, Broadcast, SendEvent

\* The connection is a member before its first request and until its end.
LEMMA ServedStep == Inv /\ [Next]_vars => Served'
<1> SUFFICES ASSUME Inv, [Next]_vars PROVE Served'
  OBVIOUS
<1> USE DEF clientVars, pipeVars, serverVars
<1>t. conn \in ConnRec /\ Served
  BY DEF Inv, Types, ServerTypes
<1>1. ASSUME UNCHANGED <<conn, member, ran, missed>> PROVE Served'
  BY <1>1, <1>t DEF Served
<1>2. CASE Accept \/ ReadRequest \/ Dispatch \/ SendResponse \/ ReadEnds \/ Leave
  <2>1. conn'.at # "accept" /\ UNCHANGED missed
    <3>1. CASE SendResponse
      BY <3>1 DEF SendResponse, NoRequest
    <3>2. CASE Accept \/ ReadRequest \/ Dispatch \/ ReadEnds \/ Leave
      BY <3>2, <1>t DEF Accept, ReadRequest, Dispatch, ReadEnds, Leave, ConnRec
    <3> QED BY <1>2, <3>1, <3>2
  <2>2. conn'.at # "done" => member'
    <3>1. CASE Accept
      BY <3>1 DEF Accept
    <3>2. CASE Leave
      BY <3>2, <1>t DEF Leave, ConnRec
    <3>3. CASE ReadRequest \/ Dispatch \/ SendResponse \/ ReadEnds
      BY <3>3, <1>t DEF ReadRequest, Dispatch, SendResponse, ReadEnds, Served
    <3> QED BY <1>2, <3>1, <3>2, <3>3
  <2> QED BY <1>t, <2>1, <2>2 DEF Served
<1>3. CASE Broadcast
  <2>1. ~missed'
    BY <1>3, <1>t DEF Broadcast, Served
  <2> QED BY <1>3, <1>t, <2>1 DEF Broadcast, Served
<1> QED
  BY <1>1, <1>2, <1>3
     DEF Next, vars, CallNumber, CallStep, CallAdd, CallWrite, CallTake, CallForget, CallTimeout,
     ReaderStep, ConnStep, ReadEvent, ReadResponse, PutAnswer, ReadFails, Wake, TakeEvent, Break, SendEvent
-----------------------------------------------------------------------------
\* Each part of the invariant is kept under the whole of it.
THEOREM InvHolds == Spec => []Inv
<1>1. Inv /\ [Next]_vars => Inv'
  BY TypesStep, CallingStep, RequestsStep, AnswersStep, RepliesStep, ServedStep DEF Inv
<1> QED BY <1>1, InitInv, PTL DEF Spec

\* Every variable of the connection keeps its type; pipe and event channel
\* stay within their capacities.
THEOREM TypeCorrect == Spec => []TypeOK
<1>1. Inv => TypeOK
  <2> SUFFICES ASSUME Inv PROVE TypeOK
    OBVIOUS
  <2>1. nextID \in 0..MaxCalls
    BY DEF Inv, Types, ClientTypes
  <2> QED
    BY <2>1 DEF Inv, Types, ClientTypes, ReaderTypes, EventTypes, PipeTypes, ServerTypes, SenderTypes,
       CallerRec, ReaderRec, ConnRec, Reply, TypeOK
<1> QED BY <1>1, InvHolds, PTL

\* readLoop never blocks in deliver or fail on a reply channel that is full.
THEOREM ReaderCorrect == Spec => []ReaderNeverBlocks
<1>1. Inv => ReaderNeverBlocks
  BY DEF Inv, Replies, ReaderNeverBlocks
<1> QED BY <1>1, InvHolds, PTL

\* The connection hears every event that a request on it has caused, as long
\* as the service serves it: handleConn registers it before it reads.
THEOREM OwnEventsCorrect == Spec => []OwnEventsHeard
<1>1. Inv => OwnEventsHeard
  BY DEF Inv, Served, OwnEventsHeard
<1> QED BY <1>1, InvHolds, PTL
-----------------------------------------------------------------------------
(* The connection implements Rpc.  A call is issued by CallNumber, run by   *)
(* Dispatch, and returned by Return; every other step is a stutter.         *)

contract == <<1..calls, ran, res>>

\* Before the first call the contract is in its initial state.
LEMMA ContractInit == Init => RpcContract!Init
<1> SUFFICES ASSUME Init PROVE RpcContract!Init
  OBVIOUS
<1>1. 1..0 = {}
  OBVIOUS
<1> QED BY <1>1 DEF Init, RpcContract!Init

\* A caller that returns has the verdict on its own call, or none.
LEMMA ReturnsVerdict ==
  ASSUME Inv, NEW p \in Callers, NEW r \in Answer, ~At(p, "idle"), Return(p, r),
         r \in Verdict => ran[caller[p].n] = <<r>>, UNCHANGED <<calls, ran>>
  PROVE  RpcContract!Next
<1> DEFINE n == caller[p].n
<1>1. n \in Call /\ n \in 1..calls /\ res[n] = "none"
  BY BoundAssumption DEF Inv, Types, ClientTypes, Calling, Call
<1>2. res' = [res EXCEPT ![n] = r] /\ (r \in Verdict => ran[n] = <<r>>)
  BY DEF Return
<1> HIDE DEF n
<1>3. r \in RpcContract!Verdict \cup {"lost"} /\ (r \in RpcContract!Verdict => ran[n] = <<r>>)
  BY <1>2 DEF Answer, Verdict, RpcContract!Verdict
<1>4. RpcContract!Return(n)
  BY <1>1, <1>2, <1>3 DEF RpcContract!Return
<1> QED BY <1>1, <1>4 DEF RpcContract!Next

\* Every step is a step of the contract or none of its concern.
LEMMA ContractStep == Inv /\ [Next]_vars => RpcContract!Next \/ UNCHANGED contract
<1> SUFFICES ASSUME Inv, [Next]_vars PROVE RpcContract!Next \/ UNCHANGED contract
  OBVIOUS
<1> USE DEF clientVars, pipeVars, serverVars
<1>1. ASSUME UNCHANGED <<calls, ran, res>> PROVE UNCHANGED contract
  BY <1>1 DEF contract
<1>2. ASSUME NEW p \in Callers, CallNumber(p) PROVE RpcContract!Next
  <2> DEFINE n == calls + 1
  <2>1. calls \in Nat /\ n \in Call /\ calls' = n /\ UNCHANGED <<ran, res>>
    BY <1>2, BoundAssumption DEF CallNumber, Inv, Types, ClientTypes, Call
  <2>2. n \notin 1..calls /\ 1..n = (1..calls) \cup {n}
    BY <2>1
  <2>3. RpcContract!Issue(n)
    BY <2>1, <2>2 DEF RpcContract!Issue
  <2> HIDE DEF n
  <2> QED BY <2>1, <2>3 DEF RpcContract!Next
<1>3. ASSUME NEW p \in Callers, CallAdd(p) \/ CallWrite(p) \/ CallForget(p)
      PROVE  RpcContract!Next \/ UNCHANGED contract
  <2>1. ~At(p, "idle") /\ "lost" \in Answer /\ "lost" \notin Verdict
    BY <1>3 DEF CallAdd, CallWrite, CallForget, At, Answer, Verdict
  <2>2. UNCHANGED <<calls, ran>> /\ (Return(p, "lost") \/ UNCHANGED res)
    BY <1>3 DEF CallAdd, CallWrite, CallForget
  <2> QED BY <2>1, <2>2, <1>1, ReturnsVerdict
<1>4. ASSUME NEW p \in Callers, CallTake(p) PROVE RpcContract!Next
  <2> DEFINE n == caller[p].n
             r == Head(chan[n])
  <2>1. ~At(p, "idle") /\ Return(p, r) /\ chan[n] # <<>> /\ UNCHANGED <<calls, ran>>
    BY <1>4 DEF CallTake, At
  <2>2. n \in Call
    BY <2>1 DEF Inv, Types, ClientTypes
  <2>3. PICK a \in Answer : chan[n] = <<a>>
    BY <2>1, <2>2 DEF Inv, Types, ClientTypes, Reply
  <2>4. r = a
    BY <2>3
  <2>5. <<a>> = <<"lost">> \/ ran[n] = <<a>>
    BY <2>1, <2>2, <2>3 DEF Inv, Answers
  <2>6. a \in Verdict => ran[n] = <<a>>
    BY <2>5 DEF Verdict
  <2> QED BY <2>1, <2>3, <2>4, <2>6, ReturnsVerdict
<1>5. CASE Dispatch
  <2>1. PICK v \in Verdict : ran' = [ran EXCEPT ![conn.n] = Append(@, v)]
    BY <1>5 DEF Dispatch
  <2>2. conn.n \in Call /\ ran[conn.n] = <<>> /\ ran \in [Call -> Seq(Verdict)]
    BY <1>5 DEF Dispatch, Inv, Types, ServerTypes, Requests
  <2>3. ran' = [ran EXCEPT ![conn.n] = <<v>>]
    BY <2>1, <2>2
  <2>4. conn.n \in 1..calls
    <3>1. ~(conn.n > calls)
      BY <1>5, <2>2 DEF Dispatch, Inv, Requests, Unsent, Unborn
    <3> QED BY <2>2, <3>1, BoundAssumption DEF Inv, Types, ClientTypes, Call
  <2>5. RpcContract!Run(conn.n)
    BY <1>5, <2>2, <2>3, <2>4 DEF Dispatch, RpcContract!Run, Verdict, RpcContract!Verdict
  <2> QED BY <2>2, <2>5 DEF RpcContract!Next
<1> QED
  BY <1>1, <1>2, <1>3, <1>4, <1>5
     DEF Next, vars, CallStep, CallTimeout, ReaderStep, ConnStep, ReadEvent, ReadResponse, PutAnswer, ReadFails,
     Wake, TakeEvent, Break, Accept, ReadRequest, SendResponse, ReadEnds, Leave, Broadcast, SendEvent

\* ipc.Client.call keeps its contract whatever pipe and service do: a request
\* is carried out at most once, a call returns once, and what it returns as
\* the service's verdict is the verdict on this very call.
THEOREM ContractKept == Spec => ImplementsRpc
<1>1. Inv /\ [Next]_vars => [RpcContract!Next]_contract
  BY ContractStep
<1> QED BY <1>1, ContractInit, InvHolds, PTL DEF Spec, ImplementsRpc, RpcContract!Spec, contract
=============================================================================
