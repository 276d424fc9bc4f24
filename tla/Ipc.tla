--------------------------------- MODULE Ipc ---------------------------------
(***************************************************************************)
(* One connection between the application and the service: ipc.Client with *)
(* its readLoop (src/internal/ipc/client.go), the pipe, and ipc.Server with*)
(* its handleConn loop and Broadcast (src/internal/ipc/server.go), called  *)
(* by forwardEvents of the service (src/cmd/dualvpn-service/handler.go).   *)
(*                                                                         *)
(* Calls are numbered; number n also names the reply channel made by call  *)
(* n.  The number on the wire is nextID.  A request is carried out or      *)
(* refused (by Validate, by the handler, or because its method is unknown):*)
(* either way the service answers and the connection goes on.  The pipe    *)
(* holds at most PipeCap frames each way, a Write blocks while it is full. *)
(* It may break at any time (either end closed or crashed); of what was in *)
(* it some prefix can still be read.  Client.mu and Server.mu sections are *)
(* single actions.                                                         *)
(***************************************************************************)
EXTENDS Naturals, Sequences, FiniteSets

CONSTANTS
  Callers,    \* goroutines of the application that use the connection
  MaxCalls,   \* bound: calls made
  MaxEvents,  \* bound: events of the manager
  PipeCap,    \* frames in each direction of the pipe
  EventCap    \* size of Client.events

ASSUME BoundAssumption ==
  /\ MaxCalls \in Nat /\ MaxEvents \in Nat
  /\ PipeCap \in Nat \ {0} /\ EventCap \in Nat \ {0}

Call == 1..MaxCalls
Nil  == 0

VARIABLES
  nextID,   \* Client.nextID
  pending,  \* Client.pending: the call that waits for each number on the wire
  closed,   \* Client.closed
  chan,     \* the reply channel of every call (capacity 1)
  caller,   \* the callers
  reader,   \* Client.readLoop
  events,   \* Client.events
  up,       \* requests in the pipe
  down,     \* answers and events in the pipe
  broken,   \* the pipe is broken
  conn,     \* Server.handleConn
  member,   \* the connection is in Server.clients
  sender,   \* forwardEvents and Broadcast
  calls,    \* history: calls made
  ran,      \* history: verdicts of the service on each call
  res,      \* history: what each call has returned
  happened, \* history: events broadcast so far
  missed    \* history: a Broadcast left this connection out after a request on it ran

clientVars == <<nextID, pending, closed, chan, caller, reader>>
pipeVars   == <<up, down, broken>>
serverVars == <<conn, member, sender>>
vars == <<clientVars, events, pipeVars, serverVars, calls, ran, res, happened, missed>>

Verdict  == {"ok", "refused"}
Answer   == Verdict \cup {"lost"}
Request  == [id : Call, n : Call]
Frame    == [kind : {"response"}, id : Call, n : Call, ans : Verdict]
            \cup [kind : {"event"}, num : 1..MaxEvents]

NoCall    == [at |-> "idle", id |-> Nil, n |-> Nil]
NoRequest == [at |-> "read", id |-> Nil, n |-> Nil, ans |-> "ok"]

Init ==
  /\ nextID = 0 /\ pending = [i \in Call |-> Nil] /\ closed = FALSE
  /\ chan = [n \in Call |-> <<>>]
  /\ caller = [p \in Callers |-> NoCall]
  /\ reader = [at |-> "read", n |-> Nil, ans |-> "lost", todo |-> {}]
  /\ events = <<>>
  /\ up = <<>> /\ down = <<>> /\ broken = FALSE
  /\ conn = [NoRequest EXCEPT !.at = "accept"]
  /\ member = FALSE
  /\ sender = [at |-> "idle", num |-> 0]
  /\ calls = 0 /\ ran = [n \in Call |-> <<>>] /\ res = [n \in Call |-> "none"]
  /\ happened = 0 /\ missed = FALSE

At(p, l) == caller[p].at = l
-----------------------------------------------------------------------------
(* Client.call                                                             *)

\* Faulty variant: numbers on the wire are used again once they are free.
CallNumberReused(p) ==
  /\ At(p, "idle") /\ calls < MaxCalls
  /\ calls' = calls + 1 /\ nextID' = nextID + 1
  /\ \E i \in Call :
       /\ pending[i] = Nil /\ \A j \in 1..(i - 1) : pending[j] # Nil
       /\ caller' = [caller EXCEPT ![p] = [at |-> "add", id |-> i, n |-> calls + 1]]
  /\ UNCHANGED <<pending, closed, chan, reader, events, pipeVars, serverVars, ran, res, happened, missed>>

CallNumber(p) ==
  /\ At(p, "idle") /\ calls < MaxCalls
  /\ calls' = calls + 1 /\ nextID' = nextID + 1
  /\ caller' = [caller EXCEPT ![p] = [at |-> "add", id |-> nextID + 1, n |-> calls + 1]]
  /\ UNCHANGED <<pending, closed, chan, reader, events, pipeVars, serverVars, ran, res, happened, missed>>

Return(p, r) ==
  /\ res' = [res EXCEPT ![caller[p].n] = r]
  /\ caller' = [caller EXCEPT ![p] = NoCall]

CallAdd(p) ==
  /\ At(p, "add")
  /\ IF closed
     THEN Return(p, "lost") /\ UNCHANGED pending
     ELSE /\ pending' = [pending EXCEPT ![caller[p].id] = caller[p].n]
          /\ caller' = [caller EXCEPT ![p].at = "write"]
          /\ UNCHANGED res
  /\ UNCHANGED <<nextID, closed, chan, reader, events, pipeVars, serverVars, calls, ran, happened, missed>>

\* Write blocks while the pipe is full and fails when it is broken: the
\* entry in pending then stays behind.
CallWrite(p) ==
  /\ At(p, "write")
  /\ \/ /\ ~broken /\ Len(up) < PipeCap
        /\ up' = Append(up, [id |-> caller[p].id, n |-> caller[p].n])
        /\ caller' = [caller EXCEPT ![p].at = "wait"]
        /\ UNCHANGED res
     \/ /\ broken
        /\ Return(p, "lost") /\ UNCHANGED up
  /\ UNCHANGED <<nextID, pending, closed, chan, reader, events, down, broken, serverVars, calls, ran, happened, missed>>

CallTake(p) ==
  LET n == caller[p].n IN
  /\ At(p, "wait") /\ chan[n] # <<>>
  /\ Return(p, Head(chan[n]))
  /\ chan' = [chan EXCEPT ![n] = <<>>]
  /\ UNCHANGED <<nextID, pending, closed, reader, events, pipeVars, serverVars, calls, ran, happened, missed>>

\* callTimeout may fire at any moment of the wait, an answer may still come
\* before the entry is deleted.
CallTimeout(p) ==
  /\ At(p, "wait")
  /\ caller' = [caller EXCEPT ![p].at = "forget"]
  /\ UNCHANGED <<nextID, pending, closed, chan, reader, events, pipeVars, serverVars, calls, ran, res, happened, missed>>

CallForget(p) ==
  /\ At(p, "forget")
  /\ pending' = [pending EXCEPT ![caller[p].id] = Nil]
  /\ Return(p, "lost")
  /\ UNCHANGED <<nextID, closed, chan, reader, events, pipeVars, serverVars, calls, ran, happened, missed>>
-----------------------------------------------------------------------------
(* Client.readLoop                                                         *)

\* Faulty variant: the reader waits until the application takes the event.
ReadEventWaits ==
  /\ reader.at = "read" /\ down # <<>> /\ Head(down).kind = "event"
  /\ Len(events) < EventCap
  /\ events' = Append(events, Head(down).num)
  /\ down' = Tail(down)
  /\ UNCHANGED <<clientVars, up, broken, serverVars, calls, ran, res, happened, missed>>

\* An event for which there is no room is dropped.
ReadEvent ==
  /\ reader.at = "read" /\ down # <<>> /\ Head(down).kind = "event"
  /\ events' = IF Len(events) < EventCap THEN Append(events, Head(down).num) ELSE events
  /\ down' = Tail(down)
  /\ UNCHANGED <<clientVars, up, broken, serverVars, calls, ran, res, happened, missed>>

\* Faulty variant: deliver leaves the entry in pending.
ReadResponseKeeps ==
  LET f == Head(down) IN
  /\ reader.at = "read" /\ down # <<>> /\ f.kind = "response"
  /\ down' = Tail(down)
  /\ reader' = IF pending[f.id] = Nil THEN reader
               ELSE [reader EXCEPT !.at = "put", !.n = pending[f.id], !.ans = f.ans]
  /\ UNCHANGED <<nextID, pending, closed, chan, caller, events, up, broken, serverVars, calls, ran, res, happened, missed>>

\* deliver, under the lock: an answer nobody waits for any more is ignored.
ReadResponse ==
  LET f == Head(down) IN
  /\ reader.at = "read" /\ down # <<>> /\ f.kind = "response"
  /\ down' = Tail(down)
  /\ pending' = [pending EXCEPT ![f.id] = Nil]
  /\ reader' = IF pending[f.id] = Nil THEN reader
               ELSE [reader EXCEPT !.at = "put", !.n = pending[f.id], !.ans = f.ans]
  /\ UNCHANGED <<nextID, closed, chan, caller, events, up, broken, serverVars, calls, ran, res, happened, missed>>

\* deliver, after the lock; the send would block on a full channel.
PutAnswer ==
  /\ reader.at = "put" /\ chan[reader.n] = <<>>
  /\ chan' = [chan EXCEPT ![reader.n] = <<reader.ans>>]
  /\ reader' = [reader EXCEPT !.at = "read", !.n = Nil, !.ans = "lost"]
  /\ UNCHANGED <<nextID, pending, closed, caller, events, pipeVars, serverVars, calls, ran, res, happened, missed>>

\* fail, under the lock.
ReadFails ==
  /\ reader.at = "read" /\ broken /\ down = <<>>
  /\ closed' = TRUE
  /\ reader' = [reader EXCEPT !.at = "wake", !.todo = {pending[i] : i \in Call} \ {Nil}]
  /\ pending' = [i \in Call |-> Nil]
  /\ UNCHANGED <<nextID, chan, caller, events, pipeVars, serverVars, calls, ran, res, happened, missed>>

\* Faulty variant: a broken connection only closes the event channel.
WakeNobody ==
  /\ reader.at = "wake"
  /\ reader' = [reader EXCEPT !.at = "done", !.todo = {}]
  /\ UNCHANGED <<nextID, pending, closed, chan, caller, events, pipeVars, serverVars, calls, ran, res, happened, missed>>

\* The callers are woken one by one, then the event channel is closed.
Wake ==
  /\ reader.at = "wake"
  /\ \/ \E n \in reader.todo :
          /\ chan[n] = <<>>
          /\ chan' = [chan EXCEPT ![n] = <<"lost">>]
          /\ reader' = [reader EXCEPT !.todo = @ \ {n}]
     \/ /\ reader.todo = {}
        /\ reader' = [reader EXCEPT !.at = "done"]
        /\ UNCHANGED chan
  /\ UNCHANGED <<nextID, pending, closed, caller, events, pipeVars, serverVars, calls, ran, res, happened, missed>>

\* The application takes an event, when it likes.
TakeEvent ==
  /\ events # <<>>
  /\ events' = Tail(events)
  /\ UNCHANGED <<clientVars, pipeVars, serverVars, calls, ran, res, happened, missed>>
-----------------------------------------------------------------------------
(* The pipe                                                                *)

Break ==
  /\ ~broken /\ broken' = TRUE
  /\ \E u \in 0..Len(up) : up' = SubSeq(up, 1, u)
  /\ \E d \in 0..Len(down) : down' = SubSeq(down, 1, d)
  /\ UNCHANGED <<clientVars, events, serverVars, calls, ran, res, happened, missed>>
-----------------------------------------------------------------------------
(* Server.handleConn                                                       *)

\* Faulty variant: the connection is not put into Server.clients at once.
AcceptLate ==
  /\ conn.at = "accept"
  /\ conn' = [conn EXCEPT !.at = "read"]
  /\ UNCHANGED <<clientVars, events, pipeVars, member, sender, calls, ran, res, happened, missed>>

Accept ==
  /\ conn.at = "accept"
  /\ conn' = [conn EXCEPT !.at = "read"]
  /\ member' = TRUE
  /\ UNCHANGED <<clientVars, events, pipeVars, sender, calls, ran, res, happened, missed>>

ReadRequest ==
  LET q == Head(up) IN
  /\ conn.at = "read" /\ up # <<>>
  /\ up' = Tail(up)
  /\ conn' = [conn EXCEPT !.at = "run", !.id = q.id, !.n = q.n]
  /\ UNCHANGED <<clientVars, events, down, broken, member, sender, calls, ran, res, happened, missed>>

\* dispatch; "refused" stands for every error of Validate and of the handler.
Dispatch ==
  /\ conn.at = "run"
  /\ \E v \in Verdict :
       /\ ran' = [ran EXCEPT ![conn.n] = Append(@, v)]
       /\ conn' = [conn EXCEPT !.at = "send", !.ans = v]
  /\ UNCHANGED <<clientVars, events, pipeVars, member, sender, calls, res, happened, missed>>

SendResponse ==
  /\ conn.at = "send"
  /\ \/ /\ ~broken /\ Len(down) < PipeCap
        /\ down' = Append(down, [kind |-> "response", id |-> conn.id, n |-> conn.n, ans |-> conn.ans])
        /\ conn' = NoRequest
     \/ /\ broken
        /\ conn' = [NoRequest EXCEPT !.at = "leave"]
        /\ UNCHANGED down
  /\ UNCHANGED <<clientVars, events, up, broken, member, sender, calls, ran, res, happened, missed>>

ReadEnds ==
  /\ conn.at = "read" /\ broken /\ up = <<>>
  /\ conn' = [conn EXCEPT !.at = "leave"]
  /\ UNCHANGED <<clientVars, events, pipeVars, member, sender, calls, ran, res, happened, missed>>

Leave ==
  /\ conn.at = "leave"
  /\ conn' = [conn EXCEPT !.at = "done"]
  /\ member' = FALSE
  /\ UNCHANGED <<clientVars, events, pipeVars, sender, calls, ran, res, happened, missed>>
-----------------------------------------------------------------------------
(* Events of the service                                                   *)

\* forwardEvents has taken the next event of the manager, Broadcast takes a
\* snapshot of the connections.  The event is of any tunnel; it is the
\* connection's own if a request on it has led to it.
Broadcast ==
  /\ sender.at = "idle" /\ happened < MaxEvents
  /\ happened' = happened + 1
  /\ \E own \in BOOLEAN :
       /\ own => \E n \in Call : ran[n] # <<>>
       /\ sender' = IF member THEN [at |-> "send", num |-> happened + 1] ELSE sender
       /\ missed' = (missed \/ (~member /\ own /\ conn.at # "done"))
  /\ UNCHANGED <<clientVars, events, pipeVars, conn, member, calls, ran, res>>

\* conn.send to this connection; a failed write is ignored.
SendEvent ==
  /\ sender.at = "send"
  /\ \/ /\ ~broken /\ Len(down) < PipeCap
        /\ down' = Append(down, [kind |-> "event", num |-> sender.num])
     \/ broken /\ UNCHANGED down
  /\ sender' = [at |-> "idle", num |-> 0]
  /\ UNCHANGED <<clientVars, events, up, broken, conn, member, calls, ran, res, happened, missed>>
-----------------------------------------------------------------------------
CallStep(p) == CallAdd(p) \/ CallWrite(p) \/ CallTake(p) \/ CallForget(p)
ReaderStep  == ReadEvent \/ ReadResponse \/ PutAnswer \/ ReadFails \/ Wake
ConnStep    == Accept \/ ReadRequest \/ Dispatch \/ SendResponse \/ ReadEnds \/ Leave

Next ==
  \/ \E p \in Callers : CallNumber(p) \/ CallStep(p) \/ CallTimeout(p)
  \/ ReaderStep \/ TakeEvent \/ Break \/ ConnStep \/ Broadcast \/ SendEvent

\* The goroutines run and the handler returns.  Nothing is assumed about the
\* timer of a call, nor about the consumer of the events.
Fairness ==
  /\ \A p \in Callers : WF_vars(CallStep(p))
  /\ WF_vars(ReaderStep) /\ WF_vars(ConnStep) /\ WF_vars(SendEvent)

Spec == Init /\ [][Next]_vars
FairSpec == Spec /\ Fairness
-----------------------------------------------------------------------------
(* Safety                                                                  *)

TypeOK ==
  /\ nextID \in 0..MaxCalls
  /\ pending \in [Call -> Call \cup {Nil}]
  /\ closed \in BOOLEAN
  /\ chan \in [Call -> {<<>>} \cup {<<a>> : a \in Answer}]
  /\ caller \in [Callers -> [at : {"idle", "add", "write", "wait", "forget"}, id : Call \cup {Nil},
                             n : Call \cup {Nil}]]
  /\ reader \in [at : {"read", "put", "wake", "done"}, n : Call \cup {Nil}, ans : Answer,
                 todo : SUBSET Call]
  /\ events \in Seq(1..MaxEvents) /\ Len(events) <= EventCap
  /\ up \in Seq(Request) /\ Len(up) <= PipeCap
  /\ down \in Seq(Frame) /\ Len(down) <= PipeCap
  /\ broken \in BOOLEAN
  /\ conn \in [at : {"accept", "read", "run", "send", "leave", "done"}, id : Call \cup {Nil},
               n : Call \cup {Nil}, ans : Verdict]
  /\ member \in BOOLEAN
  /\ sender \in [at : {"idle", "send"}, num : 0..MaxEvents]
  /\ calls \in 0..MaxCalls
  /\ ran \in [Call -> Seq(Verdict)]
  /\ res \in [Call -> Answer \cup {"none"}]
  /\ happened \in 0..MaxEvents
  /\ missed \in BOOLEAN

\* The reader never blocks on a reply channel: deliver and fail send at most
\* one answer to each, because whoever sends has taken the entry out of
\* pending.  A blocked reader would cut the application off for good.
ReaderNeverBlocks ==
  /\ reader.at = "put" => chan[reader.n] = <<>>
  /\ \A n \in reader.todo : chan[n] = <<>>

\* While the connection is open pending holds calls in progress only, apart
\* from those whose Write has failed: a call that gave up leaves nothing for
\* its late answer to meet.
PendingInProgress ==
  \A i \in Call : pending[i] # Nil =>
    \/ \E p \in Callers : caller[p].n = pending[i] /\ At(p, "write")
    \/ \E p \in Callers : caller[p].n = pending[i] /\ caller[p].at \in {"wait", "forget"}
    \/ broken /\ res[pending[i]] = "lost"

\* An event that a request on this connection has caused is broadcast to it,
\* as long as the connection is served: it is in Server.clients before its
\* first request is read.
OwnEventsHeard == ~missed

\* The connection implements the contract of module Rpc.
RpcContract == INSTANCE Rpc WITH issued <- 1..calls
ImplementsRpc == RpcContract!Spec

(* Liveness                                                                *)

\* Every call returns, even if no timer ever fires and nobody takes events:
\* it is answered, or a break of the pipe wakes it (fail).
CallReturns == \A p \in Callers : ~At(p, "idle") ~> At(p, "idle")

\* After a break the application hears that the service is gone: the channel
\* of events is closed, and the service forgets the connection.
BreakIsHeard == broken ~> reader.at = "done" /\ conn.at = "done"
=============================================================================
