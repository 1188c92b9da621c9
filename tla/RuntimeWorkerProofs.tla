-------------------------- MODULE RuntimeWorkerProofs --------------------------
(***************************************************************************)
(* Theorems about a runtime, for all callers, host threads, handlers and   *)
(* numbers of calls and resets: what sync_slots points to is on the stack  *)
(* of a thread that waits, who waits gets the result of its own call, an   *)
(* answer from before a reset settles nothing after it, and a request is   *)
(* in one place until it is answered or await_promise drops it.            *)
(***************************************************************************)
EXTENDS RuntimeWorker, SequenceLemmas

(* What names a call names one that was made, in the context it was made in.  *)
(* The number of a callSync is nobody else's.                                 *)
Ours(m) == m.id < nextId /\ (m.id \in DOMAIN pending => pending[m.id] = m.context)
Syncs(f) ==
    /\ f.id < nextId /\ f.id \notin DOMAIN pending
    /\ \A call \in beamCalls \cup tasks : call.id = f.id => call.sync

CallsSound ==
    /\ \A id \in DOMAIN pending : id < nextId
    /\ \A call \in beamCalls \cup tasks : Ours(call)
    /\ \A i \in DOMAIN queue : queue[i].type = "resolve" => Ours(queue[i])
    /\ \A i \in DOMAIN stack : stack[i].at \in {"putting", "parked"} => Syncs(stack[i])

(* A host call on its way is the one its thread has made, and their numbers   *)
(* are used once.                                                             *)
Started == {h \in Host : host[h].pc # "idle"}
Made(m) == m.type = "sync" => m.by \in Started /\ host[m.by].id = m.id

HostsSound ==
    /\ \A i \in DOMAIN queue : Made(queue[i])
    /\ \A i \in DOMAIN stack : stack[i].at \in {"js", "await"} => Made(stack[i].msg)
    /\ \A h \in Started : host[h].id < HostBase + Cardinality(Started)
    /\ \A g, h \in Started : host[g].id = host[h].id => g = h

-----------------------------------------------------------------------------
(* Types *)
LEMMA Frames ==
    /\ \A m \in Message \cup {Continuation} : Running(m) \in Frame
    /\ \A m \in Message, id \in CallId : Awaiting(m, id) \in Frame
    /\ \A at \in {"putting", "parked"}, id \in CallId : Parking(at, id) \in Frame
    /\ \A f \in Frame :
          /\ f.at \in {"js", "await", "putting", "parked"}
          /\ f.at = "js" => f.msg \in Message \cup {Continuation}
          /\ f.at = "await" => f.msg \in Message /\ f.on \in CallId
          /\ f.at \in {"putting", "parked"} => f.id \in CallId
BY DEF Frame, Running, Awaiting, Parking

LEMMA Messages ==
    /\ \A c \in Caller, kind \in Kind \cup {"eval"} : Request(c, kind) \in Message
    /\ \A h \in Host, id \in HostId : HostCall(h, id) \in Message
    /\ \A call \in BeamCallMsg : Resolve(call) \in Message
    /\ Stop \in Message
    /\ \A m \in Message \cup {Continuation} :
          /\ m.type = "request" => m.from \in Caller
          /\ m.type = "sync" => m.by \in Host /\ m.id \in HostId
          /\ m.type = "resolve" => m.id \in CallId /\ m.context \in Nat
BY DEF Message, Request, HostCall, Resolve, Stop, Continuation, BeamCallMsg
-----------------------------------------------------------------------------
(* What the pieces of the actions do to the queue, the stack and the events. *)
LEMMA Received ==
    ASSUME TypeOK, NEW type, Receive(type)
    PROVE  /\ Head(queue) \in Message /\ Head(queue).type = type
           /\ 1 \in DOMAIN queue /\ Head(queue) = queue[1]
           /\ queue' \in Seq(Message)
           /\ \A i \in DOMAIN queue' : \E j \in DOMAIN queue : queue'[i] = queue[j]
<1>1. queue \in Seq(Message) /\ queue # << >> /\ queue' = Tail(queue) /\ Head(queue).type = type
    BY DEF TypeOK, Receive
<1> QED BY <1>1, Popped

LEMMA Enqueued ==
    ASSUME TypeOK, NEW m \in Message, Enqueue(m)
    PROVE  /\ queue' \in Seq(Message)
           /\ \A i \in DOMAIN queue' :
                 queue'[i] = m \/ \E j \in DOMAIN queue : queue'[i] = queue[j]
<1>1. queue \in Seq(Message) /\ queue' = Append(queue, m)
    BY DEF TypeOK, Enqueue
<1>2. /\ Append(queue, m) \in Seq(Message)
      /\ \A i \in DOMAIN Append(queue, m) :
            Append(queue, m)[i] = m \/ (i \in DOMAIN queue /\ Append(queue, m)[i] = queue[i])
    BY <1>1, Pushed
<1> QED BY <1>1, <1>2

LEMMA Top ==
    ASSUME TypeOK, stack # << >>
    PROVE  /\ Last(stack) \in Frame /\ Len(stack) \in DOMAIN stack /\ Last(stack) = stack[Len(stack)]
           /\ Outer \in Seq(Frame)
           /\ \A i \in DOMAIN Outer : i \in DOMAIN stack /\ Outer[i] = stack[i]
<1>1. stack \in Seq(Frame)
  BY DEF TypeOK
<1> QED
  BY <1>1, Unstacked DEF Outer

Event == [Host \cup {Js} -> {"unset", "own", "foreign", "shutdown"}]

LEMMA CompletedTypes ==
    ASSUME TypeOK, NEW msg \in Message \cup {Continuation}, Complete(msg)
    PROVE  replies' \subseteq Caller /\ event' \in Event
<1>1. CASE msg.type = "request" /\ Answer(msg.from) /\ UNCHANGED event
    BY <1>1, Messages DEF TypeOK, Answer, Event
<1>2. CASE HostWaits(msg) /\ Signal(msg.id, TRUE, msg.by) /\ UNCHANGED replies
    BY <1>2 DEF TypeOK, HostWaits, Signal, Event
<1>3. CASE UNCHANGED <<replies, event>>
    BY <1>3 DEF TypeOK, Event
<1> QED BY <1>1, <1>2, <1>3 DEF Complete

LEMMA ResolvedTypes ==
    ASSUME TypeOK, NEW call \in BeamCallMsg, ResolveCall(call)
    PROVE  queue' \in Seq(Message) /\ event' \in Event
<1>1. CASE call.id \in DOMAIN slots /\ Signal(call.id, call.sync, Js) /\ UNCHANGED queue
    BY <1>1 DEF TypeOK, Signal, Event
<1>2. CASE Enqueue(Resolve(call)) /\ UNCHANGED event
    BY <1>2, Messages, Enqueued DEF TypeOK, Event
<1> QED BY <1>1, <1>2 DEF ResolveCall

LEMMA ContinuedTypes ==
    ASSUME TypeOK, NEW id, ResolvePending(id)
    PROVE  /\ DOMAIN pending' \subseteq DOMAIN pending
           /\ \A i \in DOMAIN pending' : pending'[i] = pending[i]
           /\ stack' \in Seq(Frame)
<1>1. CASE UNCHANGED <<pending, stack>>
    BY <1>1 DEF TypeOK
<1>2. CASE /\ pending' = [i \in DOMAIN pending \ {id} |-> pending[i]]
           /\ stack' = Append(stack, Running(Continuation))
  <2>1. Append(stack, Running(Continuation)) \in Seq(Frame)
    BY Frames, Pushed DEF TypeOK
  <2> QED BY <1>2, <2>1
<1> QED BY <1>1, <1>2 DEF ResolvePending
-----------------------------------------------------------------------------
LEMMA MainTypes ==
    ASSUME TypeOK,
           MainRequest \/ MainGlobal \/ MainReset \/ MainSync \/ MainResolve \/ MainStop
    PROVE  TypeOK'
<1>1. CASE MainRequest \/ MainSync
  <2>1. Head(queue) \in Message /\ queue' \in Seq(Message)
    BY <1>1, Received DEF MainRequest, MainSync
  <2>2. << Running(Head(queue)) >> \in Seq(Frame)
    BY <2>1, Frames
  <2> QED BY <1>1, <2>1, <2>2 DEF MainRequest, MainSync, TypeOK, elixir
<1>2. CASE MainGlobal \/ MainReset
  <2>1. /\ Head(queue) \in Message /\ Head(queue).type = "request"
        /\ queue' \in Seq(Message)
    BY <1>2, Received DEF MainGlobal, MainReset
  <2>2. replies' \subseteq Caller
    <3>1. Head(queue).from \in Caller
      BY <2>1, Messages
    <3>2. Answer(Head(queue).from) \/ UNCHANGED replies
      BY <1>2 DEF MainGlobal, MainReset
    <3> QED BY <3>1, <3>2 DEF Answer, TypeOK
  <2> QED BY <1>2, <2>1, <2>2 DEF MainGlobal, MainReset, DoReset, TypeOK, worker
<1>3. CASE MainResolve
  <2>1. queue' \in Seq(Message)
    BY <1>3, Received DEF MainResolve
  <2>2. /\ DOMAIN pending' \subseteq DOMAIN pending
        /\ \A i \in DOMAIN pending' : pending'[i] = pending[i]
        /\ stack' \in Seq(Frame)
    BY <1>3, ContinuedTypes DEF MainResolve
  <2> QED BY <1>3, <2>1, <2>2 DEF MainResolve, TypeOK, elixir
<1>4. CASE MainStop
  <2>1. queue' \in Seq(Message)
    BY <1>4, Received DEF MainStop
  <2> QED BY <1>4, <2>1 DEF MainStop, TypeOK, elixir
<1> QED BY <1>1, <1>2, <1>3, <1>4

LEMMA SentTypes ==
    ASSUME TypeOK, NEW id \in CallId, NEW sync \in BOOLEAN, SendBeamCall(id, sync)
    PROVE  beamCalls' \subseteq BeamCallMsg
<1>1. [id |-> id, context |-> resets, sync |-> sync] \in BeamCallMsg
    BY DEF TypeOK, BeamCallMsg
<1> QED BY <1>1 DEF TypeOK, SendBeamCall

LEMMA ScriptTypes ==
    ASSUME TypeOK,
           BeamCall \/ CallSync \/ CallSyncSend \/ CallSyncReturn \/ ScriptReturns \/ ScriptAwaits
    PROVE  TypeOK'
<1>1. CASE BeamCall
  <2>1. nextId \in CallId /\ nextId' = nextId + 1
    BY <1>1 DEF BeamCall
  <2>2. nextId' \in 1..(MaxCalls + 1)
    BY <2>1, WorkerAssumption DEF CallId
  <2>3. beamCalls' \subseteq BeamCallMsg
    BY <1>1, <2>1, SentTypes DEF BeamCall
  <2>4. DOMAIN pending' \subseteq CallId /\ \A id \in DOMAIN pending' : pending'[id] \in Nat
    BY <1>1, <2>1 DEF BeamCall, TypeOK
  <2> QED BY <1>1, <2>2, <2>3, <2>4 DEF BeamCall, TypeOK
<1>2. CASE CallSync
  <2>1. nextId \in CallId /\ nextId' = nextId + 1
    BY <1>2 DEF CallSync
  <2>2. nextId' \in 1..(MaxCalls + 1)
    BY <2>1, WorkerAssumption DEF CallId
  <2>3. /\ DOMAIN slots' \subseteq CallId \cup HostId
        /\ \A id \in DOMAIN slots' : slots'[id] \in Host \cup {Js}
    BY <1>2, <2>1 DEF CallSync, Slotted, TypeOK
  <2>4. stack' \in Seq(Frame)
    BY <1>2, <2>1, Frames, Pushed DEF CallSync, TypeOK
  <2>5. event' \in Event
    BY <1>2 DEF CallSync, TypeOK, Event
  <2> QED BY <1>2, <2>2, <2>3, <2>4, <2>5 DEF CallSync, TypeOK, elixir, Event
<1>3. CASE CallSyncSend
  <2>1. /\ Last(stack).id \in CallId /\ Outer \in Seq(Frame)
    BY <1>3, Top, Frames DEF CallSyncSend, Innermost
  <2>2. /\ DOMAIN slots' \subseteq CallId \cup HostId
        /\ \A id \in DOMAIN slots' : slots'[id] \in Host \cup {Js}
    BY <1>3 DEF CallSyncSend, Unslotted, TypeOK
  <2>3. beamCalls' \subseteq BeamCallMsg
    BY <1>3, <2>1, SentTypes DEF CallSyncSend, TypeOK
  <2>4. stack' \in Seq(Frame)
    <3>1. Append(Outer, Parking("parked", Last(stack).id)) \in Seq(Frame)
      BY <2>1, Frames, Pushed
    <3> QED BY <1>3, <2>1, <3>1 DEF CallSyncSend
  <2> QED BY <1>3, <2>2, <2>3, <2>4 DEF CallSyncSend, TypeOK
<1>4. CASE CallSyncReturn
  <2>1. Outer \in Seq(Frame)
    BY <1>4, Top DEF CallSyncReturn, Innermost
  <2> QED BY <1>4, <2>1 DEF CallSyncReturn, Unslotted, TypeOK, elixir
<1>5. CASE ScriptReturns
  <2>1. /\ Last(stack).msg \in Message \cup {Continuation} /\ Outer \in Seq(Frame)
    BY <1>5, Top, Frames DEF ScriptReturns, Innermost
  <2>2. replies' \subseteq Caller /\ event' \in Event
    BY <1>5, <2>1, CompletedTypes DEF ScriptReturns
  <2>3. stack' \in Seq(Frame)
    <3>1. ASSUME Outer # << >>, Last(Outer).at = "await", NEW id \in DOMAIN pending
          PROVE  Append(Front(Outer), Awaiting(Last(Outer).msg, id)) \in Seq(Frame)
      <4>1. Last(Outer) \in Frame /\ Front(Outer) \in Seq(Frame)
        BY <2>1, <3>1, Unstacked
      <4>2. Awaiting(Last(Outer).msg, id) \in Frame
        BY <3>1, <4>1, Frames DEF TypeOK
      <4> QED BY <4>1, <4>2, Pushed
    <3> QED BY <1>5, <2>1, <3>1 DEF ScriptReturns
  <2> QED BY <1>5, <2>2, <2>3 DEF ScriptReturns, TypeOK, Event
<1>6. CASE ScriptAwaits
  <2>1. /\ Last(stack).msg \in Message /\ Outer \in Seq(Frame)
    BY <1>6, Top, Frames DEF ScriptAwaits, Innermost
  <2>2. stack' \in Seq(Frame)
    <3>1. ASSUME NEW id \in DOMAIN pending
          PROVE  Append(Outer, Awaiting(Last(stack).msg, id)) \in Seq(Frame)
      <4>1. Awaiting(Last(stack).msg, id) \in Frame
        BY <2>1, Frames DEF TypeOK
      <4> QED BY <2>1, <4>1, Pushed
    <3> QED BY <1>6, <3>1 DEF ScriptAwaits
  <2> QED BY <1>6, <2>2 DEF ScriptAwaits, TypeOK, elixir
<1> QED BY <1>1, <1>2, <1>3, <1>4, <1>5, <1>6

LEMMA AwaitTypes ==
    ASSUME TypeOK,
           AwaitEnds \/ AwaitGlobal \/ AwaitSync \/ AwaitResolve \/ AwaitDrops \/ AwaitStop
    PROVE  TypeOK'
<1>1. CASE AwaitEnds \/ AwaitStop
  <2>1. /\ Last(stack).msg \in Message /\ Outer \in Seq(Frame)
    BY <1>1, Top, Frames DEF AwaitEnds, AwaitStop, AwaitTakes, Innermost
  <2>2. replies' \subseteq Caller /\ event' \in Event
    BY <1>1, <2>1, CompletedTypes DEF AwaitEnds, AwaitStop
  <2>3. queue' \in Seq(Message)
    BY <1>1, Received DEF AwaitEnds, AwaitStop, AwaitTakes, TypeOK
  <2> QED BY <1>1, <2>1, <2>2, <2>3 DEF AwaitEnds, AwaitStop, TypeOK, Event
<1>2. CASE AwaitGlobal \/ AwaitDrops
  <2>1. /\ Head(queue) \in Message /\ Head(queue).type = "request"
        /\ queue' \in Seq(Message)
    BY <1>2, Received DEF AwaitGlobal, AwaitDrops, AwaitTakes
  <2>2. replies' \subseteq Caller
    BY <1>2, <2>1, Messages DEF AwaitGlobal, AwaitDrops, Answer, TypeOK, elixir
  <2> QED BY <1>2, <2>1, <2>2 DEF AwaitGlobal, AwaitDrops, TypeOK, elixir, worker
<1>3. CASE AwaitSync
  <2>1. Head(queue) \in Message /\ queue' \in Seq(Message)
    BY <1>3, Received DEF AwaitSync, AwaitTakes
  <2>2. stack' \in Seq(Frame)
    BY <1>3, <2>1, Frames, Pushed DEF AwaitSync, TypeOK
  <2> QED BY <1>3, <2>1, <2>2 DEF AwaitSync, TypeOK, elixir
<1>4. CASE AwaitResolve
  <2>1. queue' \in Seq(Message)
    BY <1>4, Received DEF AwaitResolve, AwaitTakes
  <2>2. /\ DOMAIN pending' \subseteq DOMAIN pending
        /\ \A i \in DOMAIN pending' : pending'[i] = pending[i]
        /\ stack' \in Seq(Frame)
    BY <1>4, ContinuedTypes DEF AwaitResolve
  <2> QED BY <1>4, <2>1, <2>2 DEF AwaitResolve, TypeOK, elixir
<1> QED BY <1>1, <1>2, <1>3, <1>4

LEMMA GoneTypes ==
    ASSUME TypeOK, Gone
    PROVE  /\ server' = "gone" /\ replies' = {} /\ beamCalls' = {}
           /\ caller' \in [Caller -> [pc : {"idle", "calling", "pending"}, kind : Kind \cup {"eval"}]]
<1>1. \A c \in Caller :
         [caller[c] EXCEPT !.pc = "idle"]
             \in [pc : {"idle", "calling", "pending"}, kind : Kind \cup {"eval"}]
  BY DEF TypeOK
<1> QED
  BY <1>1 DEF Gone

LEMMA ServerTypes ==
    ASSUME TypeOK,
           \/ Shutdown \/ Terminate \/ Kill
           \/ \E c \in Caller : Call(c) \/ HandleCall(c) \/ HandleReply(c)
           \/ \E call \in beamCalls : HandleBeamCall(call) \/ DrainBeamCall(call)
           \/ \E call \in tasks : TaskEnds(call)
    PROVE  TypeOK'
<1>1. CASE Shutdown
  <2>1. CASE ShutdownFlag
    BY <2>1 DEF ShutdownFlag, TypeOK, worker
  <2>2. CASE ShutdownWake
    BY <2>2 DEF ShutdownWake, TypeOK, worker, elixir
  <2>3. CASE ShutdownStop
    BY <2>3, Messages, Enqueued DEF ShutdownStop, TypeOK, worker, elixir
  <2>4. CASE ShutdownJoin
    BY <2>4, GoneTypes DEF ShutdownJoin, TypeOK, worker
  <2> QED BY <1>1, <2>1, <2>2, <2>3, <2>4 DEF Shutdown
<1>2. CASE Terminate
    BY <1>2 DEF Terminate, TypeOK, worker
<1>3. CASE Kill
  <2>1. Gone
    BY <1>3 DEF Kill
  <2> QED BY <1>3, <2>1, GoneTypes DEF Kill, TypeOK, worker
<1>4. ASSUME NEW c \in Caller, Call(c) PROVE TypeOK'
    BY <1>4 DEF Call, TypeOK, worker
<1>5. ASSUME NEW c \in Caller, HandleCall(c) PROVE TypeOK'
  <2>1. Request(c, caller[c].kind) \in Message
    BY <1>5, Messages DEF HandleCall, TypeOK
  <2> QED BY <1>5, <2>1, Enqueued DEF HandleCall, TypeOK, worker
<1>6. ASSUME NEW c \in Caller, HandleReply(c) PROVE TypeOK'
  <2>1. caller' \in [Caller -> [pc : {"idle", "calling", "pending"}, kind : Kind \cup {"eval"}]]
    BY <1>6 DEF HandleReply, TypeOK
  <2> QED BY <1>6, <2>1 DEF HandleReply, TypeOK, worker
<1>7. ASSUME NEW call \in beamCalls, HandleBeamCall(call) PROVE TypeOK'
    BY <1>7, ResolvedTypes DEF HandleBeamCall, TypeOK, worker, Event
<1>8. ASSUME NEW call \in beamCalls, DrainBeamCall(call) PROVE TypeOK'
  <2>1. CASE ResolveCall(call) /\ beamCalls' = beamCalls \ {call} /\ UNCHANGED <<server, caller, replies>>
    BY <1>8, <2>1, ResolvedTypes DEF DrainBeamCall, TypeOK, worker, Event
  <2>2. CASE Gone /\ UNCHANGED <<queue, event>>
    BY <1>8, <2>2, GoneTypes DEF DrainBeamCall, TypeOK, worker
  <2> QED BY <1>8, <2>1, <2>2 DEF DrainBeamCall
<1>9. ASSUME NEW call \in tasks, TaskEnds(call) PROVE TypeOK'
    BY <1>9, ResolvedTypes DEF TaskEnds, TypeOK, worker, Event
<1> QED BY <1>1, <1>2, <1>3, <1>4, <1>5, <1>6, <1>7, <1>8, <1>9

LEMMA StartedCount ==
    /\ IsFiniteSet(Started) /\ Cardinality(Started) \in Nat
    /\ Cardinality(Host) \in Nat /\ Cardinality(Started) <= Cardinality(Host)
BY WorkerAssumption, FS_Subset, FS_CardinalityType DEF Started

LEMMA HostTypes ==
    ASSUME TypeOK, NEW h \in Host, HostStart(h) \/ HostSend(h) \/ HostReturn(h)
    PROVE  TypeOK'
<1>1. CASE HostStart(h)
  <2> DEFINE id == HostBase + Cardinality(Started)
  <2>1. id \in HostId
    BY StartedCount, WorkerAssumption DEF HostId
  <2>2. /\ host' = [host EXCEPT ![h] = [pc |-> "putting", id |-> id]]
        /\ slots' = Slotted(id, h)
        /\ event' = [event EXCEPT ![h] = "unset"]
        /\ UNCHANGED <<elixir, lifecycle, queue, worker>>
    BY <1>1 DEF HostStart, Started
  <2> HIDE DEF id
  <2> QED BY <2>1, <2>2 DEF Slotted, TypeOK, elixir, worker
<1>2. CASE HostSend(h)
  <2>1. HostCall(h, host[h].id) \in Message
    BY Messages DEF TypeOK
  <2>2. host' \in [Host -> [pc : {"idle", "putting", "parked", "done"}, id : HostId]]
    BY <1>2 DEF HostSend, TypeOK
  <2>3. queue' \in Seq(Message)
    BY <1>2, <2>1, Enqueued DEF HostSend
  <2> QED BY <1>2, <2>2, <2>3 DEF HostSend, TypeOK, elixir, worker
<1>3. CASE HostReturn(h)
    BY <1>3 DEF HostReturn, Unslotted, TypeOK, elixir, worker
<1> QED BY <1>1, <1>2, <1>3

LEMMA TypeStep == ASSUME TypeOK, [Next]_vars PROVE TypeOK'
<1>1. CASE UNCHANGED vars
    BY <1>1 DEF vars, elixir, worker, TypeOK
<1> QED BY <1>1, MainTypes, ScriptTypes, AwaitTypes, ServerTypes, HostTypes DEF Next, Worker
-----------------------------------------------------------------------------
(* Where messages, frames, calls and promises of the next state come from.    *)
QueueFrom(m) ==
    \/ \E j \in DOMAIN queue : m = queue[j]
    \/ m.type \in {"request", "stop"}
    \/ \E call \in beamCalls \cup tasks : m = Resolve(call)
    \/ \E h \in Started : m = HostCall(h, host[h].id)

LEMMA WorkerQueue ==
    ASSUME TypeOK, Worker
    PROVE  \A i \in DOMAIN queue' : \E j \in DOMAIN queue : queue'[i] = queue[j]
<1>1. CASE UNCHANGED queue
    BY <1>1
<1>2. CASE \E type \in {"request", "sync", "resolve", "stop"} : Receive(type)
    BY <1>2, Received
<1> QED BY <1>1, <1>2
        DEF Worker, MainRequest, MainGlobal, MainReset, MainSync, MainResolve, MainStop,
            BeamCall, CallSync, CallSyncSend, CallSyncReturn, ScriptReturns, ScriptAwaits,
            AwaitEnds, AwaitGlobal, AwaitSync, AwaitResolve, AwaitDrops, AwaitStop, AwaitTakes

LEMMA ResolvedQueue ==
    ASSUME TypeOK, NEW call \in beamCalls \cup tasks, ResolveCall(call)
    PROVE  \A i \in DOMAIN queue' : QueueFrom(queue'[i])
<1>1. CASE UNCHANGED queue
    BY <1>1 DEF QueueFrom
<1>2. CASE Enqueue(Resolve(call))
  <2>1. Resolve(call) \in Message
    BY Messages DEF TypeOK
  <2> QED BY <1>2, <2>1, Enqueued DEF QueueFrom
<1> QED BY <1>1, <1>2 DEF ResolveCall

LEMMA QueueComes ==
    ASSUME TypeOK, [Next]_vars
    PROVE  \A i \in DOMAIN queue' : QueueFrom(queue'[i])
<1>1. CASE UNCHANGED queue
    BY <1>1 DEF QueueFrom
<1>2. CASE Worker
    BY <1>2, WorkerQueue DEF QueueFrom
<1>3. CASE ShutdownStop
    BY <1>3, Messages, Enqueued DEF ShutdownStop, QueueFrom, Stop
<1>4. ASSUME NEW c \in Caller, HandleCall(c)
      PROVE  \A i \in DOMAIN queue' : QueueFrom(queue'[i])
  <2>1. /\ Request(c, caller[c].kind) \in Message /\ Enqueue(Request(c, caller[c].kind))
        /\ Request(c, caller[c].kind).type = "request"
    BY <1>4, Messages DEF HandleCall, TypeOK, Request
  <2> QED BY <2>1, Enqueued DEF QueueFrom
<1>5. ASSUME NEW call \in beamCalls \cup tasks, ResolveCall(call)
      PROVE  \A i \in DOMAIN queue' : QueueFrom(queue'[i])
    BY <1>5, ResolvedQueue
<1>6. ASSUME NEW h \in Host, HostSend(h)
      PROVE  \A i \in DOMAIN queue' : QueueFrom(queue'[i])
  <2>1. HostCall(h, host[h].id) \in Message /\ Enqueue(HostCall(h, host[h].id)) /\ h \in Started
    BY <1>6, Messages DEF HostSend, TypeOK, Started
  <2> QED BY <2>1, Enqueued DEF QueueFrom
<1> QED BY <1>1, <1>2, <1>3, <1>4, <1>5, <1>6
        DEF Next, vars, Shutdown, ShutdownFlag, ShutdownWake, ShutdownJoin, Terminate, Kill,
            Call, HandleReply, HandleBeamCall, DrainBeamCall, TaskEnds, HostStart, HostReturn

StackFrom(f) ==
    \/ \E j \in DOMAIN stack : f = stack[j]
    \/ /\ f.at \in {"js", "await"}
       /\ \/ f.msg = Continuation
          \/ \E j \in DOMAIN queue : f.msg = queue[j]
          \/ \E j \in DOMAIN stack : stack[j].at \in {"js", "await"} /\ f.msg = stack[j].msg
    \/ f.at = "putting" /\ f.id = nextId /\ CallSync
    \/ /\ f.at = "parked"
       /\ \E j \in DOMAIN stack : stack[j].at = "putting" /\ f.id = stack[j].id

LEMMA Grown ==
    ASSUME TypeOK, NEW base \in Seq(Frame), \A i \in DOMAIN base : StackFrom(base[i]),
           NEW f \in Frame, StackFrom(f), stack' = Append(base, f)
    PROVE  \A i \in DOMAIN stack' : StackFrom(stack'[i])
BY Pushed

LEMMA StackComes ==
    ASSUME TypeOK, [Next]_vars
    PROVE  \A i \in DOMAIN stack' : StackFrom(stack'[i])
<1> DEFINE Goal == \A i \in DOMAIN stack' : StackFrom(stack'[i])
<1>0. /\ \A i \in DOMAIN stack : StackFrom(stack[i])
      /\ stack \in Seq(Frame)
      /\ \A m : Running(m).at = "js" /\ Running(m).msg = m
      /\ \A m, id : Awaiting(m, id).at = "await" /\ Awaiting(m, id).msg = m
      /\ \A at, id : Parking(at, id).at = at /\ Parking(at, id).id = id
    BY DEF StackFrom, TypeOK, Running, Awaiting, Parking
<1>1. CASE UNCHANGED stack
    BY <1>0, <1>1
<1>2. ASSUME NEW at, Innermost(at)
      PROVE  /\ \A i \in DOMAIN Outer : StackFrom(Outer[i])
             /\ Outer \in Seq(Frame) /\ Last(stack) \in Frame /\ Last(stack).at = at
             /\ \E j \in DOMAIN stack : Last(stack) = stack[j]
    BY <1>2, Top DEF Innermost, StackFrom
<1>3. CASE MainRequest \/ MainSync
  <2>1. /\ Head(queue) \in Message /\ 1 \in DOMAIN queue /\ Head(queue) = queue[1]
        /\ stack' = << Running(Head(queue)) >>
    BY <1>3, Received DEF MainRequest, MainSync
  <2>2. StackFrom(Running(Head(queue)))
    BY <1>0, <2>1 DEF StackFrom
  <2> QED BY <2>1, <2>2
<1>4. CASE AwaitSync
  <2>1. /\ Head(queue) \in Message /\ 1 \in DOMAIN queue /\ Head(queue) = queue[1]
        /\ stack' = Append(stack, Running(Head(queue)))
    BY <1>4, Received DEF AwaitSync, AwaitTakes
  <2>2. StackFrom(Running(Head(queue))) /\ Running(Head(queue)) \in Frame
    BY <1>0, <2>1, Frames DEF StackFrom
  <2> QED BY <1>0, <2>1, <2>2, Grown
<1>5. CASE MainResolve \/ AwaitResolve
  <2>1. StackFrom(Running(Continuation)) /\ Running(Continuation) \in Frame
    BY <1>0, Frames DEF StackFrom
  <2> QED BY <1>0, <1>1, <1>5, <2>1, Grown DEF MainResolve, AwaitResolve, ResolvePending
<1>6. CASE CallSync
  <2>1. StackFrom(Parking("putting", nextId)) /\ Parking("putting", nextId) \in Frame
    BY <1>0, <1>6, Frames DEF CallSync, StackFrom
  <2> QED BY <1>0, <1>6, <2>1, Grown DEF CallSync
<1>7. CASE CallSyncSend
  <2> DEFINE f == Parking("parked", Last(stack).id)
  <2>1. StackFrom(f) /\ f \in Frame
    BY <1>0, <1>2, <1>7, Frames DEF CallSyncSend, StackFrom
  <2>2. stack' = Outer \/ stack' = Append(Outer, f)
    BY <1>7 DEF CallSyncSend
  <2> HIDE DEF f
  <2> QED BY <1>2, <1>7, <2>1, <2>2, Grown DEF CallSyncSend
<1>8. CASE CallSyncReturn \/ AwaitEnds \/ AwaitStop
    BY <1>2, <1>8 DEF CallSyncReturn, AwaitEnds, AwaitStop, AwaitTakes
<1>9. CASE ScriptReturns
  <2>1. CASE stack' = Outer
    BY <1>2, <1>9, <2>1 DEF ScriptReturns
  <2>2. ASSUME Outer # << >>, Last(Outer).at = "await", NEW id \in DOMAIN pending,
               stack' = Append(Front(Outer), Awaiting(Last(Outer).msg, id))
        PROVE  Goal
    <3>1. Outer \in Seq(Frame) /\ \A i \in DOMAIN Outer : i \in DOMAIN stack /\ Outer[i] = stack[i]
      BY <1>9, Top DEF ScriptReturns, Innermost
    <3>2. /\ Last(Outer) \in Frame /\ Len(Outer) \in DOMAIN Outer /\ Last(Outer) = Outer[Len(Outer)]
          /\ Front(Outer) \in Seq(Frame)
          /\ \A i \in DOMAIN Front(Outer) : i \in DOMAIN Outer /\ Front(Outer)[i] = Outer[i]
      BY <2>2, <3>1, Unstacked
    <3>3. /\ StackFrom(Awaiting(Last(Outer).msg, id)) /\ Awaiting(Last(Outer).msg, id) \in Frame
      BY <1>0, <2>2, <3>1, <3>2, Frames DEF StackFrom, TypeOK
    <3>4. \A i \in DOMAIN Front(Outer) : StackFrom(Front(Outer)[i])
      BY <3>1, <3>2 DEF StackFrom
    <3> QED BY <2>2, <3>2, <3>3, <3>4, Grown
  <2> QED BY <1>9, <2>1, <2>2 DEF ScriptReturns
<1>10. CASE ScriptAwaits
  <2>1. PICK id \in DOMAIN pending : stack' = Append(Outer, Awaiting(Last(stack).msg, id))
    BY <1>10 DEF ScriptAwaits
  <2>2. /\ Last(stack).at = "js" /\ Last(stack).msg \in Message /\ id \in CallId
        /\ \E j \in DOMAIN stack : Last(stack) = stack[j]
    BY <1>2, <1>10, Frames DEF ScriptAwaits, TypeOK
  <2>3. StackFrom(Awaiting(Last(stack).msg, id)) /\ Awaiting(Last(stack).msg, id) \in Frame
    <3>1. Awaiting(Last(stack).msg, id) \in Frame
      BY <2>2, Frames
    <3>2. /\ Awaiting(Last(stack).msg, id).at = "await"
          /\ Awaiting(Last(stack).msg, id).msg = Last(stack).msg
      BY DEF Awaiting
    <3> QED BY <2>2, <3>1, <3>2 DEF StackFrom
  <2> QED BY <1>2, <1>10, <2>1, <2>3, Grown DEF ScriptAwaits
<1>11. CASE Worker
    BY <1>1, <1>3, <1>4, <1>5, <1>6, <1>7, <1>8, <1>9, <1>10, <1>11
       DEF Worker, MainGlobal, MainReset, MainStop, BeamCall, AwaitGlobal, AwaitDrops, worker
<1> HIDE DEF Goal
<1>12. CASE [Next]_vars /\ ~Worker
  <2>1. UNCHANGED stack
    BY <1>12
       DEF Next, vars, worker, Shutdown, ShutdownFlag, ShutdownWake, ShutdownStop, ShutdownJoin,
           Terminate, Kill, Call, HandleCall, HandleReply, HandleBeamCall, DrainBeamCall, TaskEnds,
           HostStart, HostSend, HostReturn
  <2> QED BY <1>1, <2>1 DEF Goal
<1> QED BY <1>11, <1>12 DEF Goal

(* New calls carry the number and the context of their promise, or the number *)
(* of the frame that sends them.                                              *)
CallFrom(call) ==
    \/ call \in beamCalls \cup tasks
    \/ BeamCall /\ call = [id |-> nextId, context |-> resets, sync |-> FALSE]
    \/ CallSyncSend /\ call = [id |-> Last(stack).id, context |-> resets, sync |-> TRUE]

LEMMA CallsCome ==
    ASSUME [Next]_vars
    PROVE  \A call \in beamCalls' \cup tasks' : CallFrom(call)
<1>1. CASE UNCHANGED <<beamCalls, tasks>>
    BY <1>1 DEF CallFrom
<1>2. CASE BeamCall
    BY <1>2 DEF BeamCall, SendBeamCall, CallFrom
<1>3. CASE CallSyncSend
    BY <1>3 DEF CallSyncSend, SendBeamCall, CallFrom
<1>4. CASE Worker
    BY <1>1, <1>2, <1>3, <1>4
       DEF Worker, MainRequest, MainGlobal, MainReset, MainSync, MainResolve, MainStop,
           CallSync, CallSyncReturn, ScriptReturns, ScriptAwaits,
           AwaitEnds, AwaitGlobal, AwaitSync, AwaitResolve, AwaitDrops, AwaitStop, elixir
<1>5. CASE Shutdown \/ Terminate \/ Kill
    BY <1>5 DEF Shutdown, ShutdownFlag, ShutdownWake, ShutdownStop, ShutdownJoin, Gone,
                Terminate, Kill, elixir, CallFrom
<1>6. ASSUME NEW call \in beamCalls, HandleBeamCall(call) \/ DrainBeamCall(call)
      PROVE  beamCalls' \cup tasks' \subseteq beamCalls \cup tasks
    BY <1>6 DEF HandleBeamCall, DrainBeamCall, Gone
<1>7. ASSUME NEW call \in tasks, TaskEnds(call)
      PROVE  beamCalls' \cup tasks' \subseteq beamCalls \cup tasks
    BY <1>7 DEF TaskEnds
<1> QED BY <1>1, <1>4, <1>5, <1>6, <1>7
        DEF Next, vars, elixir, Call, HandleCall, HandleReply, HostStart, HostSend, HostReturn, CallFrom

LEMMA PendingComes ==
    ASSUME TypeOK, [Next]_vars
    PROVE  /\ nextId \in Nat /\ nextId' \in {nextId, nextId + 1}
           /\ BeamCall \/ CallSync => nextId' = nextId + 1
           /\ \A id \in DOMAIN pending' :
                 \/ id \in DOMAIN pending /\ pending'[id] = pending[id]
                 \/ BeamCall /\ id = nextId /\ pending'[id] = resets
<1>0. nextId \in Nat
    BY WorkerAssumption DEF TypeOK
<1>1. CASE UNCHANGED <<pending, nextId>> /\ ~BeamCall /\ ~CallSync
    BY <1>0, <1>1
<1>2. CASE BeamCall
    BY <1>0, <1>2 DEF BeamCall
<1>3. CASE CallSync
    BY <1>0, <1>3 DEF CallSync
<1>4. CASE MainReset
    BY <1>0, <1>4 DEF MainReset, DoReset, BeamCall, CallSync, MainLoop, Innermost
<1>5. CASE MainResolve \/ AwaitResolve
  <2>1. /\ DOMAIN pending' \subseteq DOMAIN pending
        /\ \A i \in DOMAIN pending' : pending'[i] = pending[i]
    BY <1>5, ContinuedTypes DEF MainResolve, AwaitResolve
  <2>2. UNCHANGED nextId
    BY <1>5 DEF MainResolve, AwaitResolve
  <2> QED BY <1>0, <1>2, <1>3, <2>1, <2>2
<1>6. CASE Worker
  <2>1. CASE UNCHANGED <<pending, nextId>>
    BY <1>0, <1>2, <1>3, <2>1
  <2> QED BY <1>2, <1>3, <1>4, <1>5, <1>6, <2>1
       DEF Worker, MainRequest, MainGlobal, MainSync, MainStop,
           CallSyncSend, CallSyncReturn, ScriptReturns, ScriptAwaits,
           AwaitEnds, AwaitGlobal, AwaitSync, AwaitDrops, AwaitStop, worker
<1>7. CASE ~Worker
  <2>1. UNCHANGED worker
    BY <1>7
       DEF Next, vars, Shutdown, ShutdownFlag, ShutdownWake, ShutdownStop, ShutdownJoin,
           Terminate, Kill, Call, HandleCall, HandleReply, HandleBeamCall, DrainBeamCall, TaskEnds,
           HostStart, HostSend, HostReturn
  <2> QED BY <1>1, <1>7, <2>1 DEF worker, Worker
<1> QED BY <1>6, <1>7

LEMMA CallsStep == ASSUME TypeOK, CallsSound, [Next]_vars PROVE CallsSound'
<1>1. \A m : m.id \in CallId /\ Ours(m) =>
              /\ m.id < nextId'
              /\ m.id \in DOMAIN pending' => pending'[m.id] = m.context
    BY PendingComes DEF Ours, CallId
<1>2. \A id \in DOMAIN pending' : id < nextId'
    BY PendingComes DEF CallsSound, TypeOK, CallId
<1>3. \A call \in beamCalls \cup tasks : call.id \in CallId /\ Ours(call)
    BY DEF CallsSound, TypeOK, BeamCallMsg
<1>4. ASSUME NEW call \in beamCalls' \cup tasks'
      PROVE  /\ call.id < nextId'
             /\ call.id \in DOMAIN pending' => pending'[call.id] = call.context
  <2>1. CASE call \in beamCalls \cup tasks
    BY <1>1, <1>3, <2>1
  <2>2. CASE BeamCall /\ call = [id |-> nextId, context |-> resets, sync |-> FALSE]
    <3>1. nextId \in Nat /\ nextId' = nextId + 1 /\ nextId \in DOMAIN pending' /\ pending'[nextId] = resets
      BY <2>2, PendingComes DEF BeamCall
    <3> QED BY <2>2, <3>1
  <2>3. CASE CallSyncSend /\ call = [id |-> Last(stack).id, context |-> resets, sync |-> TRUE]
    <3>1. Syncs(Last(stack))
      BY <2>3, Top DEF CallSyncSend, Innermost, CallsSound
    <3>2. UNCHANGED <<pending, nextId>>
      BY <2>3 DEF CallSyncSend
    <3> QED BY <2>3, <3>1, <3>2 DEF Syncs
  <2> QED BY <2>1, <2>2, <2>3, CallsCome DEF CallFrom
<1>5. ASSUME NEW i \in DOMAIN queue', queue'[i].type = "resolve"
      PROVE  /\ queue'[i].id < nextId'
             /\ queue'[i].id \in DOMAIN pending' => pending'[queue'[i].id] = queue'[i].context
  <2>1. QueueFrom(queue'[i])
    BY QueueComes
  <2>2. ASSUME NEW j \in DOMAIN queue, queue'[i] = queue[j]
        PROVE  queue'[i].id \in CallId /\ Ours(queue'[i])
    <3>1. queue[j] \in Message
      BY ElementOfSeq, LenProperties DEF TypeOK
    <3> QED BY <1>5, <2>2, <3>1, Messages DEF CallsSound
  <2>3. ASSUME NEW call \in beamCalls \cup tasks, queue'[i] = Resolve(call)
        PROVE  queue'[i].id \in CallId /\ Ours(queue'[i])
    BY <1>3, <2>3 DEF Resolve, Ours
  <2>4. ASSUME NEW h, queue'[i] = HostCall(h, host[h].id) PROVE FALSE
    BY <1>5, <2>4 DEF HostCall
  <2> QED BY <1>1, <1>5, <2>1, <2>2, <2>3, <2>4 DEF QueueFrom
<1>6. ASSUME NEW f, f.id \in CallId, Syncs(f)
      PROVE  /\ f.id < nextId' /\ f.id \notin DOMAIN pending'
             /\ \A call \in beamCalls' \cup tasks' : call.id = f.id => call.sync
  <2>1. f.id < nextId' /\ f.id \notin DOMAIN pending'
    BY <1>6, PendingComes DEF Syncs, CallId
  <2>2. ASSUME NEW call \in beamCalls' \cup tasks', call.id = f.id PROVE call.sync
    BY <1>6, <2>2, CallsCome, PendingComes DEF CallFrom, Syncs, CallId
  <2> QED BY <2>1, <2>2
<1>7. ASSUME NEW i \in DOMAIN stack', stack'[i].at \in {"putting", "parked"}
      PROVE  /\ stack'[i].id < nextId' /\ stack'[i].id \notin DOMAIN pending'
             /\ \A call \in beamCalls' \cup tasks' : call.id = stack'[i].id => call.sync
  <2>1. StackFrom(stack'[i])
    BY StackComes
  <2>2. ASSUME NEW j \in DOMAIN stack, stack[j].at \in {"putting", "parked"},
               stack'[i].id = stack[j].id
        PROVE  stack'[i].id \in CallId /\ Syncs(stack[j])
    <3>1. stack[j] \in Frame
      BY ElementOfSeq, LenProperties DEF TypeOK
    <3> QED BY <2>2, <3>1, Frames DEF CallsSound
  <2>3. CASE stack'[i].id = nextId /\ CallSync
    <3>1. nextId' = nextId + 1 /\ UNCHANGED <<pending, beamCalls, tasks>>
      BY <2>3 DEF CallSync, elixir
    <3>2. \A call \in beamCalls \cup tasks : call.id # nextId
      BY <1>3, PendingComes DEF Ours, CallId
    <3>3. nextId \notin DOMAIN pending
      BY PendingComes DEF CallsSound
    <3> QED BY <2>3, <3>1, <3>2, <3>3, PendingComes
  <2> QED BY <1>6, <1>7, <2>1, <2>2, <2>3 DEF StackFrom
<1> QED BY <1>2, <1>4, <1>5, <1>7 DEF CallsSound, Ours, Syncs
-----------------------------------------------------------------------------
LEMMA HostComes ==
    ASSUME TypeOK, [Next]_vars
    PROVE  \/ UNCHANGED host
           \/ \E h \in Host : HostStart(h)
           \/ \E h \in Host : (HostSend(h) \/ HostReturn(h))
BY DEF Next, vars, Worker, MainRequest, MainGlobal, MainReset, MainSync, MainResolve, MainStop,
       BeamCall, CallSync, CallSyncSend, CallSyncReturn, ScriptReturns, ScriptAwaits,
       AwaitEnds, AwaitGlobal, AwaitSync, AwaitResolve, AwaitDrops, AwaitStop,
       Shutdown, ShutdownFlag, ShutdownWake, ShutdownStop, ShutdownJoin, Terminate, Kill,
       Call, HandleCall, HandleReply, HandleBeamCall, DrainBeamCall, TaskEnds

LEMMA StartedKept ==
    ASSUME TypeOK, HostsSound, [Next]_vars
    PROVE  /\ \A h \in Started : h \in Started' /\ host'[h].id = host[h].id
           /\ \A h \in Started' : host'[h].id < HostBase + Cardinality(Started')
           /\ \A g, h \in Started' : host'[g].id = host'[h].id => g = h
<1>0. host \in [Host -> [pc : {"idle", "putting", "parked", "done"}, id : HostId]]
    BY DEF TypeOK
<1>1. CASE UNCHANGED host
    BY <1>1 DEF Started, HostsSound
<1>2. ASSUME NEW h \in Host, HostSend(h) \/ HostReturn(h)
      PROVE  Started' = Started /\ \A g \in Started : host'[g].id = host[g].id
    BY <1>0, <1>2 DEF HostSend, HostReturn, Started
<1>3. ASSUME NEW h \in Host, HostStart(h)
      PROVE  /\ \A g \in Started : g \in Started' /\ host'[g].id = host[g].id
             /\ \A g \in Started' : host'[g].id < HostBase + Cardinality(Started')
             /\ \A f, g \in Started' : host'[f].id = host'[g].id => f = g
  <2> DEFINE new == HostBase + Cardinality(Started)
  <2>1. /\ h \notin Started
        /\ host' = [host EXCEPT ![h] = [pc |-> "putting", id |-> new]]
    BY <1>3 DEF HostStart, Started
  <2>2. new \in Nat
    BY StartedCount, WorkerAssumption
  <2>3. \A g \in Started : host[g].id < new /\ host[g].id \in Nat
    BY <1>0, WorkerAssumption, StartedCount DEF HostsSound, Started, HostId
  <2>4. Started' = Started \cup {h}
    BY <1>0, <2>1 DEF Started
  <2>5. Cardinality(Started') = Cardinality(Started) + 1
    BY <2>1, <2>4, StartedCount, FS_AddElement
  <2>6. HostBase + Cardinality(Started') = new + 1
    BY <2>5, StartedCount, WorkerAssumption
  <2>7. Started \subseteq Host
    BY DEF Started
  <2> HIDE DEF new
  <2>8. host'[h].id = new /\ \A g \in Started : host'[g].id = host[g].id
    BY <1>0, <2>1, <2>7
  <2> QED BY <2>2, <2>3, <2>4, <2>6, <2>8 DEF HostsSound
<1> QED BY <1>1, <1>2, <1>3, HostComes DEF HostsSound

LEMMA HostsStep == ASSUME TypeOK, HostsSound, [Next]_vars PROVE HostsSound'
<1>1. \A m : Made(m) => (m.type = "sync" => m.by \in Started' /\ host'[m.by].id = m.id)
    BY StartedKept DEF Made
<1>2. ASSUME NEW m, QueueFrom(m) PROVE Made(m)
  <2>1. ASSUME NEW call, m = Resolve(call) PROVE m.type # "sync"
    BY <2>1 DEF Resolve
  <2>2. ASSUME NEW h \in Started, m = HostCall(h, host[h].id) PROVE Made(m)
    BY <2>2 DEF HostCall, Made
  <2> QED BY <1>2, <2>1, <2>2 DEF QueueFrom, HostsSound, Made
<1>3. ASSUME NEW f, StackFrom(f), f.at \in {"js", "await"} PROVE Made(f.msg)
    BY <1>3 DEF StackFrom, HostsSound, Made, Continuation
<1>4. ASSUME NEW i \in DOMAIN queue', queue'[i].type = "sync"
      PROVE  queue'[i].by \in Started' /\ host'[queue'[i].by].id = queue'[i].id
    BY <1>1, <1>2, <1>4, QueueComes
<1>5. ASSUME NEW i \in DOMAIN stack', stack'[i].at \in {"js", "await"}, stack'[i].msg.type = "sync"
      PROVE  /\ stack'[i].msg.by \in Started'
             /\ host'[stack'[i].msg.by].id = stack'[i].msg.id
    BY <1>1, <1>3, <1>5, StackComes
<1> QED BY <1>4, <1>5, StartedKept DEF HostsSound, Made
-----------------------------------------------------------------------------
(* The slot of id is a thread's that waits. *)
HostSlot(id) == /\ slots[id] \in Host
                /\ host[slots[id]].pc \in {"putting", "parked"} /\ host[slots[id]].id = id
JsWaits == Innermost("putting") \/ Innermost("parked")

LEMMA SlotsOfHosts ==
    ASSUME TypeOK, SlotsOnStack
    PROVE  \A id \in DOMAIN slots : HostSlot(id) \/ (slots[id] = Js /\ JsWaits /\ Last(stack).id = id)
BY DEF SlotsOnStack, HostSlot, JsWaits

LEMMA SlotsStep == ASSUME TypeOK, SlotsOnStack, [Next]_vars PROVE SlotsOnStack'
<1>0. /\ \A id \in DOMAIN slots : HostSlot(id) \/ (slots[id] = Js /\ JsWaits /\ Last(stack).id = id)
      /\ host \in [Host -> [pc : {"idle", "putting", "parked", "done"}, id : HostId]]
      /\ Js \notin Host
    BY SlotsOfHosts, WorkerAssumption DEF TypeOK
<1>1. CASE UNCHANGED <<stack, slots, host>>
    BY <1>1 DEF SlotsOnStack, Innermost
<1>2. CASE UNCHANGED <<slots, host>> /\ ~JsWaits
    BY <1>0, <1>2 DEF SlotsOnStack, HostSlot
<1>3. CASE CallSync
  <2>1. ~JsWaits /\ slots' = Slotted(nextId, Js) /\ UNCHANGED host
    BY <1>3 DEF CallSync, JsWaits, Innermost
  <2>2. Parking("putting", nextId) \in Frame
    BY <1>3, Frames DEF CallSync
  <2>3. stack' # << >> /\ Last(stack') = Parking("putting", nextId)
    BY <1>3, <2>2, Pushed DEF CallSync, TypeOK
  <2>4. Innermost("putting")' /\ Last(stack').id = nextId
    BY <2>3 DEF Innermost, Parking
  <2> QED BY <1>0, <2>1, <2>4 DEF SlotsOnStack, HostSlot, Slotted
<1>4. ASSUME slots' = Unslotted(Last(stack).id), UNCHANGED host PROVE SlotsOnStack'
    BY <1>0, <1>4 DEF SlotsOnStack, HostSlot, Unslotted
<1>5. ASSUME CallSyncSend, UNCHANGED slots, stack' = Append(Outer, Parking("parked", Last(stack).id))
      PROVE  SlotsOnStack'
  <2>1. Outer \in Seq(Frame) /\ Parking("parked", Last(stack).id) \in Frame
    BY <1>5, Top, Frames DEF CallSyncSend, Innermost
  <2>2. stack' # << >> /\ Last(stack') = Parking("parked", Last(stack).id)
    BY <1>5, <2>1, Pushed
  <2>3. Innermost("parked")' /\ Last(stack').id = Last(stack).id
    BY <2>2 DEF Innermost, Parking
  <2>4. UNCHANGED host
    BY <1>5 DEF CallSyncSend
  <2> QED BY <1>0, <1>5, <2>3, <2>4 DEF SlotsOnStack, HostSlot
<1>6. CASE CallSyncSend \/ CallSyncReturn
    BY <1>4, <1>5, <1>6 DEF CallSyncSend, CallSyncReturn
<1>7. CASE Worker
  <2>1. CASE JsWaits
    BY <1>6, <1>7, <2>1
       DEF Worker, MainRequest, MainGlobal, MainReset, MainSync, MainResolve, MainStop, MainLoop,
           BeamCall, CallSync, ScriptReturns, ScriptAwaits, JsWaits, Innermost,
           AwaitEnds, AwaitGlobal, AwaitSync, AwaitResolve, AwaitDrops, AwaitStop, AwaitTakes
  <2>2. CASE ~JsWaits
    BY <1>2, <1>3, <1>6, <1>7, <2>2
       DEF Worker, MainRequest, MainGlobal, MainReset, MainSync, MainResolve, MainStop,
           BeamCall, ScriptReturns, ScriptAwaits,
           AwaitEnds, AwaitGlobal, AwaitSync, AwaitResolve, AwaitDrops, AwaitStop
  <2> QED BY <2>1, <2>2
<1>8. ASSUME NEW h \in Host, HostStart(h) PROVE SlotsOnStack'
  <2> DEFINE new == HostBase + Cardinality(Started)
  <2>1. /\ host[h].pc = "idle"
        /\ host' = [host EXCEPT ![h] = [pc |-> "putting", id |-> new]]
        /\ slots' = Slotted(new, h) /\ UNCHANGED stack
    BY <1>8 DEF HostStart, Started, worker
  <2> HIDE DEF new
  <2> QED BY <1>0, <2>1 DEF SlotsOnStack, HostSlot, Slotted, JsWaits, Innermost
<1>9. ASSUME NEW h \in Host, HostSend(h) PROVE SlotsOnStack'
  <2>1. UNCHANGED <<slots, stack>> /\ host' = [host EXCEPT ![h].pc = "parked"]
    BY <1>9 DEF HostSend, worker
  <2> QED BY <1>0, <2>1 DEF SlotsOnStack, HostSlot, JsWaits, Innermost
<1>10. ASSUME NEW h \in Host, HostReturn(h) PROVE SlotsOnStack'
  <2>1. /\ UNCHANGED stack /\ host' = [host EXCEPT ![h].pc = "done"]
        /\ slots' = Unslotted(host[h].id)
    BY <1>10 DEF HostReturn, worker
  <2> QED BY <1>0, <2>1 DEF SlotsOnStack, HostSlot, JsWaits, Innermost, Unslotted
<1> QED BY <1>1, <1>7, <1>8, <1>9, <1>10
        DEF Next, vars, worker, Shutdown, ShutdownFlag, ShutdownWake, ShutdownStop, ShutdownJoin,
            Terminate, Kill, Call, HandleCall, HandleReply, HandleBeamCall, DrainBeamCall, TaskEnds
-----------------------------------------------------------------------------
(* The numbers of a runtime's own calls and host_call_id do not meet. *)
Apart == HostBase > MaxCalls

(* Whoever waits on a slot gets what was computed for its call. *)
LEMMA CompletesOwn ==
    ASSUME TypeOK, HostsSound, SlotsOnStack, OwnResult,
           Innermost("js") \/ Innermost("await"), Complete(Last(stack).msg)
    PROVE  OwnResult'
<1> DEFINE msg == Last(stack).msg
<1>1. CASE UNCHANGED event
    BY <1>1 DEF OwnResult
<1>2. CASE HostWaits(msg) /\ Signal(msg.id, TRUE, msg.by)
  <2>1. msg.type = "sync" /\ msg.id \in DOMAIN slots /\ ~JsWaits
    BY <1>2 DEF HostWaits, JsWaits, Innermost
  <2>2. /\ slots[msg.id] \in Host /\ slots[msg.id] \in Started
        /\ host[slots[msg.id]].id = msg.id
    BY <2>1, SlotsOfHosts DEF HostSlot, Started
  <2>3. msg.by \in Started /\ host[msg.by].id = msg.id
    BY <2>1, Top DEF HostsSound, Made, Innermost
  <2>4. slots[msg.id] = msg.by
    BY <2>2, <2>3 DEF HostsSound
  <2>5. event' = [event EXCEPT ![slots[msg.id]] = "own"]
    BY <1>2, <2>4 DEF Signal
  <2> QED BY <2>5 DEF OwnResult, TypeOK
<1> QED BY <1>1, <1>2 DEF Complete

LEMMA ResolvesOwn ==
    ASSUME Apart, TypeOK, CallsSound, SlotsOnStack, OwnResult,
           NEW call \in beamCalls \cup tasks, ResolveCall(call)
    PROVE  OwnResult'
<1>1. CASE UNCHANGED event
    BY <1>1 DEF OwnResult
<1>2. CASE call.id \in DOMAIN slots /\ Signal(call.id, call.sync, Js)
  <2>1. call.id \in CallId
    BY DEF TypeOK, BeamCallMsg
  <2>2. ~HostSlot(call.id)
    <3>1. \A h \in Host : host[h].id \in HostId
      BY DEF TypeOK
    <3>2. HostId \cap CallId = {}
      BY StartedCount, WorkerAssumption DEF Apart, HostId, CallId
    <3> QED BY <2>1, <3>1, <3>2 DEF HostSlot
  <2>3. slots[call.id] = Js /\ JsWaits /\ Last(stack).id = call.id
    BY <1>2, <2>2, SlotsOfHosts
  <2>4. Syncs(Last(stack))
    BY <2>3, Top DEF JsWaits, Innermost, CallsSound
  <2>5. call.sync
    BY <2>3, <2>4 DEF Syncs
  <2>6. event' = [event EXCEPT ![Js] = "own"]
    BY <1>2, <2>3, <2>5 DEF Signal
  <2> QED BY <2>6 DEF OwnResult, TypeOK
<1> QED BY <1>1, <1>2 DEF ResolveCall

LEMMA ResultStep ==
    ASSUME Apart, TypeOK, CallsSound, HostsSound, SlotsOnStack, OwnResult, [Next]_vars
    PROVE  OwnResult'
<1>1. CASE UNCHANGED event
    BY <1>1 DEF OwnResult
<1>2. CASE CallSync
    BY <1>2 DEF CallSync, OwnResult, TypeOK
<1>3. ASSUME NEW h \in Host, HostStart(h) PROVE OwnResult'
    BY <1>3 DEF HostStart, OwnResult, TypeOK
<1>4. CASE ShutdownWake
    BY <1>4 DEF ShutdownWake, OwnResult, TypeOK
<1>5. CASE ScriptReturns \/ AwaitEnds \/ AwaitStop
    BY <1>5, CompletesOwn DEF ScriptReturns, AwaitEnds, AwaitStop, AwaitTakes
<1>6. ASSUME NEW call \in beamCalls \cup tasks, ResolveCall(call) PROVE OwnResult'
    BY <1>6, ResolvesOwn
<1>7. CASE Worker
    BY <1>1, <1>2, <1>5, <1>7
       DEF Worker, MainRequest, MainGlobal, MainReset, MainSync, MainResolve, MainStop,
           BeamCall, CallSyncSend, CallSyncReturn, ScriptAwaits,
           AwaitGlobal, AwaitSync, AwaitResolve, AwaitDrops
<1> QED BY <1>1, <1>3, <1>4, <1>6, <1>7
        DEF Next, vars, Shutdown, ShutdownFlag, ShutdownStop, ShutdownJoin, Terminate, Kill,
            Call, HandleCall, HandleReply, HandleBeamCall, DrainBeamCall, TaskEnds,
            HostSend, HostReturn
-----------------------------------------------------------------------------
LEMMA Initially ==
    ASSUME Init PROVE TypeOK /\ CallsSound /\ HostsSound /\ SlotsOnStack /\ OwnResult
<1>1. HostBase \in HostId /\ nextId \in 1..(MaxCalls + 1)
    BY StartedCount, WorkerAssumption DEF Init, HostId
<1>2. TypeOK
  <2>1. << >> \in Seq(Message) /\ << >> \in Seq(Frame)
    BY EmptySeq
  <2>2. DOMAIN pending = {} /\ DOMAIN slots = {}
    BY DEF Init
  <2>3. event \in Event /\ host \in [Host -> [pc : {"idle", "putting", "parked", "done"}, id : HostId]]
    BY <1>1 DEF Init, Event
  <2>4. caller \in [Caller -> [pc : {"idle", "calling", "pending"}, kind : Kind \cup {"eval"}]]
    BY DEF Init
  <2>5. queue \in Seq(Message) /\ stack \in Seq(Frame) /\ resets \in Nat /\ exited \in BOOLEAN
    BY <2>1 DEF Init
  <2>6. server = "up" /\ lifecycle = "running" /\ replies = {} /\ beamCalls = {} /\ tasks = {}
    BY DEF Init
  <2> QED BY <1>1, <2>2, <2>3, <2>4, <2>5, <2>6 DEF TypeOK, Event
<1>3. Started = {}
    BY DEF Init, Started
<1>4. CallsSound /\ HostsSound /\ SlotsOnStack /\ OwnResult
    BY <1>3 DEF Init, CallsSound, HostsSound, SlotsOnStack, OwnResult
<1> QED BY <1>2, <1>4

(* A resolve message, or an answer on its way, that carries the number of a   *)
(* pending promise was made in the promise's own context: do_reset clears     *)
(* pending_calls and the numbers go on, so a late one settles nothing.        *)
THEOREM ContextOwned == Spec => []ResolvesOwnContext
<1>1. ASSUME TypeOK, CallsSound PROVE ResolvesOwnContext
    BY <1>1 DEF CallsSound, Ours, ResolvesOwnContext
<1> QED BY <1>1, Initially, TypeStep, CallsStep, PTL DEF Spec

(* While host_call_id is past the numbers of the runtime's own calls, the     *)
(* slots are those of threads inside their call, and each is signalled with   *)
(* the result of that call or by the shutdown.                                *)
THEOREM SlotsOwned == ASSUME Apart PROVE Spec => []SlotsExact
<1> DEFINE IInv == TypeOK /\ CallsSound /\ HostsSound /\ SlotsOnStack /\ OwnResult
<1>1. Init => IInv
    BY Initially
<1>2. ASSUME IInv, [Next]_vars PROVE IInv'
    BY Apart, <1>2, TypeStep, CallsStep, HostsStep, SlotsStep, ResultStep
<1>3. IInv => SlotsExact
    BY DEF SlotsExact
<1> QED BY <1>1, <1>2, <1>3, PTL DEF Spec
-----------------------------------------------------------------------------
(* The requests of a caller, the frames that work on one, and what it means   *)
(* that its request is on its way, in one place only.                         *)
Of(c) == {m \in Message : m.type = "request" /\ m.from = c}
Works(c) == {f \in Frame : f.at \in {"js", "await"} /\ f.msg \in Of(c)}

OnItsWay(c) == Has(stack, Works(c)) \/ Has(queue, Of(c)) \/ c \in replies
Alone(c) ==
    /\ Once(stack, Works(c)) /\ Once(queue, Of(c))
    /\ ~(Has(stack, Works(c)) /\ Has(queue, Of(c)))
    /\ c \in replies => ~Has(stack, Works(c)) /\ ~Has(queue, Of(c))
    /\ OnItsWay(c) => caller[c].pc = "pending"

LEMMA Belongs ==
    ASSUME NEW c \in Caller
    PROVE  /\ \A m \in Message \cup {Continuation} :
                 /\ m \in Of(c) <=> m.type = "request" /\ m.from = c
                 /\ Running(m) \in Works(c) <=> m \in Of(c)
           /\ \A m \in Message, id \in CallId : Awaiting(m, id) \in Works(c) <=> m \in Of(c)
           /\ \A at \in {"putting", "parked"}, id \in CallId : Parking(at, id) \notin Works(c)
           /\ \A f \in Frame : f \in Works(c) <=> f.at \in {"js", "await"} /\ f.msg \in Of(c)
           /\ \A call : Resolve(call) \notin Of(c)
           /\ \A h, id : HostCall(h, id) \notin Of(c)
           /\ Stop \notin Of(c)
           /\ \A d \in Caller, kind \in Kind \cup {"eval"} : Request(d, kind) \in Of(c) <=> d = c
<1>1. \A m \in Message \cup {Continuation} : m \in Of(c) <=> m.type = "request" /\ m.from = c
    BY DEF Of, Continuation
<1>2. \A m \in Message \cup {Continuation} : Running(m) \in Works(c) <=> m \in Of(c)
    BY Frames DEF Works, Running
<1>3. \A m \in Message, id \in CallId : Awaiting(m, id) \in Works(c) <=> m \in Of(c)
    BY Frames DEF Works, Awaiting
<1>4. \A at \in {"putting", "parked"}, id \in CallId : Parking(at, id) \notin Works(c)
    BY DEF Works, Parking
<1>5. \A f \in Frame : f \in Works(c) <=> f.at \in {"js", "await"} /\ f.msg \in Of(c)
    BY DEF Works
<1>6. \A call : Resolve(call) \notin Of(c)
    BY DEF Of, Resolve
<1>7. \A h, id : HostCall(h, id) \notin Of(c)
    BY DEF Of, HostCall
<1>8. Stop \notin Of(c)
    BY DEF Of, Stop
<1>9. \A d \in Caller, kind \in Kind \cup {"eval"} : Request(d, kind) \in Of(c) <=> d = c
    BY Messages DEF Of, Request
<1> QED BY <1>1, <1>2, <1>3, <1>4, <1>5, <1>6, <1>7, <1>8, <1>9

LEMMA Answered ==
    ASSUME NEW c \in Caller, server # "gone", NEW msg \in Message \cup {Continuation},
           Complete(msg)
    PROVE  c \in replies' <=> c \in replies \/ msg \in Of(c)
<1>1. CASE msg.type = "request" /\ Answer(msg.from)
    BY <1>1, Belongs DEF Answer
<1>2. CASE msg.type # "request" /\ UNCHANGED replies
    BY <1>2, Belongs
<1> QED BY <1>1, <1>2 DEF Complete, HostWaits

(* What a step takes from the queue, puts in it, pushes and pops.             *)
LEMMA Taken ==
    ASSUME TypeOK, NEW type, Receive(type), NEW c \in Caller
    PROVE  /\ Has(queue, Of(c)) <=> Head(queue) \in Of(c) \/ Has(queue', Of(c))
           /\ Once(queue, Of(c)) <=>
                 Once(queue', Of(c)) /\ ~(Head(queue) \in Of(c) /\ Has(queue', Of(c)))
           /\ Head(queue) \in Message /\ Head(queue).type = type
           /\ Head(queue) \in Of(c) <=> type = "request" /\ Head(queue).from = c
<1>1. queue \in Seq(Message) /\ queue # << >> /\ queue' = Tail(queue) BY DEF TypeOK, Receive
<1> QED BY <1>1, OfPopped, Received, Belongs

LEMMA Put ==
    ASSUME TypeOK, NEW m \in Message, Enqueue(m), NEW c \in Caller
    PROVE  /\ Has(queue', Of(c)) <=> Has(queue, Of(c)) \/ m \in Of(c)
           /\ Once(queue', Of(c)) <=> Once(queue, Of(c)) /\ ~(m \in Of(c) /\ Has(queue, Of(c)))
<1>1. queue \in Seq(Message) /\ queue' = Append(queue, m) BY DEF TypeOK, Enqueue
<1> QED BY <1>1, OfPushed

LEMMA Entered ==
    ASSUME TypeOK, NEW f \in Frame, NEW st \in Seq(Frame), stack' = Append(st, f), NEW c \in Caller
    PROVE  /\ Has(stack', Works(c)) <=> Has(st, Works(c)) \/ f \in Works(c)
           /\ Once(stack', Works(c)) <=> Once(st, Works(c)) /\ ~(f \in Works(c) /\ Has(st, Works(c)))
BY OfPushed

LEMMA Topmost ==
    ASSUME TypeOK, NEW at, Innermost(at), NEW c \in Caller
    PROVE  /\ Last(stack) \in Frame /\ Last(stack).at = at /\ Outer \in Seq(Frame)
           /\ Has(stack, Works(c)) <=> Last(stack) \in Works(c) \/ Has(Outer, Works(c))
           /\ Once(stack, Works(c)) <=>
                 Once(Outer, Works(c)) /\ ~(Last(stack) \in Works(c) /\ Has(Outer, Works(c)))
           /\ Last(stack) \in Works(c) <=> at \in {"js", "await"} /\ Last(stack).msg \in Of(c)
<1>1. stack \in Seq(Frame) /\ stack # << >> /\ Last(stack).at = at BY DEF TypeOK, Innermost
<1> QED BY <1>1, OfUnstacked, Top, Belongs DEF Outer

LEMMA Resolved ==
    ASSUME TypeOK, NEW call \in BeamCallMsg, ResolveCall(call), NEW c \in Caller
    PROVE  /\ Has(queue', Of(c)) <=> Has(queue, Of(c))
           /\ Once(queue', Of(c)) <=> Once(queue, Of(c))
<1>1. CASE UNCHANGED queue BY <1>1
<1>2. CASE Enqueue(Resolve(call))
  <2>1. Resolve(call) \in Message BY Messages
  <2> QED BY <1>2, <2>1, Put, Belongs
<1> QED BY <1>1, <1>2 DEF ResolveCall

LEMMA Continued ==
    ASSUME TypeOK, NEW id, ResolvePending(id), NEW c \in Caller
    PROVE  /\ Has(stack', Works(c)) <=> Has(stack, Works(c))
           /\ Once(stack', Works(c)) <=> Once(stack, Works(c))
<1>1. CASE UNCHANGED stack BY <1>1
<1>2. CASE stack' = Append(stack, Running(Continuation))
  <2>1. Running(Continuation) \in Frame /\ stack \in Seq(Frame) BY Frames DEF TypeOK
  <2>2. Running(Continuation) \notin Works(c)
    BY Belongs DEF Continuation
  <2> QED BY <1>2, <2>1, <2>2, Entered
<1> QED BY <1>1, <1>2 DEF ResolvePending
-----------------------------------------------------------------------------
(* Every step keeps a request in one place, and only the await loses one.     *)
Placed(c) == caller[c].pc = "pending" => OnItsWay(c)
Follows(c) == Alone(c)' /\ (Placed(c) => Placed(c)')

LEMMA MainFollows ==
    ASSUME TypeOK, NEW c \in Caller, server # "gone", Alone(c),
           MainRequest \/ MainGlobal \/ MainReset \/ MainSync \/ MainResolve \/ MainStop
    PROVE  Follows(c)
<1>0. stack = << >> /\ stack \in Seq(Frame) /\ ~Has(stack, Works(c)) /\ Once(stack, Works(c))
  <2>1. stack = << >> /\ stack \in Seq(Frame)
    BY DEF MainRequest, MainGlobal, MainReset, MainSync, MainResolve, MainStop, MainLoop, TypeOK
  <2> QED BY <2>1, OfNone
<1>1. CASE MainRequest \/ MainSync
  <2>1. \E type \in {"request", "sync"} : Receive(type)
    BY <1>1 DEF MainRequest, MainSync
  <2>2. Head(queue) \in Message
    BY <2>1, Taken
  <2>3. /\ Running(Head(queue)) \in Frame
        /\ Running(Head(queue)) \in Works(c) <=> Head(queue) \in Of(c)
    BY <2>2, Frames, Belongs
  <2>4. stack' = Append(stack, Running(Head(queue)))
    <3>1. stack' = << Running(Head(queue)) >> BY <1>1 DEF MainRequest, MainSync
    <3> QED BY <1>0, <3>1
  <2>5. /\ Has(stack', Works(c)) <=> Head(queue) \in Of(c)
        /\ Once(stack', Works(c))
    BY <1>0, <2>3, <2>4, Entered
  <2>6. UNCHANGED <<replies, caller>>
    BY <1>1 DEF MainRequest, MainSync, elixir
  <2> QED BY <1>0, <2>1, <2>5, <2>6, Taken DEF Follows, Placed, Alone, OnItsWay
<1>2. CASE MainGlobal \/ MainReset
  <2>1. Receive("request") /\ Answer(Head(queue).from) /\ UNCHANGED <<stack, caller>>
    BY <1>2 DEF MainGlobal, MainReset, worker
  <2>2. c \in replies' <=> c \in replies \/ Head(queue) \in Of(c)
    BY <2>1, Taken DEF Answer
  <2> QED BY <1>0, <2>1, <2>2, Taken DEF Follows, Placed, Alone, OnItsWay
<1>3. CASE MainResolve
  <2>1. Receive("resolve") /\ ResolvePending(Head(queue).id) /\ UNCHANGED <<replies, caller>>
    BY <1>3 DEF MainResolve, elixir
  <2> QED BY <2>1, Taken, Continued DEF Follows, Placed, Alone, OnItsWay
<1>4. CASE MainStop
  <2>1. Receive("stop") /\ UNCHANGED <<stack, replies, caller>>
    BY <1>4 DEF MainStop, elixir
  <2> QED BY <2>1, Taken DEF Follows, Placed, Alone, OnItsWay
<1> QED BY <1>1, <1>2, <1>3, <1>4

LEMMA CallFollows ==
    ASSUME TypeOK, NEW c \in Caller, server # "gone", Alone(c),
           BeamCall \/ CallSync \/ CallSyncSend \/ CallSyncReturn
    PROVE  Follows(c)
<1>0. UNCHANGED <<replies, caller, queue>>
    BY DEF BeamCall, CallSync, CallSyncSend, CallSyncReturn, elixir
<1>1. CASE UNCHANGED stack
    BY <1>0, <1>1 DEF Follows, Placed, Alone, OnItsWay
<1>2. ASSUME /\ Has(stack', Works(c)) <=> Has(stack, Works(c))
             /\ Once(stack', Works(c)) <=> Once(stack, Works(c))
      PROVE  Follows(c)
    BY <1>0, <1>2 DEF Follows, Placed, Alone, OnItsWay
<1>3. CASE CallSync
  <2>1. Parking("putting", nextId) \in Frame /\ Parking("putting", nextId) \notin Works(c)
    BY <1>3, Frames, Belongs DEF CallSync
  <2>2. stack \in Seq(Frame) /\ stack' = Append(stack, Parking("putting", nextId))
    BY <1>3 DEF CallSync, TypeOK
  <2> QED BY <1>2, <2>1, <2>2, Entered
<1>4. CASE CallSyncSend
  <2>1. Innermost("putting") BY <1>4 DEF CallSyncSend
  <2>2. Last(stack).id \in CallId BY <2>1, Topmost, Frames
  <2>3. Parking("parked", Last(stack).id) \in Frame /\ Parking("parked", Last(stack).id) \notin Works(c)
    BY <2>2, Frames, Belongs
  <2>4. CASE stack' = Outer BY <1>2, <2>1, <2>4, Topmost
  <2>5. CASE stack' = Append(Outer, Parking("parked", Last(stack).id))
    BY <1>2, <2>1, <2>3, <2>5, Topmost, Entered
  <2> QED BY <1>4, <2>4, <2>5 DEF CallSyncSend
<1>5. CASE CallSyncReturn
  <2>1. Innermost("parked") /\ stack' = Outer BY <1>5 DEF CallSyncReturn
  <2> QED BY <1>2, <2>1, Topmost
<1>6. CASE BeamCall BY <1>1, <1>6 DEF BeamCall
<1> QED BY <1>3, <1>4, <1>5, <1>6

(* A frame that ends, and with it what it was asked for. *)
LEMMA EndFollows ==
    ASSUME TypeOK, NEW c \in Caller, server # "gone", Alone(c),
           NEW at \in {"js", "await"}, Innermost(at), Complete(Last(stack).msg),
           Has(stack', Works(c)) <=> Has(Outer, Works(c)),
           Once(stack', Works(c)) <=> Once(Outer, Works(c)),
           Has(queue', Of(c)) <=> Has(queue, Of(c)),
           Once(queue', Of(c)) <=> Once(queue, Of(c)),
           UNCHANGED caller
    PROVE  Follows(c)
<1>1. Last(stack).msg \in Message \cup {Continuation} BY Topmost, Frames
<1>2. c \in replies' <=> c \in replies \/ Last(stack).msg \in Of(c) BY <1>1, Answered
<1> QED BY <1>2, Topmost DEF Follows, Placed, Alone, OnItsWay

LEMMA ScriptFollows ==
    ASSUME TypeOK, NEW c \in Caller, server # "gone", Alone(c), ScriptReturns \/ ScriptAwaits
    PROVE  Follows(c)
<1>0. Innermost("js") /\ UNCHANGED <<queue, caller>>
    BY DEF ScriptReturns, ScriptAwaits, elixir
<1>1. CASE ScriptReturns /\ stack' = Outer
    BY <1>0, <1>1, EndFollows DEF ScriptReturns
<1>2. ASSUME ScriptReturns, Outer # << >>, Last(Outer).at = "await", NEW id \in DOMAIN pending,
             stack' = Append(Front(Outer), Awaiting(Last(Outer).msg, id))
      PROVE  Follows(c)
  <2>1. Outer \in Seq(Frame) BY <1>0, Topmost
  <2>2. Last(Outer) \in Frame /\ Front(Outer) \in Seq(Frame) BY <1>2, <2>1, Unstacked
  <2>3. Last(Outer).msg \in Message /\ id \in CallId BY <1>2, <2>2, Frames DEF TypeOK
  <2>4. /\ Awaiting(Last(Outer).msg, id) \in Frame
        /\ Awaiting(Last(Outer).msg, id) \in Works(c) <=> Last(Outer) \in Works(c)
    BY <1>2, <2>2, <2>3, Frames, Belongs
  <2>5. /\ Has(Outer, Works(c)) <=> Last(Outer) \in Works(c) \/ Has(Front(Outer), Works(c))
        /\ Once(Outer, Works(c)) <=>
              /\ Once(Front(Outer), Works(c))
              /\ ~(Last(Outer) \in Works(c) /\ Has(Front(Outer), Works(c)))
    BY <1>2, <2>1, OfUnstacked
  <2>6. /\ Has(stack', Works(c)) <=> Has(Outer, Works(c))
        /\ Once(stack', Works(c)) <=> Once(Outer, Works(c))
    BY <1>2, <2>2, <2>4, <2>5, Entered
  <2> QED BY <1>0, <1>2, <2>6, EndFollows DEF ScriptReturns
<1>3. ASSUME ScriptAwaits, NEW id \in DOMAIN pending,
             stack' = Append(Outer, Awaiting(Last(stack).msg, id))
      PROVE  Follows(c)
  <2>1. Last(stack).msg \in Message /\ id \in CallId
    BY <1>0, <1>3, Topmost, Frames DEF ScriptAwaits, TypeOK
  <2>2. /\ Awaiting(Last(stack).msg, id) \in Frame
        /\ Awaiting(Last(stack).msg, id) \in Works(c) <=> Last(stack).msg \in Of(c)
    BY <2>1, Frames, Belongs
  <2>3. /\ Has(stack', Works(c)) <=> Has(stack, Works(c))
        /\ Once(stack', Works(c)) <=> Once(stack, Works(c))
    BY <1>0, <1>3, <2>2, Topmost, Entered
  <2>4. UNCHANGED replies BY <1>3 DEF ScriptAwaits, elixir
  <2> QED BY <1>0, <2>3, <2>4 DEF Follows, Placed, Alone, OnItsWay
<1> QED BY <1>1, <1>2, <1>3 DEF ScriptReturns, ScriptAwaits

LEMMA AwaitFollows ==
    ASSUME TypeOK, NEW c \in Caller, server # "gone", Alone(c),
           AwaitEnds \/ AwaitGlobal \/ AwaitSync \/ AwaitResolve \/ AwaitStop
    PROVE  Follows(c)
<1>1. CASE AwaitEnds
  <2>1. Innermost("await") /\ stack' = Outer /\ Complete(Last(stack).msg) /\ UNCHANGED <<queue, caller>>
    BY <1>1 DEF AwaitEnds
  <2> QED BY <2>1, EndFollows
<1>2. CASE AwaitStop
  <2>1. /\ Innermost("await") /\ stack' = Outer /\ Complete(Last(stack).msg)
        /\ Receive("stop") /\ UNCHANGED caller
    BY <1>2 DEF AwaitStop, AwaitTakes
  <2>2. /\ Has(queue', Of(c)) <=> Has(queue, Of(c))
        /\ Once(queue', Of(c)) <=> Once(queue, Of(c))
    BY <2>1, Taken
  <2> QED BY <2>1, <2>2, EndFollows
<1>3. CASE AwaitGlobal
  <2>1. Receive("request") /\ Answer(Head(queue).from) /\ UNCHANGED <<stack, caller>>
    BY <1>3 DEF AwaitGlobal, AwaitTakes, worker
  <2>2. c \in replies' <=> c \in replies \/ Head(queue) \in Of(c)
    BY <2>1, Taken DEF Answer
  <2> QED BY <2>1, <2>2, Taken DEF Follows, Placed, Alone, OnItsWay
<1>4. CASE AwaitSync
  <2>1. /\ Receive("sync") /\ stack' = Append(stack, Running(Head(queue)))
        /\ UNCHANGED <<replies, caller>>
    BY <1>4 DEF AwaitSync, AwaitTakes, elixir
  <2>2. Running(Head(queue)) \in Frame /\ Running(Head(queue)) \notin Works(c) /\ stack \in Seq(Frame)
    BY <2>1, Taken, Frames, Belongs DEF TypeOK
  <2> QED BY <2>1, <2>2, Taken, Entered DEF Follows, Placed, Alone, OnItsWay
<1>5. CASE AwaitResolve
  <2>1. Receive("resolve") /\ ResolvePending(Head(queue).id) /\ UNCHANGED <<replies, caller>>
    BY <1>5 DEF AwaitResolve, AwaitTakes, elixir
  <2> QED BY <2>1, Taken, Continued DEF Follows, Placed, Alone, OnItsWay
<1> QED BY <1>1, <1>2, <1>3, <1>4, <1>5

(* The request that await_promise drops was in one place, and is in none. *)
LEMMA DropKeeps ==
    ASSUME TypeOK, NEW c \in Caller, server # "gone", Alone(c), AwaitDrops
    PROVE  Alone(c)'
<1>1. Receive("request") /\ UNCHANGED <<stack, replies, caller>>
    BY DEF AwaitDrops, AwaitTakes, elixir, worker
<1> QED BY <1>1, Taken DEF Alone, OnItsWay
LEMMA CallerFollows ==
    ASSUME TypeOK, NEW c \in Caller, server # "gone", Alone(c), NEW d \in Caller,
           Call(d) \/ HandleCall(d) \/ HandleReply(d)
    PROVE  Follows(c)
<1>1. CASE Call(d)
  <2>1. /\ UNCHANGED <<queue, stack, replies>> /\ caller[d].pc = "idle"
        /\ \E kind \in Kind : caller' = [caller EXCEPT ![d] = [pc |-> "calling", kind |-> kind]]
    BY <1>1 DEF Call, worker
  <2>2. caller'[d].pc = "calling" /\ (d # c => caller'[c] = caller[c])
    BY <2>1 DEF TypeOK
  <2> QED BY <2>1, <2>2 DEF Follows, Placed, Alone, OnItsWay
<1>2. CASE HandleCall(d)
  <2>1. /\ UNCHANGED <<stack, replies>> /\ caller[d].pc = "calling"
        /\ Enqueue(Request(d, caller[d].kind))
        /\ caller' = [caller EXCEPT ![d].pc = "pending"]
    BY <1>2 DEF HandleCall, worker
  <2>2. caller'[d].pc = "pending" /\ (d # c => caller'[c] = caller[c])
    BY <2>1 DEF TypeOK
  <2>3. caller[d].kind \in Kind \cup {"eval"}
    BY DEF TypeOK
  <2>4. /\ Has(queue', Of(c)) <=> Has(queue, Of(c)) \/ d = c
        /\ Once(queue', Of(c)) <=> Once(queue, Of(c)) /\ ~(d = c /\ Has(queue, Of(c)))
    BY <2>1, <2>3, Messages, Put, Belongs
  <2> QED BY <2>1, <2>2, <2>4 DEF Follows, Placed, Alone, OnItsWay
<1>3. CASE HandleReply(d)
  <2>1. /\ UNCHANGED <<queue, stack>> /\ d \in replies /\ replies' = replies \ {d}
        /\ caller' = [caller EXCEPT ![d].pc = "idle"]
    BY <1>3 DEF HandleReply, worker
  <2>2. caller'[d].pc = "idle" /\ (d # c => caller'[c] = caller[c])
    BY <2>1 DEF TypeOK
  <2> QED BY <2>1, <2>2 DEF Follows, Placed, Alone, OnItsWay
<1> QED BY <1>1, <1>2, <1>3

LEMMA OthersFollow ==
    ASSUME TypeOK, NEW c \in Caller, server # "gone", server' # "gone", Alone(c),
           \/ Shutdown \/ Terminate \/ Kill
           \/ \E call \in beamCalls : HandleBeamCall(call) \/ DrainBeamCall(call)
           \/ \E call \in tasks : TaskEnds(call)
           \/ \E h \in Host : HostStart(h) \/ HostSend(h) \/ HostReturn(h)
           \/ UNCHANGED vars
    PROVE  Follows(c)
<1>1. ASSUME UNCHANGED <<stack, replies, caller>>,
             Has(queue', Of(c)) <=> Has(queue, Of(c)),
             Once(queue', Of(c)) <=> Once(queue, Of(c))
      PROVE  Follows(c)
    BY <1>1 DEF Follows, Placed, Alone, OnItsWay
<1>2. CASE UNCHANGED <<stack, replies, caller, queue>>
    BY <1>1, <1>2
<1>3. CASE ShutdownStop
  <2>1. UNCHANGED <<stack, replies, caller>> /\ Enqueue(Stop)
    BY <1>3 DEF ShutdownStop, elixir, worker
  <2> QED BY <1>1, <2>1, Messages, Put, Belongs
<1>4. ASSUME NEW call \in beamCalls \cup tasks, ResolveCall(call), UNCHANGED <<stack, replies, caller>>
      PROVE  Follows(c)
  <2>1. call \in BeamCallMsg BY DEF TypeOK
  <2> QED BY <1>1, <1>4, <2>1, Resolved
<1>5. ASSUME NEW h \in Host, HostSend(h) PROVE Follows(c)
  <2>1. UNCHANGED <<stack, replies, caller>> /\ Enqueue(HostCall(h, host[h].id))
    BY <1>5 DEF HostSend, elixir, worker
  <2>2. HostCall(h, host[h].id) \in Message BY Messages DEF TypeOK
  <2> QED BY <1>1, <2>1, <2>2, Put, Belongs
<1>6. CASE Shutdown
    BY <1>2, <1>3, <1>6 DEF Shutdown, ShutdownFlag, ShutdownWake, ShutdownJoin, Gone, elixir, worker
<1>7. CASE Terminate \/ Kill
    BY <1>2, <1>7 DEF Terminate, Kill, Gone, worker
<1>8. ASSUME NEW call \in beamCalls, HandleBeamCall(call) PROVE Follows(c)
    BY <1>2, <1>4, <1>8 DEF HandleBeamCall, worker
<1>9. ASSUME NEW call \in beamCalls, DrainBeamCall(call) PROVE Follows(c)
    BY <1>2, <1>4, <1>9 DEF DrainBeamCall, Gone, worker
<1>10. ASSUME NEW call \in tasks, TaskEnds(call) PROVE Follows(c)
    BY <1>2, <1>4, <1>10 DEF TaskEnds, worker
<1>11. ASSUME NEW h \in Host, HostStart(h) \/ HostReturn(h) PROVE Follows(c)
    BY <1>2, <1>11 DEF HostStart, HostReturn, elixir, worker
<1>12. CASE UNCHANGED vars
    BY <1>2, <1>12 DEF vars, elixir, worker
<1> QED BY <1>5, <1>6, <1>7, <1>8, <1>9, <1>10, <1>11, <1>12

(* When the server is gone nobody waits for it. *)
GoneIdle == server = "gone" => \A c \in Caller : caller[c].pc = "idle"

LEMMA GoneStep ==
    ASSUME TypeOK, GoneIdle, [Next]_vars
    PROVE  GoneIdle' /\ (server = "gone" => server' = "gone")
<1>1. CASE UNCHANGED <<server, caller>>
    BY <1>1 DEF GoneIdle
<1>2. CASE Gone
    BY <1>2 DEF GoneIdle, Gone, TypeOK
<1>3. CASE Worker
    BY <1>1, <1>3
       DEF Worker, MainRequest, MainGlobal, MainReset, MainSync, MainResolve, MainStop,
           BeamCall, CallSync, CallSyncSend, CallSyncReturn, ScriptReturns, ScriptAwaits,
           AwaitEnds, AwaitGlobal, AwaitSync, AwaitResolve, AwaitDrops, AwaitStop, elixir
<1>4. CASE Shutdown \/ Terminate \/ Kill
    BY <1>1, <1>2, <1>4
       DEF Shutdown, ShutdownFlag, ShutdownWake, ShutdownStop, ShutdownJoin, Terminate, Kill,
           elixir, GoneIdle
<1>5. ASSUME NEW c \in Caller, Call(c) \/ HandleCall(c) \/ HandleReply(c)
      PROVE  server = "up" /\ server' = server
    BY <1>5 DEF Call, HandleCall, HandleReply
<1>6. ASSUME NEW call \in beamCalls, HandleBeamCall(call) \/ DrainBeamCall(call)
      PROVE  GoneIdle' /\ (server = "gone" => server' = "gone")
    BY <1>1, <1>2, <1>6 DEF HandleBeamCall, DrainBeamCall
<1>7. ASSUME NEW call \in tasks, TaskEnds(call) PROVE UNCHANGED <<server, caller>>
    BY <1>7 DEF TaskEnds
<1>8. ASSUME NEW h \in Host, HostStart(h) \/ HostSend(h) \/ HostReturn(h)
      PROVE  UNCHANGED <<server, caller>>
    BY <1>8 DEF HostStart, HostSend, HostReturn, elixir
<1>9. CASE UNCHANGED vars BY <1>1, <1>9 DEF vars, elixir
<1> QED BY <1>1, <1>3, <1>4, <1>5, <1>6, <1>7, <1>8, <1>9 DEF Next, GoneIdle

LEMMA StepFollows ==
    ASSUME TypeOK, NEW c \in Caller, server # "gone", server' # "gone", Alone(c), [Next]_vars
    PROVE  Alone(c)' /\ (Follows(c) \/ AwaitDrops)
BY MainFollows, CallFollows, ScriptFollows, AwaitFollows, DropKeeps, CallerFollows, OthersFollow
   DEF Next, Worker, Follows
-----------------------------------------------------------------------------
(* Counting the places of a request. *)
LEMMA PlacesCounted ==
    ASSUME NEW c \in Caller, NEW st \in Seq(Frame), NEW q \in Seq(Message)
    PROVE  /\ {i \in DOMAIN st : /\ st[i].at \in {"js", "await"}
                                 /\ st[i].msg.type = "request"
                                 /\ st[i].msg.from = c} = Positions(st, Works(c))
           /\ {i \in DOMAIN q : q[i].type = "request" /\ q[i].from = c} = Positions(q, Of(c))
<1>1. \A i \in DOMAIN st : st[i] \in Frame
    BY ElementOfSeq, LenProperties
<1>2. \A f \in Frame : f \in Works(c) <=> /\ f.at \in {"js", "await"}
                                         /\ f.msg.type = "request" /\ f.msg.from = c
    BY Frames, Belongs
<1>3. \A i \in DOMAIN q : q[i] \in Message
    BY ElementOfSeq, LenProperties
<1> QED BY <1>1, <1>2, <1>3, Belongs DEF Positions

LEMMA CountOf ==
    ASSUME NEW c \in Caller, NEW st \in Seq(Frame), NEW q \in Seq(Message), NEW there \in BOOLEAN,
           NEW n, n = Cardinality(Positions(st, Works(c))) + Cardinality(Positions(q, Of(c)))
                      + (IF there THEN 1 ELSE 0)
    PROVE  /\ n = 0 <=> ~Has(st, Works(c)) /\ ~Has(q, Of(c)) /\ ~there
           /\ (/\ Once(st, Works(c)) /\ Once(q, Of(c))
               /\ ~(Has(st, Works(c)) /\ Has(q, Of(c)))
               /\ there => ~Has(st, Works(c)) /\ ~Has(q, Of(c))) => n \leq 1
<1> DEFINE a == Cardinality(Positions(st, Works(c)))
           b == Cardinality(Positions(q, Of(c)))
           r == IF there THEN 1 ELSE 0
<1>1. n = a + b + r
    OBVIOUS
<1>2. /\ a \in Nat /\ (a = 0 <=> ~Has(st, Works(c)))
      /\ Once(st, Works(c)) => a \leq 1
    BY Counted
<1>3. /\ b \in Nat /\ (b = 0 <=> ~Has(q, Of(c)))
      /\ Once(q, Of(c)) => b \leq 1
    BY Counted
<1>4. r \in {0, 1} /\ (r = 0 <=> ~there)
    OBVIOUS
<1> HIDE DEF a, b, r
<1>5. n = 0 <=> a = 0 /\ b = 0 /\ r = 0 BY <1>1, <1>2, <1>3, <1>4
<1>6. a \leq 1 /\ b \leq 1 /\ ~(a # 0 /\ b # 0) /\ (r # 0 => a = 0 /\ b = 0) => n \leq 1
    BY <1>1, <1>2, <1>3, <1>4
<1> QED BY <1>2, <1>3, <1>4, <1>5, <1>6

LEMMA PlacesOf ==
    ASSUME TypeOK, NEW c \in Caller
    PROVE  /\ Places(c) = 0 <=> ~OnItsWay(c)
           /\ Alone(c) => Places(c) \leq 1
<1>1. Places(c) = Cardinality(Positions(stack, Works(c))) + Cardinality(Positions(queue, Of(c)))
                  + (IF c \in replies THEN 1 ELSE 0)
    BY PlacesCounted DEF TypeOK, Places, OnStack, InQueue
<1> QED BY <1>1, CountOf DEF TypeOK, OnItsWay, Alone

LEMMA PlacesNext ==
    ASSUME TypeOK', NEW c \in Caller
    PROVE  Places(c)' = 0 <=> ~OnItsWay(c)'
<1>1. Places(c)' = Cardinality(Positions(stack', Works(c))) + Cardinality(Positions(queue', Of(c)))
                   + (IF c \in replies' THEN 1 ELSE 0)
    BY PlacesCounted DEF TypeOK, Places, OnStack, InQueue
<1> QED BY <1>1, CountOf DEF TypeOK, OnItsWay
-----------------------------------------------------------------------------
(* The stop message: only the main loop and an await take it.                 *)
Stops == {Stop}
StopKept == lifecycle = "joining" /\ ~exited => Has(queue, Stops)

LEMMA StopTaken ==
    ASSUME TypeOK, NEW type, Receive(type), type # "stop", Has(queue, Stops)
    PROVE  Has(queue', Stops)
<1>1. queue \in Seq(Message) /\ queue # << >> /\ queue' = Tail(queue) /\ Head(queue).type = type
    BY DEF TypeOK, Receive
<1>2. Head(queue) \notin Stops BY <1>1 DEF Stops, Stop
<1> QED BY <1>1, <1>2, OfPopped

LEMMA StopPut ==
    ASSUME TypeOK, NEW m \in Message, Enqueue(m)
    PROVE  Has(queue', Stops) <=> Has(queue, Stops) \/ m = Stop
<1>1. queue \in Seq(Message) /\ queue' = Append(queue, m) BY DEF TypeOK, Enqueue
<1> QED BY <1>1, OfPushed DEF Stops

LEMMA StopFollows ==
    ASSUME TypeOK, [Next]_vars, StopKept
    PROVE  StopKept' \/ AwaitStop
<1>1. CASE UNCHANGED <<queue, lifecycle, exited>>
    BY <1>1 DEF StopKept
<1>2. ASSUME NEW type, type # "stop", Receive(type), UNCHANGED <<lifecycle, exited>>
      PROVE  StopKept'
    BY <1>2, StopTaken DEF StopKept
<1>3. ASSUME NEW m \in Message, Enqueue(m), UNCHANGED <<lifecycle, exited>> PROVE StopKept'
    BY <1>3, StopPut DEF StopKept
<1>4. CASE MainStop
    BY <1>4 DEF MainStop, StopKept
<1>5. CASE Worker
    BY <1>1, <1>2, <1>4, <1>5
       DEF Worker, MainRequest, MainGlobal, MainReset, MainSync, MainResolve,
           BeamCall, CallSync, CallSyncSend, CallSyncReturn, ScriptReturns, ScriptAwaits,
           AwaitEnds, AwaitGlobal, AwaitSync, AwaitResolve, AwaitDrops, AwaitTakes, worker
<1>6. CASE ShutdownStop
    BY <1>6, Messages, StopPut DEF ShutdownStop, StopKept
<1>7. CASE ShutdownFlag \/ ShutdownWake \/ ShutdownJoin
    BY <1>7 DEF ShutdownFlag, ShutdownWake, ShutdownJoin, StopKept
<1>8. CASE Terminate \/ Kill
    BY <1>1, <1>8 DEF Terminate, Kill, worker
<1>9. ASSUME NEW c \in Caller, Call(c) \/ HandleReply(c)
      PROVE  UNCHANGED <<queue, lifecycle, exited>>
    BY <1>9 DEF Call, HandleReply, worker
<1>10. ASSUME NEW c \in Caller, HandleCall(c) PROVE StopKept'
  <2>1. Request(c, caller[c].kind) \in Message
    BY Messages DEF TypeOK
  <2> QED BY <1>3, <1>10, <2>1 DEF HandleCall, worker
<1>11. ASSUME NEW call \in beamCalls \cup tasks,
              HandleBeamCall(call) \/ DrainBeamCall(call) \/ TaskEnds(call)
       PROVE  StopKept'
  <2>1. Resolve(call) \in Message BY Messages DEF TypeOK
  <2>2. UNCHANGED <<lifecycle, exited>>
    BY <1>11 DEF HandleBeamCall, DrainBeamCall, TaskEnds, worker
  <2>3. UNCHANGED queue \/ Enqueue(Resolve(call))
    BY <1>11 DEF HandleBeamCall, DrainBeamCall, TaskEnds, ResolveCall
  <2>4. CASE UNCHANGED queue BY <2>2, <2>4 DEF StopKept
  <2>5. CASE Enqueue(Resolve(call)) BY <1>3, <2>1, <2>2, <2>5
  <2> QED BY <2>3, <2>4, <2>5
<1>12. ASSUME NEW h \in Host, HostStart(h) \/ HostReturn(h)
       PROVE  UNCHANGED <<queue, lifecycle, exited>>
    BY <1>12 DEF HostStart, HostReturn, worker
<1>13. ASSUME NEW h \in Host, HostSend(h) PROVE StopKept'
  <2>1. HostCall(h, host[h].id) \in Message BY Messages DEF TypeOK
  <2> QED BY <1>3, <1>13, <2>1 DEF HostSend, worker
<1>14. CASE UNCHANGED vars BY <1>1, <1>14 DEF vars, worker
<1> QED BY <1>1, <1>5, <1>6, <1>7, <1>8, <1>9, <1>10, <1>11, <1>12, <1>13, <1>14
        DEF Next, Shutdown

LEMMA StopIn ==
    ASSUME NEW q \in Seq(Message)
    PROVE  Has(q, Stops) <=> ~\A i \in DOMAIN q : q[i].type # "stop"
<1>1. \A i \in DOMAIN q : q[i] \in Message BY ElementOfSeq, LenProperties
<1>2. \A m \in Message : m.type = "stop" <=> m \in Stops BY DEF Message, Stops, Stop
<1> QED BY <1>1, <1>2 DEF Has
-----------------------------------------------------------------------------
(* The invariant: the server's callers have their requests in one place.      *)
Requested == TypeOK /\ GoneIdle /\ (server # "gone" => \A c \in Caller : Alone(c))

LEMMA RequestedInit == Init => Requested
<1> SUFFICES ASSUME Init PROVE Requested OBVIOUS
<1>1. TypeOK BY Initially
<1>2. \A c \in Caller : Alone(c) BY OfNone DEF Init, Alone, OnItsWay
<1> QED BY <1>1, <1>2 DEF Requested, GoneIdle, Init

LEMMA RequestedStep == Requested /\ [Next]_vars => Requested'
<1> SUFFICES ASSUME Requested, [Next]_vars PROVE Requested' OBVIOUS
<1>1. TypeOK' /\ GoneIdle' /\ (server = "gone" => server' = "gone")
    BY TypeStep, GoneStep DEF Requested
<1>2. ASSUME server' # "gone", NEW c \in Caller PROVE Alone(c)'
    BY <1>1, <1>2, StepFollows DEF Requested
<1> QED BY <1>1, <1>2 DEF Requested

LEMMA LosesInAwait ==
    ASSUME Requested, [Next]_vars
    PROVE  /\ \A c \in Caller :
                 (~Lost(c) /\ Lost(c)') => Innermost("await") /\ Head(queue).kind # "global"
           /\ (~StopLost /\ StopLost') => Innermost("await")
<1>1. TypeOK /\ TypeOK' /\ GoneIdle' /\ (server = "gone" => server' = "gone")
    BY TypeStep, GoneStep DEF Requested
<1>2. ASSUME NEW c \in Caller, ~Lost(c), Lost(c)'
      PROVE  Innermost("await") /\ Head(queue).kind # "global"
  <2>1. Placed(c) BY <1>1, <1>2, PlacesOf DEF Lost, Placed
  <2>2. ~Placed(c)' BY <1>1, <1>2, PlacesNext DEF Lost, Placed
  <2>3. server' # "gone" BY <1>1, <1>2 DEF GoneIdle, Lost
  <2>4. AwaitDrops BY <1>1, <2>1, <2>2, <2>3, StepFollows DEF Requested, Follows
  <2> QED BY <2>4 DEF AwaitDrops, AwaitTakes
<1>3. ASSUME ~StopLost, StopLost' PROVE Innermost("await")
  <2>1. StopKept /\ ~StopKept'
    BY <1>1, <1>3, StopIn DEF StopLost, StopKept, TypeOK
  <2>2. AwaitStop BY <1>1, <2>1, StopFollows
  <2> QED BY <2>2 DEF AwaitStop, AwaitTakes
<1> QED BY <1>2, <1>3

(* A request is in the queue, in one frame of the worker or answered, never   *)
(* in two of these: no caller is answered twice, or without having asked.     *)
THEOREM RequestsAnsweredOnce == Spec => []AnsweredOnce
<1>1. ASSUME Requested PROVE AnsweredOnce
  <2> SUFFICES ASSUME server # "gone", NEW c \in Caller
               PROVE  Places(c) \leq 1 /\ (Places(c) = 1 => caller[c].pc = "pending")
    BY DEF AnsweredOnce
  <2>1. TypeOK /\ Alone(c) BY <1>1 DEF Requested
  <2>2. Places(c) \leq 1 /\ (Places(c) = 0 <=> ~OnItsWay(c)) BY <2>1, PlacesOf
  <2> QED BY <2>1, <2>2 DEF Alone
<1> QED BY <1>1, RequestedInit, RequestedStep, PTL DEF Spec

(* await_promise, the `else` of its switch and its stop branch: nothing else  *)
(* in a runtime loses a request that somebody waits for, or the stop message. *)
THEOREM LossesInAwait == Spec => LostOnlyInAwait
<1>1. ASSUME Requested, [Next]_vars
      PROVE  [/\ \A c \in Caller :
                    (~Lost(c) /\ Lost(c)') => Innermost("await") /\ Head(queue).kind # "global"
              /\ (~StopLost /\ StopLost') => Innermost("await")]_vars
    BY <1>1, LosesInAwait
<1> QED BY <1>1, RequestedInit, RequestedStep, PTL DEF Spec, LostOnlyInAwait
=============================================================================
