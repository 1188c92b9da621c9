----------------------------- MODULE RuntimeWorker -----------------------------
(***************************************************************************)
(* A runtime: the GenServer that owns it (runtime.ex, server.ex), the OS   *)
(* thread that runs its JavaScript (worker.zig) and the message queue and  *)
(* sync slots they share (types.zig, quickbeam.zig, beam_call.zig).        *)
(*                                                                         *)
(* A request of a caller travels through the server's mailbox and the      *)
(* queue to the worker, whose answer travels back through the mailbox.     *)
(* JavaScript calls Elixir with Beam.call (a promise, resolved through the *)
(* queue) and Beam.callSync (the worker parks on a slot until the answer   *)
(* is signalled or the runtime shuts down).  A WebAssembly host call comes *)
(* in from another thread, which parks on a slot of its own.               *)
(*                                                                         *)
(* `stack` is what the worker is in the middle of: empty in the main loop, *)
(* otherwise a sequence of frames, the innermost last.  JavaScript is what *)
(* calls it makes and whether it returns a promise.  The server's mailbox  *)
(* is kept as sets, as its messages come from different senders.           *)
(***************************************************************************)
EXTENDS Naturals, Sequences, FiniteSets, SequencesExt

CONSTANTS Caller,    \* processes that use the runtime
          Host,      \* threads that run WebAssembly with host imports
          Js,        \* the worker's own sync slot
          HostBase,  \* host_call_id, a counter that all runtimes share
          Awaits,    \* whether JavaScript returns promises to await
          Kind,      \* the requests made, within {"eval", "reset", "global"}
          Outcome,   \* how handlers end, within {"answer", "exit"}
          MayStop,   \* whether the runtime may be stopped or killed
          MaxCalls,  \* bound: Beam.call and Beam.callSync calls
          MaxResets  \* bound: resets asked for

ASSUME WorkerAssumption ==
    /\ Js \notin Host
    /\ HostBase \in Nat /\ MaxCalls \in Nat /\ MaxResets \in Nat
    /\ IsFiniteSet(Host)
    /\ Awaits \in BOOLEAN /\ MayStop \in BOOLEAN
    /\ Kind \subseteq {"eval", "reset", "global"}
    /\ Outcome \subseteq {"answer", "exit"}

VARIABLES server,    \* up, draining or stopping (terminate), gone
          lifecycle, \* the steps of shutdown_runtime
          caller,    \* what each caller is waiting for
          replies,   \* callers whose answer is in the server's mailbox
          beamCalls, \* calls of JavaScript in the server's mailbox
          tasks,     \* calls whose handler runs in a Task
          queue,     \* messages to the worker
          stack,     \* frames of the worker thread
          exited,    \* the worker thread has ended
          pending,   \* pending_calls: id |-> the reset it was made after
          nextId,    \* next_call_id
          resets,    \* resets so far (names the JavaScript context)
          slots,     \* sync_slots: id |-> whose slot
          event,     \* each slot's event, and whose answer set it
          host       \* what each host thread is doing

elixir == <<server, caller, replies, beamCalls, tasks>>
worker == <<stack, exited, pending, nextId, resets>>
vars == <<elixir, worker, lifecycle, queue, slots, event, host>>

CallId == 1..MaxCalls
HostId == HostBase..(HostBase + Cardinality(Host))

Request(c, kind) == [type |-> "request", from |-> c, kind |-> kind]
HostCall(h, id) == [type |-> "sync", by |-> h, id |-> id]
Resolve(call) == [type |-> "resolve", id |-> call.id, context |-> call.context]
Stop == [type |-> "stop"]
Continuation == [type |-> "continuation"]

Running(msg) == [at |-> "js", msg |-> msg]
Awaiting(msg, id) == [at |-> "await", msg |-> msg, on |-> id]
Parking(at, id) == [at |-> at, id |-> id]

(* rd.shutting_down *)
ShuttingDown == lifecycle # "running"

Enqueue(msg) == queue' = Append(queue, msg)

-----------------------------------------------------------------------------
(* The worker is in its main loop, or its innermost frame is of this kind.    *)
MainLoop == stack = << >> /\ ~exited
Innermost(at) == stack # << >> /\ Last(stack).at = at
Outer == Front(stack)

Receive(type) == queue # << >> /\ Head(queue).type = type /\ queue' = Tail(queue)

(* send_reply to the server: a message to a process that is gone is dropped.  *)
Answer(c) == replies' = IF server = "gone" THEN replies ELSE replies \cup {c}

(* complete_sync_call and the resolve NIFs: signal whoever has the slot.      *)
Signal(id, sync, owner) ==
    event' = [event EXCEPT ![slots[id]] =
                  IF sync /\ slots[id] = owner THEN "own" ELSE "foreign"]

HostWaits(msg) == msg.type = "sync" /\ msg.id \in DOMAIN slots

(* The result of what the worker was asked for goes to whoever asked, if      *)
(* anybody did and still waits.                                               *)
Complete(msg) ==
    \/ msg.type = "request" /\ Answer(msg.from) /\ UNCHANGED event
    \/ HostWaits(msg) /\ Signal(msg.id, TRUE, msg.by) /\ UNCHANGED replies
    \/ msg.type # "request" /\ ~HostWaits(msg) /\ UNCHANGED <<replies, event>>

Unslotted(id) == [i \in DOMAIN slots \ {id} |-> slots[i]]
Slotted(id, owner) == [i \in DOMAIN slots \cup {id} |-> IF i = id THEN owner ELSE slots[i]]

(* resolve_pending, reject_pending, resolve_pending_term: the promise's       *)
(* continuations run at once; an id that is not pending is ignored.           *)
ResolvePending(id) ==
    \/ /\ id \in DOMAIN pending
       /\ pending' = [i \in DOMAIN pending \ {id} |-> pending[i]]
       /\ stack' = Append(stack, Running(Continuation))
    \/ /\ id \notin DOMAIN pending
       /\ UNCHANGED <<pending, stack>>

-----------------------------------------------------------------------------
(* worker_main: the main loop takes the next message.                         *)
MainRequest ==
    /\ MainLoop /\ Receive("request") /\ Head(queue).kind = "eval"
    /\ stack' = << Running(Head(queue)) >>
    /\ UNCHANGED <<elixir, lifecycle, exited, pending, nextId, resets, slots, event, host>>

MainGlobal_Silent ==
    /\ MainLoop /\ Receive("request") /\ Head(queue).kind = "global"
    /\ UNCHANGED <<elixir, lifecycle, worker, slots, event, host>>

MainGlobal ==
    /\ MainLoop /\ Receive("request") /\ Head(queue).kind = "global"
    /\ Answer(Head(queue).from)
    /\ UNCHANGED <<server, caller, beamCalls, tasks, lifecycle, worker, slots, event, host>>

DoReset_RestartsIds ==
    /\ pending' = << >>
    /\ nextId' = 1
    /\ resets' = resets + 1

(* do_reset: the ids of the next context go on where they were. *)
DoReset ==
    /\ pending' = << >>
    /\ resets' = resets + 1
    /\ UNCHANGED nextId

MainReset ==
    /\ MainLoop /\ Receive("request") /\ Head(queue).kind = "reset"
    /\ DoReset
    /\ Answer(Head(queue).from)
    /\ UNCHANGED <<server, caller, beamCalls, tasks, lifecycle, stack, exited, slots, event, host>>

MainSync ==
    /\ MainLoop /\ Receive("sync")
    /\ stack' = << Running(Head(queue)) >>
    /\ UNCHANGED <<elixir, lifecycle, exited, pending, nextId, resets, slots, event, host>>

MainResolve ==
    /\ MainLoop /\ Receive("resolve")
    /\ ResolvePending(Head(queue).id)
    /\ UNCHANGED <<elixir, lifecycle, exited, nextId, resets, slots, event, host>>

MainStop ==
    /\ MainLoop /\ Receive("stop")
    /\ exited' = TRUE
    /\ UNCHANGED <<elixir, lifecycle, stack, pending, nextId, resets, slots, event, host>>

-----------------------------------------------------------------------------
(* send_beam_call_term *)
SendBeamCall(id, sync) ==
    beamCalls' = IF server = "gone" THEN beamCalls
                 ELSE beamCalls \cup {[id |-> id, context |-> resets, sync |-> sync]}

BeamCall_ReusesId ==
    /\ Innermost("js") /\ nextId \in CallId
    /\ pending' = [i \in DOMAIN pending \cup {nextId} |->
                      IF i = nextId THEN resets ELSE pending[i]]
    /\ SendBeamCall(nextId, FALSE)
    /\ UNCHANGED <<server, caller, replies, tasks, lifecycle, queue, stack, exited,
                   nextId, resets, slots, event, host>>

(* Beam.call: a promise on the books, the call sent to the server.            *)
BeamCall ==
    /\ Innermost("js") /\ nextId \in CallId
    /\ pending' = [i \in DOMAIN pending \cup {nextId} |->
                      IF i = nextId THEN resets ELSE pending[i]]
    /\ SendBeamCall(nextId, FALSE)
    /\ nextId' = nextId + 1
    /\ UNCHANGED <<server, caller, replies, tasks, lifecycle, queue, stack, exited,
                   resets, slots, event, host>>

(* Beam.callSync: first the slot, then a look at shutting_down.               *)
CallSync ==
    /\ Innermost("js") /\ nextId \in CallId
    /\ slots' = Slotted(nextId, Js)
    /\ event' = [event EXCEPT ![Js] = "unset"]
    /\ stack' = Append(stack, Parking("putting", nextId))
    /\ nextId' = nextId + 1
    /\ UNCHANGED <<elixir, lifecycle, queue, exited, pending, resets, host>>

CallSyncSend ==
    /\ Innermost("putting")
    /\ LET id == Last(stack).id
       IN  \/ /\ ShuttingDown
              /\ slots' = Unslotted(id)
              /\ stack' = Outer
              /\ UNCHANGED beamCalls
           \/ /\ ~ShuttingDown
              /\ SendBeamCall(id, TRUE)
              /\ stack' = Append(Outer, Parking("parked", id))
              /\ UNCHANGED slots
    /\ UNCHANGED <<server, caller, replies, tasks, lifecycle, queue, exited, pending,
                   nextId, resets, event, host>>

(* The parked thread looks at its event and at shutting_down, no deadline.    *)
(* With a result or an exception its JavaScript goes on.                      *)
CallSyncReturn ==
    /\ Innermost("parked")
    /\ event[Js] # "unset" \/ ShuttingDown
    /\ slots' = Unslotted(Last(stack).id)
    /\ stack' = Outer
    /\ UNCHANGED <<elixir, lifecycle, queue, exited, pending, nextId, resets, event, host>>

(* The script or continuation ends.  An asynchronous function whose call was  *)
(* settled may go on to wait for another one.                                 *)
ScriptReturns ==
    /\ Innermost("js")
    /\ Complete(Last(stack).msg)
    /\ \/ stack' = Outer
       \/ /\ Outer # << >> /\ Last(Outer).at = "await" /\ Last(Outer).on \notin DOMAIN pending
          /\ \E id \in DOMAIN pending :
                 stack' = Append(Front(Outer), Awaiting(Last(Outer).msg, id))
    /\ UNCHANGED <<server, caller, beamCalls, tasks, lifecycle, queue, exited, pending,
                   nextId, resets, slots, host>>

(* do_eval, do_call and do_load_module wait for a promise by await_promise.   *)
ScriptAwaits ==
    /\ Awaits /\ Innermost("js") /\ Last(stack).msg # Continuation
    /\ \E id \in DOMAIN pending : stack' = Append(Outer, Awaiting(Last(stack).msg, id))
    /\ UNCHANGED <<elixir, lifecycle, queue, exited, pending, nextId, resets, slots,
                   event, host>>

-----------------------------------------------------------------------------
AwaitEnds_KeepsFrame ==
    /\ Innermost("await")
    /\ Complete(Last(stack).msg)
    /\ UNCHANGED <<server, caller, beamCalls, tasks, lifecycle, queue, worker, slots, host>>

AwaitEnds_NeverExpires ==
    /\ Innermost("await") /\ Last(stack).on \notin DOMAIN pending
    /\ stack' = Outer
    /\ Complete(Last(stack).msg)
    /\ UNCHANGED <<server, caller, beamCalls, tasks, lifecycle, queue, exited, pending,
                   nextId, resets, slots, host>>

(* await_promise: the promise is settled, or promise_wait_expired.            *)
AwaitEnds ==
    /\ Innermost("await")
    /\ stack' = Outer
    /\ Complete(Last(stack).msg)
    /\ UNCHANGED <<server, caller, beamCalls, tasks, lifecycle, queue, exited, pending,
                   nextId, resets, slots, host>>

(* Until then await_promise takes messages as well.                           *)
AwaitTakes(type) == Innermost("await") /\ Last(stack).on \in DOMAIN pending /\ Receive(type)

AwaitGlobal ==
    /\ AwaitTakes("request") /\ Head(queue).kind = "global"
    /\ Answer(Head(queue).from)
    /\ UNCHANGED <<server, caller, beamCalls, tasks, lifecycle, worker, slots, event, host>>

AwaitSync_Dropped ==
    /\ AwaitTakes("sync")
    /\ UNCHANGED <<elixir, lifecycle, worker, slots, event, host>>

AwaitSync ==
    /\ AwaitTakes("sync")
    /\ stack' = Append(stack, Running(Head(queue)))
    /\ UNCHANGED <<elixir, lifecycle, exited, pending, nextId, resets, slots, event, host>>

AwaitResolve ==
    /\ AwaitTakes("resolve")
    /\ ResolvePending(Head(queue).id)
    /\ UNCHANGED <<elixir, lifecycle, exited, nextId, resets, slots, event, host>>

(* `else => {}`: any other request is taken from the queue and forgotten.     *)
AwaitDrops ==
    /\ AwaitTakes("request") /\ Head(queue).kind \in {"eval", "reset"}
    /\ UNCHANGED <<elixir, lifecycle, worker, slots, event, host>>

(* .stop: the await ends with "Runtime stopped", and the worker goes on.      *)
AwaitStop ==
    /\ AwaitTakes("stop")
    /\ stack' = Outer
    /\ Complete(Last(stack).msg)
    /\ UNCHANGED <<server, caller, beamCalls, tasks, lifecycle, exited, pending, nextId,
                   resets, slots, host>>

Worker ==
    \/ MainRequest \/ MainGlobal \/ MainReset \/ MainSync \/ MainResolve \/ MainStop
    \/ BeamCall \/ CallSync \/ CallSyncSend \/ CallSyncReturn \/ ScriptReturns \/ ScriptAwaits
    \/ AwaitEnds \/ AwaitGlobal \/ AwaitSync \/ AwaitResolve \/ AwaitDrops \/ AwaitStop

-----------------------------------------------------------------------------
(* A caller's GenServer.call, with no timeout. *)
Call(c) ==
    /\ caller[c].pc = "idle" /\ server = "up"
    /\ \E kind \in Kind :
          /\ kind = "reset" => resets < MaxResets
          /\ caller' = [caller EXCEPT ![c] = [pc |-> "calling", kind |-> kind]]
    /\ UNCHANGED <<server, replies, beamCalls, tasks, lifecycle, queue, worker, slots, event, host>>

(* handle_call: enqueue, put_pending and no reply yet. *)
HandleCall(c) ==
    /\ server = "up" /\ caller[c].pc = "calling"
    /\ Enqueue(Request(c, caller[c].kind))
    /\ caller' = [caller EXCEPT ![c].pc = "pending"]
    /\ UNCHANGED <<server, replies, beamCalls, tasks, lifecycle, worker, slots, event, host>>

(* handle_pending_ref *)
HandleReply(c) ==
    /\ server = "up" /\ c \in replies
    /\ replies' = replies \ {c}
    /\ caller' = [caller EXCEPT ![c].pc = "idle"]
    /\ UNCHANGED <<server, beamCalls, tasks, lifecycle, queue, worker, slots, event, host>>

(* resolve_call_term, reject_call_term: to a parked thread or to the queue.   *)
ResolveCall(call) ==
    \/ /\ call.id \in DOMAIN slots
       /\ Signal(call.id, call.sync, Js)
       /\ UNCHANGED queue
    \/ /\ call.id \notin DOMAIN slots
       /\ Enqueue(Resolve(call))
       /\ UNCHANGED event

(* handle_info {:beam_call, ...}: a Task, or a rejection if nobody handles it. *)
HandleBeamCall(call) ==
    /\ server = "up" /\ call \in beamCalls
    /\ beamCalls' = beamCalls \ {call}
    /\ \/ tasks' = tasks \cup {call} /\ UNCHANGED <<queue, event>>
       \/ ResolveCall(call) /\ UNCHANGED tasks
    /\ UNCHANGED <<server, caller, replies, lifecycle, worker, slots, host>>

(* The handler returns or raises; an exit or a throw is not rescued.          *)
TaskEnds(call) ==
    /\ call \in tasks
    /\ tasks' = tasks \ {call}
    /\ \/ "answer" \in Outcome /\ ResolveCall(call)
       \/ "exit" \in Outcome /\ UNCHANGED <<queue, event>>
    /\ UNCHANGED <<server, caller, replies, beamCalls, lifecycle, worker, slots, host>>

-----------------------------------------------------------------------------
(* Whoever waits for the server learns that it is gone. *)
Gone ==
    /\ server' = "gone"
    /\ caller' = [c \in Caller |-> [caller[c] EXCEPT !.pc = "idle"]]
    /\ replies' = {} /\ beamCalls' = {}

(* QuickBEAM.stop or the supervisor: terminate begins. *)
Terminate ==
    /\ MayStop /\ server = "up"
    /\ server' = "draining"
    /\ UNCHANGED <<caller, replies, beamCalls, tasks, lifecycle, queue, worker, slots, event, host>>

(* The server is killed, without terminate. *)
Kill ==
    /\ MayStop /\ server \in {"up", "draining"}
    /\ Gone
    /\ UNCHANGED <<tasks, lifecycle, queue, worker, slots, event, host>>

(* drain_beam_calls: handlers run in the server itself.                       *)
DrainBeamCall(call) ==
    /\ server = "draining" /\ call \in beamCalls
    /\ \/ /\ ResolveCall(call)
          /\ beamCalls' = beamCalls \ {call}
          /\ UNCHANGED <<server, caller, replies>>
       \/ /\ "exit" \in Outcome
          /\ Gone
          /\ UNCHANGED <<queue, event>>
    /\ UNCHANGED <<tasks, lifecycle, worker, slots, host>>

(* shutdown_runtime, called by terminate, or by the resource's destructor     *)
(* when nothing refers to the resource any more.                              *)
ShutdownFlag ==
    /\ lifecycle = "running"
    /\ \/ server = "draining" /\ beamCalls = {} /\ server' = "stopping"
       \/ server = "gone" /\ tasks = {} /\ UNCHANGED server
    /\ lifecycle' = "flagged"
    /\ UNCHANGED <<caller, replies, beamCalls, tasks, queue, worker, slots, event, host>>

ShutdownWake ==
    /\ lifecycle = "flagged"
    /\ lifecycle' = "woken"
    /\ event' = [o \in DOMAIN event |-> IF \E id \in DOMAIN slots : slots[id] = o
                                        THEN "shutdown" ELSE event[o]]
    /\ UNCHANGED <<elixir, queue, worker, slots, host>>

ShutdownStop ==
    /\ lifecycle = "woken"
    /\ lifecycle' = "joining"
    /\ Enqueue(Stop)
    /\ UNCHANGED <<elixir, worker, slots, event, host>>

ShutdownJoin ==
    /\ lifecycle = "joining" /\ exited
    /\ lifecycle' = "joined"
    /\ \/ server = "stopping" /\ Gone
       \/ server = "gone" /\ UNCHANGED <<server, caller, replies, beamCalls>>
    /\ UNCHANGED <<tasks, queue, worker, slots, event, host>>

Shutdown == ShutdownFlag \/ ShutdownWake \/ ShutdownStop \/ ShutdownJoin

-----------------------------------------------------------------------------
(* call_runtime_function_sync on another thread: slot, message, park.         *)
HostStart(h) ==
    /\ host[h].pc = "idle" /\ server = "up"
    /\ LET id == HostBase + Cardinality({g \in Host : host[g].pc # "idle"})
       IN  /\ host' = [host EXCEPT ![h] = [pc |-> "putting", id |-> id]]
           /\ slots' = Slotted(id, h)
           /\ event' = [event EXCEPT ![h] = "unset"]
    /\ UNCHANGED <<elixir, lifecycle, queue, worker>>

HostSend(h) ==
    /\ host[h].pc = "putting"
    /\ host' = [host EXCEPT ![h].pc = "parked"]
    /\ Enqueue(HostCall(h, host[h].id))
    /\ UNCHANGED <<elixir, lifecycle, worker, slots, event>>

HostReturn(h) ==
    /\ host[h].pc = "parked"
    /\ event[h] # "unset" \/ ShuttingDown
    /\ host' = [host EXCEPT ![h].pc = "done"]
    /\ slots' = Unslotted(host[h].id)
    /\ UNCHANGED <<elixir, lifecycle, queue, worker, event>>

-----------------------------------------------------------------------------
Init ==
    /\ server = "up" /\ lifecycle = "running"
    /\ caller = [c \in Caller |-> [pc |-> "idle", kind |-> "eval"]]
    /\ replies = {} /\ beamCalls = {} /\ tasks = {}
    /\ queue = << >> /\ stack = << >> /\ exited = FALSE
    /\ pending = << >> /\ nextId = 1 /\ resets = 0
    /\ slots = << >>
    /\ event = [o \in Host \cup {Js} |-> "unset"]
    /\ host = [h \in Host |-> [pc |-> "idle", id |-> HostBase]]

Next ==
    \/ Worker \/ Shutdown \/ Terminate \/ Kill
    \/ \E c \in Caller : Call(c) \/ HandleCall(c) \/ HandleReply(c)
    \/ \E call \in beamCalls : HandleBeamCall(call) \/ DrainBeamCall(call)
    \/ \E call \in tasks : TaskEnds(call)
    \/ \E h \in Host : HostStart(h) \/ HostSend(h) \/ HostReturn(h)

Spec == Init /\ [][Next]_vars

(* The worker runs its loop, JavaScript ends (a deadline interrupts it) and   *)
(* await_promise gives up in the end (promise_wait_expired);                  *)
(* the server works off its mailbox, handlers end, threads are scheduled.     *)
Fairness ==
    /\ WF_vars(Worker) /\ WF_vars(AwaitEnds) /\ WF_vars(Shutdown)
    /\ \A c \in Caller : WF_vars(HandleCall(c)) /\ WF_vars(HandleReply(c))
    /\ \A id \in CallId :
          /\ WF_vars(\E call \in beamCalls : call.id = id /\ HandleBeamCall(call))
          /\ WF_vars(\E call \in beamCalls : call.id = id /\ DrainBeamCall(call))
          /\ WF_vars(\E call \in tasks : call.id = id /\ TaskEnds(call))
    /\ \A h \in Host : WF_vars(HostSend(h)) /\ WF_vars(HostReturn(h))
FairSpec == Spec /\ Fairness

-----------------------------------------------------------------------------
BeamCallMsg == [id : CallId, context : Nat, sync : BOOLEAN]
Message == [type : {"request"}, from : Caller, kind : Kind \cup {"eval"}]
           \cup [type : {"sync"}, by : Host, id : HostId]
           \cup [type : {"resolve"}, id : CallId, context : Nat]
           \cup {Stop}
Frame == [at : {"js"}, msg : Message \cup {Continuation}]
         \cup [at : {"await"}, msg : Message, on : CallId]
         \cup [at : {"putting", "parked"}, id : CallId]

(* The types of the runtime's two processes and of what they share. *)
TypeOK ==
    /\ server \in {"up", "draining", "stopping", "gone"}
    /\ lifecycle \in {"running", "flagged", "woken", "joining", "joined"}
    /\ caller \in [Caller -> [pc : {"idle", "calling", "pending"}, kind : Kind \cup {"eval"}]]
    /\ replies \subseteq Caller
    /\ beamCalls \subseteq BeamCallMsg /\ tasks \subseteq BeamCallMsg
    /\ queue \in Seq(Message) /\ stack \in Seq(Frame)
    /\ exited \in BOOLEAN
    /\ DOMAIN pending \subseteq CallId /\ \A id \in DOMAIN pending : pending[id] \in Nat
    /\ nextId \in 1..(MaxCalls + 1) /\ resets \in Nat
    /\ DOMAIN slots \subseteq CallId \cup HostId
    /\ \A id \in DOMAIN slots : slots[id] \in Host \cup {Js}
    /\ event \in [Host \cup {Js} -> {"unset", "own", "foreign", "shutdown"}]
    /\ host \in [Host -> [pc : {"idle", "putting", "parked", "done"}, id : HostId]]

(* Where the request of c is on its way through the runtime. *)
OnStack(c) == {i \in DOMAIN stack : /\ stack[i].at \in {"js", "await"}
                                    /\ stack[i].msg.type = "request"
                                    /\ stack[i].msg.from = c}
InQueue(c) == {i \in DOMAIN queue : queue[i].type = "request" /\ queue[i].from = c}
Places(c) == Cardinality(OnStack(c)) + Cardinality(InQueue(c))
             + (IF c \in replies THEN 1 ELSE 0)

(* A request that the server waits for and nobody will answer. *)
Lost(c) == caller[c].pc = "pending" /\ Places(c) = 0

(* shutdown_runtime joins a worker that will never see its stop message. *)
StopLost == /\ lifecycle = "joining" /\ ~exited
            /\ \A i \in DOMAIN queue : queue[i].type # "stop"

(* A parked call that no handler, mailbox or message will ever answer.        *)
Orphaned ==
    /\ Innermost("parked") /\ event[Js] = "unset" /\ ~ShuttingDown
    /\ \A call \in beamCalls \cup tasks : call.id # Last(stack).id
    /\ \A i \in DOMAIN queue :
          queue[i].type = "resolve" => queue[i].id # Last(stack).id

(* No request is answered twice or by two frames: while its server is there,  *)
(* a request is in the queue, in one frame or answered, and only if awaited.  *)
AnsweredOnce ==
    server # "gone" => \A c \in Caller : /\ Places(c) <= 1
                                          /\ Places(c) = 1 => caller[c].pc = "pending"

(* "Keep the slot mutex held through publication": sync_slots points only to  *)
(* slots on the stack of a thread that is still inside its call.              *)
SlotsOnStack ==
    \A id \in DOMAIN slots :
        \/ /\ slots[id] = Js
           /\ Innermost("putting") \/ Innermost("parked")
           /\ Last(stack).id = id
        \/ /\ slots[id] \in Host
           /\ host[slots[id]].pc \in {"putting", "parked"} /\ host[slots[id]].id = id

(* "signals the event with the result": a parked thread is woken with the     *)
(* result of its own call or by the shutdown.                                 *)
OwnResult == \A o \in Host \cup {Js} : event[o] # "foreign"

(* The slots, and with them the worker's stack, are in order. *)
SlotsExact == TypeOK /\ SlotsOnStack /\ OwnResult

(* A resolve message that is late, from before a reset, settles no promise of *)
(* the context that came after.                                               *)
ResolvesOwnContext ==
    /\ \A i \in DOMAIN queue :
          (queue[i].type = "resolve" /\ queue[i].id \in DOMAIN pending)
              => pending[queue[i].id] = queue[i].context
    /\ \A call \in tasks \cup beamCalls :
          call.id \in DOMAIN pending => pending[call.id] = call.context

(* Requests and the stop message get lost in await_promise and nowhere else.  *)
LostOnlyInAwait ==
    [][/\ \A c \in Caller : (~Lost(c) /\ Lost(c)') => Innermost("await") /\ Head(queue).kind # "global"
       /\ (~StopLost /\ StopLost') => Innermost("await")]_vars

(* A request is answered, or its await_promise discarded it, or the worker    *)
(* waits for a handler that exited: there is no fourth way to hang a caller.  *)
RequestEnds(c) ==
    (caller[c].pc = "pending")
        ~> (caller[c].pc # "pending" \/ Lost(c) \/ Orphaned \/ StopLost)
AnsweredOrLost == \A c \in Caller : RequestEnds(c)

(* A host call returns, also from a runtime that shuts down, unless the       *)
(* worker waits for a handler that exited.                                    *)
HostReturns ==
    \A h \in Host : (host[h].pc = "parked") ~> (host[h].pc = "done" \/ Orphaned)

(* A runtime that shuts down gets its thread out of every parked call and     *)
(* joins it, unless await_promise took its stop message.                      *)
StoppedOrLost == ShuttingDown ~> (lifecycle = "joined" \/ StopLost)

(* GenServer.call ... <- receive {ref, {:ok, value}}: each request that       *)
(* reached the worker is answered.                                            *)
CallersAnswered ==
    \A c \in Caller : (caller[c].pc = "pending") ~> (caller[c].pc # "pending")
=============================================================================
