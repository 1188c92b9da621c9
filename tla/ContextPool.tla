------------------------------ MODULE ContextPool ------------------------------
(***************************************************************************)
(* A thread of a context pool: the pool's GenServer (context_pool.ex), the *)
(* GenServers of the contexts on the thread (context.ex), the thread that  *)
(* runs the JavaScript of them all (context_worker.zig) and its queue      *)
(* (context_types.zig, quickbeam.zig).                                     *)
(*                                                                         *)
(* While the JavaScript of one context waits, in await_promise or in       *)
(* Beam.callSync, the thread pumps its queue: it resolves the calls of any *)
(* context and puts back at the end what must not run inside a wait.       *)
(* `stack` is what the thread is in the middle of, the innermost last.     *)
(***************************************************************************)
EXTENDS Naturals, Sequences, SequencesExt, FiniteSets

CONSTANTS Context,     \* context processes
          Caller,      \* processes that use contexts
          None,        \* nobody
          Kind,        \* the requests made, within {"eval", "reset", "global"}
          Outcome,     \* how handlers end, within {"answer", "exit"}
          MayStop,     \* whether contexts and the pool are stopped
          MaxCalls,    \* bound: Beam.call and Beam.callSync calls
          MaxRequests, \* bound: requests of callers
          MaxTimeouts, \* bound: creations that take over 30 seconds
          MaxFaults    \* bound: those, stops and exit signals, together

ASSUME PoolAssumption ==
    /\ IsFiniteSet(Context) /\ None \notin Context
    /\ Kind \subseteq {"eval", "reset", "global"}
    /\ Outcome \subseteq {"answer", "exit"}
    /\ MayStop \in BOOLEAN
    /\ MaxCalls \in Nat /\ MaxRequests \in Nat /\ MaxTimeouts \in Nat /\ MaxFaults \in Nat

VARIABLES pool,      \* the pool's server: up, stopping (terminate), gone
          creating,  \* the context whose create_context it is handling
          created,   \* creations whose answer is in its mailbox
          nextId,    \* next_id
          timeouts,  \* creations given up
          faults,    \* creations given up, stops and exit signals
          server,    \* new, creating, up, stopped (terminated), killed
          contextId, \* the context_id each server has
          caller,    \* the context each caller waits for
          requests,  \* requests so far
          beamCalls, \* calls of JavaScript in the servers' mailboxes
          tasks,     \* calls whose handler runs in a Task
          queue,     \* messages to the thread
          stack,     \* frames of the thread
          entries,   \* contexts of the thread: id |-> owner and pending calls
          calls,     \* calls made so far
          lifecycle  \* of the thread: running, stopping, stopped, joined

counts == <<timeouts, faults, requests>>
elixir == <<pool, creating, created, nextId, server, contextId, counts>>
thread == <<stack, entries, calls>>
vars == <<elixir, caller, beamCalls, tasks, queue, thread, lifecycle>>

CallId == 1..MaxCalls
Id == 1..Cardinality(Context)

Create(x) == [type |-> "create", id |-> nextId, owner |-> x]
Destroy(x) == [type |-> "destroy", id |-> contextId[x]]
Request(c, x, kind) ==
    [type |-> "request", id |-> contextId[x], from |-> c, to |-> x, kind |-> kind]
Resolve(call) == [type |-> "resolve", id |-> contextId[call.to], call |-> call.call]
Stop == [type |-> "stop"]
Continuation == [type |-> "continuation"]

Running(id, msg) == [at |-> "js", id |-> id, msg |-> msg]
Awaiting(msg, call) == [at |-> "await", id |-> msg.id, msg |-> msg, on |-> call]
Parked(id, call) == [at |-> "parked", id |-> id, call |-> call, done |-> FALSE]

Entry(x) == [owner |-> x, pending |-> {}, next |-> 1]

Enqueue(msg) == queue' = Append(queue, msg)
Receive(type) == queue # << >> /\ Head(queue).type = type /\ queue' = Tail(queue)

(* send_reply: the answer to a request whose server is gone is dropped.       *)
Answered(msg) ==
    [c \in Caller |-> IF c = msg.from /\ caller[c] = msg.to THEN None ELSE caller[c]]
Answer(msg) == caller' = Answered(msg)

-----------------------------------------------------------------------------
MainLoop == stack = << >> /\ lifecycle \in {"running", "stopping"}
Innermost(at) == stack # << >> /\ Last(stack).at = at
Outer == Front(stack)

(* install_pump: the context of the request being run, and no other, has a    *)
(* drain_fn, which its waits call.                                            *)
Pumping ==
    /\ Innermost("await") \/ Innermost("parked")
    /\ stack[1].msg # Continuation
    /\ Last(stack).id = stack[1].id
    /\ Innermost("await") => Last(stack).on \in entries[Last(stack).id].pending

(* The promise's continuations run at once; unknown contexts and calls are    *)
(* ignored.                                                                   *)
IsPending(msg) == msg.id \in DOMAIN entries /\ msg.call \in entries[msg.id].pending

ResolvePending(msg) ==
    \/ /\ IsPending(msg)
       /\ entries' = [entries EXCEPT ![msg.id].pending = @ \ {msg.call}]
       /\ stack' = Append(stack, Running(msg.id, Continuation))
    \/ /\ ~IsPending(msg)
       /\ UNCHANGED <<entries, stack>>

(* handle_ctx_get_global: without its context, it is not answered. *)
GetGlobal(msg) == caller' = IF msg.id \in DOMAIN entries THEN Answered(msg) ELSE caller

(* handle_create_context: an entry of that id is replaced. *)
MainCreate ==
    /\ MainLoop /\ Receive("create")
    /\ LET msg == Head(queue)
       IN  /\ entries' = [i \in DOMAIN entries \cup {msg.id} |->
                             IF i = msg.id THEN Entry(msg.owner) ELSE entries[i]]
           /\ created' = IF pool = "gone" THEN created ELSE created \cup {msg.owner}
    /\ UNCHANGED <<pool, creating, nextId, counts, server, contextId, caller, beamCalls,
                   tasks, stack, calls, lifecycle>>

Destroyed_Nothing(id) == entries

Destroyed(id) == [i \in DOMAIN entries \ {id} |-> entries[i]]

(* handle_destroy_context *)
MainDestroy ==
    /\ MainLoop /\ Receive("destroy")
    /\ entries' = Destroyed(Head(queue).id)
    /\ UNCHANGED <<elixir, caller, beamCalls, tasks, stack, calls, lifecycle>>

(* handle_ctx_eval, handle_ctx_call *)
MainEval ==
    /\ MainLoop /\ Receive("request") /\ Head(queue).kind = "eval"
    /\ \/ /\ Head(queue).id \in DOMAIN entries
          /\ stack' = << Running(Head(queue).id, Head(queue)) >>
          /\ UNCHANGED caller
       \/ /\ Head(queue).id \notin DOMAIN entries
          /\ Answer(Head(queue))
          /\ UNCHANGED stack
    /\ UNCHANGED <<elixir, beamCalls, tasks, entries, calls, lifecycle>>

(* handle_ctx_reset *)
MainReset ==
    /\ MainLoop /\ Receive("request") /\ Head(queue).kind = "reset"
    /\ entries' = [i \in DOMAIN entries |-> IF i = Head(queue).id
                                            THEN [entries[i] EXCEPT !.pending = {}]
                                            ELSE entries[i]]
    /\ Answer(Head(queue))
    /\ UNCHANGED <<elixir, beamCalls, tasks, stack, calls, lifecycle>>

MainGlobal ==
    /\ MainLoop /\ Receive("request") /\ Head(queue).kind = "global"
    /\ GetGlobal(Head(queue))
    /\ UNCHANGED <<elixir, beamCalls, tasks, thread, lifecycle>>

MainResolve ==
    /\ MainLoop /\ Receive("resolve")
    /\ ResolvePending(Head(queue))
    /\ UNCHANGED <<elixir, caller, beamCalls, tasks, calls, lifecycle>>

(* The thread ends and frees its contexts. *)
MainStop ==
    /\ MainLoop /\ Receive("stop")
    /\ lifecycle' = "stopped"
    /\ entries' = << >>
    /\ UNCHANGED <<elixir, caller, beamCalls, tasks, stack, calls>>

-----------------------------------------------------------------------------
(* pool_drain_callback *)
DrainGlobal ==
    /\ Pumping /\ Receive("request") /\ Head(queue).kind = "global"
    /\ GetGlobal(Head(queue))
    /\ UNCHANGED <<elixir, beamCalls, tasks, thread, lifecycle>>

DrainResolve ==
    /\ Pumping /\ Receive("resolve")
    /\ ResolvePending(Head(queue))
    /\ UNCHANGED <<elixir, caller, beamCalls, tasks, calls, lifecycle>>

(* "Re-enqueue messages that can't be processed during a promise wait" *)
MustWait(msg) ==
    \/ msg.type \in {"create", "destroy", "stop"}
    \/ msg.type = "request" /\ msg.kind \in {"eval", "reset"}

Requeue_Dropped ==
    /\ Pumping /\ queue # << >> /\ MustWait(Head(queue))
    /\ queue' = Tail(queue)
    /\ UNCHANGED <<elixir, caller, beamCalls, tasks, thread, lifecycle>>

Requeue_DestroysNow ==
    /\ Pumping /\ queue # << >> /\ MustWait(Head(queue))
    /\ \/ /\ Head(queue).type = "destroy"
          /\ queue' = Tail(queue)
          /\ entries' = Destroyed(Head(queue).id)
       \/ /\ Head(queue).type # "destroy"
          /\ queue' = Append(Tail(queue), Head(queue))
          /\ UNCHANGED entries
    /\ UNCHANGED <<elixir, caller, beamCalls, tasks, stack, calls, lifecycle>>

Requeue ==
    /\ Pumping /\ queue # << >> /\ MustWait(Head(queue))
    /\ queue' = Append(Tail(queue), Head(queue))
    /\ UNCHANGED <<elixir, caller, beamCalls, tasks, thread, lifecycle>>

-----------------------------------------------------------------------------
(* Beam.call and Beam.callSync send to the owner of the context, if it still  *)
(* exists.  Each context counts its own calls.                                *)
Sends(id) ==
    /\ calls < MaxCalls /\ calls' = calls + 1
    /\ LET owner == entries[id].owner
       IN  beamCalls' = IF server[owner] \in {"stopped", "killed"} THEN beamCalls
                        ELSE beamCalls \cup {[to |-> owner, call |-> entries[id].next]}

BeamCall ==
    /\ Innermost("js")
    /\ LET id == Last(stack).id
       IN  /\ Sends(id)
           /\ entries' = [entries EXCEPT ![id].pending = @ \cup {entries[id].next},
                                         ![id].next = @ + 1]
    /\ UNCHANGED <<elixir, caller, tasks, queue, stack, lifecycle>>

CallSync ==
    /\ Innermost("js")
    /\ LET id == Last(stack).id
       IN  /\ Sends(id)
           /\ entries' = [entries EXCEPT ![id].next = @ + 1]
           /\ stack' = Append(stack, Parked(id, entries[id].next))
    /\ UNCHANGED <<elixir, caller, tasks, queue, lifecycle>>

(* Nothing else wakes it: shutdown_pool does not set the flag of a context.   *)
CallSyncReturn ==
    /\ Innermost("parked") /\ Last(stack).done
    /\ stack' = Outer
    /\ UNCHANGED <<elixir, caller, beamCalls, tasks, queue, entries, calls, lifecycle>>

Complete(msg) ==
    \/ msg = Continuation /\ UNCHANGED caller
    \/ msg # Continuation /\ Answer(msg)

ScriptReturns ==
    /\ Innermost("js")
    /\ Complete(Last(stack).msg)
    /\ stack' = Outer
    /\ UNCHANGED <<elixir, beamCalls, tasks, queue, entries, calls, lifecycle>>

(* Only a request waits for its promise: a continuation returns.              *)
ScriptAwaits ==
    /\ Innermost("js") /\ Last(stack).msg # Continuation
    /\ \E call \in entries[Last(stack).id].pending :
           stack' = Append(Outer, Awaiting(Last(stack).msg, call))
    /\ UNCHANGED <<elixir, caller, beamCalls, tasks, queue, entries, calls, lifecycle>>

AwaitEnds_NeverExpires ==
    /\ Innermost("await")
    /\ Last(stack).on \notin entries[Last(stack).id].pending
    /\ stack' = Outer
    /\ Answer(Last(stack).msg)
    /\ UNCHANGED <<elixir, beamCalls, tasks, queue, entries, calls, lifecycle>>

(* await_promise: the promise is settled, or promise_wait_expired.            *)
AwaitEnds ==
    /\ Innermost("await")
    /\ stack' = Outer
    /\ Answer(Last(stack).msg)
    /\ UNCHANGED <<elixir, beamCalls, tasks, queue, entries, calls, lifecycle>>

Thread ==
    \/ MainCreate \/ MainDestroy \/ MainEval \/ MainReset \/ MainGlobal \/ MainResolve \/ MainStop
    \/ DrainGlobal \/ DrainResolve \/ Requeue
    \/ BeamCall \/ CallSync \/ CallSyncReturn \/ ScriptReturns \/ ScriptAwaits \/ AwaitEnds

-----------------------------------------------------------------------------
(* The pool handles create_context and waits for the thread's answer.         *)
StartContext(x) ==
    /\ server[x] = "new" /\ pool = "up" /\ creating = None
    /\ server' = [server EXCEPT ![x] = "creating"]
    /\ creating' = x
    /\ Enqueue(Create(x))
    /\ UNCHANGED <<pool, created, nextId, counts, contextId, caller, beamCalls, tasks, thread,
                   lifecycle>>

ContextCreated(x) ==
    /\ creating = x /\ x \in created
    /\ creating' = None /\ created' = created \ {x}
    /\ nextId' = nextId + 1
    /\ server' = [server EXCEPT ![x] = IF @ = "creating" THEN "up" ELSE @]
    /\ contextId' = [contextId EXCEPT ![x] = nextId]
    /\ UNCHANGED <<pool, counts, caller, beamCalls, tasks, queue, thread, lifecycle>>

Fault == faults < MaxFaults /\ faults' = faults + 1

(* {:error, :timeout}: next_id stays, and the context fails to start. *)
CreateTimeout(x) ==
    /\ Fault
    /\ creating = x /\ x \notin created /\ timeouts < MaxTimeouts
    /\ timeouts' = timeouts + 1
    /\ creating' = None
    /\ server' = [server EXCEPT ![x] = "killed"]
    /\ UNCHANGED <<requests, pool, created, nextId, contextId, caller, beamCalls, tasks,
                   queue, thread, lifecycle>>

(* Whoever waits for a context's server learns that it has ended. *)
Gone(x) ==
    /\ caller' = [c \in Caller |-> IF caller[c] = x THEN None ELSE caller[c]]
    /\ beamCalls' = {call \in beamCalls : call.to # x}

(* Context.stop, or a callback that raises: terminate. *)
StopContext(x) ==
    /\ Fault
    /\ MayStop /\ server[x] = "up"
    /\ server' = [server EXCEPT ![x] = "stopped"]
    /\ Enqueue(Destroy(x))
    /\ Gone(x)
    /\ UNCHANGED <<pool, creating, created, nextId, timeouts, requests, contextId, tasks, thread,
                   lifecycle>>

(* An exit signal, of the process the context is linked to or of its          *)
(* supervisor: the server does not trap exits, so terminate does not run.     *)
KillContext(x) ==
    /\ Fault
    /\ server[x] \in {"creating", "up"}
    /\ server' = [server EXCEPT ![x] = "killed"]
    /\ Gone(x)
    /\ UNCHANGED <<pool, creating, created, nextId, timeouts, requests, contextId, tasks, queue,
                   thread, lifecycle>>

(* GenServer.call, handle_call and the NIF that enqueues the request. *)
Call(c) ==
    /\ caller[c] = None
    /\ requests < MaxRequests /\ requests' = requests + 1
    /\ \E x \in Context, kind \in Kind :
          /\ server[x] = "up"
          /\ caller' = [caller EXCEPT ![c] = x]
          /\ Enqueue(Request(c, x, kind))
    /\ UNCHANGED <<pool, creating, created, nextId, timeouts, faults, server, contextId, beamCalls,
                   tasks, thread, lifecycle>>

IsSlotOf(frame, call) ==
    frame.at = "parked" /\ frame.id = contextId[call.to] /\ frame.call = call.call

(* pool_resolve_call_term, pool_reject_call_term: to the parked thread or to  *)
(* the queue.                                                                 *)
ResolveCall(call) ==
    \/ /\ \E i \in DOMAIN stack : IsSlotOf(stack[i], call)
       /\ stack' = [i \in DOMAIN stack |-> IF IsSlotOf(stack[i], call)
                                           THEN [stack[i] EXCEPT !.done = TRUE]
                                           ELSE stack[i]]
       /\ UNCHANGED queue
    \/ /\ ~ \E i \in DOMAIN stack : IsSlotOf(stack[i], call)
       /\ Enqueue(Resolve(call))
       /\ UNCHANGED stack

(* handle_info {:beam_call, ...}: a Task, or an answer at once.               *)
HandleBeamCall(call) ==
    /\ call \in beamCalls /\ server[call.to] = "up"
    /\ beamCalls' = beamCalls \ {call}
    /\ \/ tasks' = tasks \cup {call} /\ UNCHANGED <<queue, stack>>
       \/ ResolveCall(call) /\ UNCHANGED tasks
    /\ UNCHANGED <<elixir, caller, entries, calls, lifecycle>>

(* The handler returns or raises; an exit or a throw is not rescued.          *)
TaskEnds(call) ==
    /\ call \in tasks
    /\ tasks' = tasks \ {call}
    /\ \/ "answer" \in Outcome /\ ResolveCall(call)
       \/ "exit" \in Outcome /\ UNCHANGED <<queue, stack>>
    /\ UNCHANGED <<elixir, caller, beamCalls, entries, calls, lifecycle>>

-----------------------------------------------------------------------------
(* shutdown_pool, up to the join. *)
Shutdown ==
    /\ lifecycle = "running" /\ lifecycle' = "stopping"
    /\ Enqueue(Stop)

(* The pool's terminate calls pool_stop. *)
StopPool ==
    /\ Fault
    /\ MayStop /\ pool = "up" /\ creating = None
    /\ pool' = "stopping"
    /\ Shutdown
    /\ UNCHANGED <<creating, created, nextId, timeouts, requests, server, contextId, caller,
                   beamCalls, tasks, thread>>

(* Killed, the pool takes with it the context that it is creating. *)
KillPool ==
    /\ Fault
    /\ MayStop /\ pool = "up"
    /\ pool' = "gone"
    /\ creating' = None /\ created' = {}
    /\ server' = [x \in Context |-> IF x = creating /\ server[x] = "creating" THEN "killed"
                                    ELSE server[x]]
    /\ UNCHANGED <<nextId, timeouts, requests, contextId, caller, beamCalls, tasks, queue, thread, lifecycle>>

(* The destructor of the thread's resource, when nothing refers to it.        *)
Destructor ==
    /\ pool = "gone" /\ tasks = {}
    /\ \A x \in Context : server[x] \notin {"creating", "up"}
    /\ Shutdown
    /\ UNCHANGED <<elixir, caller, beamCalls, tasks, thread>>

Join ==
    /\ lifecycle = "stopped" /\ lifecycle' = "joined"
    /\ pool' = "gone"
    /\ UNCHANGED <<creating, created, nextId, counts, server, contextId, caller, beamCalls, tasks,
                   queue, thread>>

Init ==
    /\ pool = "up" /\ creating = None /\ created = {} /\ nextId = 1
    /\ timeouts = 0 /\ faults = 0 /\ requests = 0
    /\ server = [x \in Context |-> "new"] /\ contextId = [x \in Context |-> 0]
    /\ caller = [c \in Caller |-> None]
    /\ beamCalls = {} /\ tasks = {}
    /\ queue = << >> /\ stack = << >> /\ entries = << >> /\ calls = 0
    /\ lifecycle = "running"

Next ==
    \/ Thread \/ StopPool \/ KillPool \/ Destructor \/ Join
    \/ \E x \in Context : \/ StartContext(x) \/ ContextCreated(x) \/ CreateTimeout(x)
                          \/ StopContext(x) \/ KillContext(x)
    \/ \E c \in Caller : Call(c)
    \/ \E call \in beamCalls : HandleBeamCall(call)
    \/ \E call \in tasks : TaskEnds(call)

Spec == Init /\ [][Next]_vars

(* The thread runs its loop, JavaScript ends (its reduction limit or deadline *)
(* interrupts it), await_promise gives up in the end, servers handle their    *)
(* messages and handlers end.                                                 *)
Fairness ==
    /\ WF_vars(Thread) /\ WF_vars(AwaitEnds) /\ WF_vars(CallSyncReturn)
    /\ WF_vars(Destructor) /\ WF_vars(Join)
    /\ \A x \in Context : WF_vars(ContextCreated(x))
    /\ WF_vars(\E call \in beamCalls : HandleBeamCall(call))
    /\ WF_vars(\E call \in tasks : TaskEnds(call))
FairSpec == Spec /\ Fairness

-----------------------------------------------------------------------------
Message ==
    [type : {"create"}, id : Id, owner : Context]
    \cup [type : {"destroy"}, id : Id]
    \cup [type : {"request"}, id : Id, from : Caller, to : Context, kind : Kind]
    \cup [type : {"resolve"}, id : Id, call : CallId]
    \cup {Stop}
Frame ==
    [at : {"js"}, id : Id, msg : Message \cup {Continuation}]
    \cup [at : {"await"}, id : Id, msg : Message, on : CallId]
    \cup [at : {"parked"}, id : Id, call : CallId, done : BOOLEAN]
BeamCallMsg == [to : Context, call : CallId]

(* The types of the pool, its contexts and its thread. *)
TypeOK ==
    /\ pool \in {"up", "stopping", "gone"}
    /\ creating \in Context \cup {None} /\ created \subseteq Context
    /\ nextId \in 1..(Cardinality(Context) + 1)
    /\ timeouts \in 0..MaxTimeouts /\ faults \in 0..MaxFaults /\ requests \in 0..MaxRequests
    /\ server \in [Context -> {"new", "creating", "up", "stopped", "killed"}]
    /\ contextId \in [Context -> Id \cup {0}]
    /\ caller \in [Caller -> Context \cup {None}]
    /\ beamCalls \subseteq BeamCallMsg /\ tasks \subseteq BeamCallMsg
    /\ queue \in Seq(Message) /\ stack \in Seq(Frame)
    /\ DOMAIN entries \subseteq Id
    /\ \A i \in DOMAIN entries :
          entries[i] \in [owner : Context, pending : SUBSET CallId, next : 1..(MaxCalls + 1)]
    /\ calls \in 0..MaxCalls
    /\ lifecycle \in {"running", "stopping", "stopped", "joined"}

InQueue(c) == {i \in DOMAIN queue : /\ queue[i].type = "request"
                                    /\ queue[i].from = c /\ queue[i].to = caller[c]}
OnStack(c) == {i \in DOMAIN stack : /\ stack[i].at \in {"js", "await"}
                                    /\ stack[i].msg.type = "request"
                                    /\ stack[i].msg.from = c /\ stack[i].msg.to = caller[c]}

(* The thread waits for an answer that nobody will give: the handler exited,  *)
(* or the context's server ended with the call in its mailbox or before it.   *)
Hung == /\ Innermost("parked") /\ ~Last(stack).done
        /\ \A call \in beamCalls \cup tasks : ~IsSlotOf(Last(stack), call)

(* A context in the middle of its JavaScript stays there: no frame of the     *)
(* thread belongs to a context that was destroyed or replaced underneath.     *)
FramesAlive ==
    \A i \in DOMAIN stack :
        /\ stack[i].id \in DOMAIN entries
        /\ stack[i].at = "await" => entries[stack[i].id].owner = stack[i].msg.to \/ timeouts > 0

(* "separate globals": until a creation times out, the entry of a context is  *)
(* its own, and so are the calls that are answered to it.                     *)
OwnEntry ==
    timeouts = 0 /\ lifecycle \in {"running", "stopping"} =>
        /\ \A x \in Context : server[x] = "up" =>
              contextId[x] \in DOMAIN entries /\ entries[contextId[x]].owner = x
        /\ \A call \in beamCalls : entries[contextId[call.to]].owner = call.to

(* What a caller waits for is in the queue or on the stack, once, whatever    *)
(* the pump did with it, until the thread ends.                               *)
RequestsKept ==
    lifecycle \in {"running", "stopping"} =>
        \A c \in Caller : caller[c] # None =>
            Cardinality(InQueue(c)) + Cardinality(OnStack(c)) = 1

(* The pump may serve any context in the middle of another's wait: it mixes   *)
(* up neither contexts nor requests.                                          *)
PumpSound == TypeOK /\ FramesAlive /\ OwnEntry /\ RequestsKept

(* A request to a context is answered, unless the thread hangs or has ended.  *)
RequestsAnswered ==
    \A c \in Caller :
        (caller[c] # None) ~> (caller[c] = None \/ Hung \/ lifecycle \in {"stopped", "joined"})

(* A context that was stopped is freed, although its destroy message may be   *)
(* put back many times.                                                       *)
StoppedFreed ==
    \A x \in Context :
        (server[x] = "stopped") ~> (Hung \/ \A i \in DOMAIN entries : entries[i].owner # x)

(* A pool that shuts down joins its thread, unless a call hangs in it.        *)
PoolStops == (lifecycle = "stopping") ~> (lifecycle = "joined" \/ Hung)

(* "terminates and cleans up automatically when the connection closes": a     *)
(* context whose server ended, for any reason, is freed.                      *)
EndedFreed ==
    \A x \in Context :
        (server[x] \in {"stopped", "killed"})
            ~> (Hung \/ \A i \in DOMAIN entries : entries[i].owner # x)
=============================================================================
