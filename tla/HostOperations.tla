---------------------------- MODULE HostOperations ----------------------------
(***************************************************************************)
(* Handlers of Beam.call in an evaluation on the BEAM: the processes       *)
(* around one evaluation (vm/runtime/async.ex, the receive of              *)
(* vm/runtime.ex and the containment of vm/runtime/engine.ex).             *)
(*                                                                         *)
(* The caller of VM.eval spawns a process for the evaluation, or evaluates *)
(* itself (isolation: :caller).  Each Beam.call starts a coordinator,      *)
(* which monitors the evaluation's process and is linked to the process    *)
(* that runs the handler.  What the JavaScript does with its promises is   *)
(* module Promises; here it calls, waits, goes on or ends at will.         *)
(***************************************************************************)
EXTENDS Naturals, FiniteSets

CONSTANTS Operation,      \* references of Beam.call; bound: those one evaluation makes
          MaxOperations   \* @max_host_operations

VARIABLES options,      \* isolation and whether the evaluation has a timeout
          caller,       \* the process that called eval
          evaluation,   \* the process that evaluates; the caller itself under :caller
          operations,   \* the evaluation's map of operations it waits for
          coordinator,  \* coordinate_handler of each operation
          handler,      \* the process that runs the handler of each operation
          killed,       \* coordinators and handlers with an exit signal on the way
          results,      \* handlers' results in the mailboxes of their coordinators
          host_replies, \* replies in the mailbox of the evaluation
          reply         \* the evaluation's result in the mailbox of the caller

vars == <<options, caller, evaluation, operations, coordinator, handler, killed, results,
          host_replies, reply>>
processes == <<coordinator, handler, killed, results>>

Options == [isolation : {"process", "caller"}, timeout : {"finite", "infinity"}]
Isolated == options.isolation = "process"
Live == {"starting", "waiting"}

Init ==
    /\ options \in Options
    /\ caller = "idle"
    /\ evaluation = "none"
    /\ operations = {}
    /\ coordinator = [o \in Operation |-> "none"]
    /\ handler = [o \in Operation |-> "none"]
    /\ killed = {}
    /\ results = {}
    /\ host_replies = {}
    /\ reply = FALSE
-----------------------------------------------------------------------------
(* eval_isolated_program, or evaluate in the caller's own process. *)
Eval ==
    /\ caller = "idle"
    /\ caller' = IF Isolated THEN "waiting" ELSE "evaluating"
    /\ evaluation' = "script"
    /\ UNCHANGED <<options, operations, processes, host_replies, reply>>

(* start_host_call and start_handler_task.  Over the limit the evaluation    *)
(* ends with an error (Finish).                                              *)
StartHostCall(o) ==
    /\ evaluation = "script" /\ coordinator[o] = "none"
    /\ Cardinality(operations) < MaxOperations
    /\ operations' = operations \cup {o}
    /\ coordinator' = [coordinator EXCEPT ![o] = "starting"]
    /\ UNCHANGED <<options, caller, evaluation, handler, killed, results, host_replies, reply>>

(* The jobs are drained and the final promise is pending: receive, or the    *)
(* verdict promise_deadlock when no operation is left.                       *)
Drained ==
    /\ evaluation = "script"
    /\ evaluation' = IF operations = {} THEN "cancelling" ELSE "receiving"
    /\ UNCHANGED <<options, caller, operations, processes, host_replies, reply>>

(* receive_host_reply: a reply of an operation that is no longer in the map  *)
(* is stale.                                                                 *)
ReceiveHostReply_KeepsOperation(o) ==
    /\ evaluation = "receiving" /\ o \in host_replies
    /\ host_replies' = host_replies \ {o}
    /\ evaluation' = IF o \in operations THEN "script" ELSE "receiving"
    /\ UNCHANGED <<options, caller, operations, processes, reply>>
ReceiveHostReply(o) ==
    /\ evaluation = "receiving" /\ o \in host_replies
    /\ host_replies' = host_replies \ {o}
    /\ operations' = operations \ {o}
    /\ evaluation' = IF o \in operations THEN "script" ELSE "receiving"
    /\ UNCHANGED <<options, caller, processes, reply>>

(* The evaluation has its result or its error: finish_final. *)
Finish ==
    /\ evaluation = "script"
    /\ evaluation' = "cancelling"
    /\ UNCHANGED <<options, caller, operations, processes, host_replies, reply>>

(* cancel_operations kills the coordinators that are alive. *)
CancelOperations_ForgetsStarting ==
    /\ evaluation = "cancelling"
    /\ killed' = killed \cup {<<"coordinator", o>> : o \in {o \in operations : handler[o] # "none"}}
    /\ evaluation' = "done"
    /\ UNCHANGED <<options, caller, operations, coordinator, handler, results, host_replies, reply>>
CancelOperations ==
    /\ evaluation = "cancelling"
    /\ killed' = killed \cup {<<"coordinator", o>> :
                     o \in {o \in operations : coordinator[o] \in Live}}
    /\ evaluation' = "done"
    /\ UNCHANGED <<options, caller, operations, coordinator, handler, results, host_replies, reply>>

(* The result is sent to the caller and the process ends, or eval returns.   *)
Reply ==
    /\ evaluation = "done"
    /\ IF Isolated THEN evaluation' = "dead" /\ reply' = TRUE /\ UNCHANGED caller
                   ELSE evaluation' = "over" /\ caller' = "returned" /\ UNCHANGED reply
    /\ UNCHANGED <<options, operations, processes, host_replies>>

(* An exception of the engine skips the cancellation.  safe_evaluate makes   *)
(* it a result; the caller's own process gets it as it is.                   *)
Crash ==
    /\ evaluation = "script"
    /\ IF Isolated THEN evaluation' = "dead" /\ reply' = TRUE /\ UNCHANGED caller
                   ELSE evaluation' = "crashed" /\ caller' = "returned" /\ UNCHANGED reply
    /\ UNCHANGED <<options, operations, processes, host_replies>>

(* max_heap_size kills the evaluation's process. *)
OutOfMemory ==
    /\ Isolated /\ evaluation \in {"script", "receiving", "cancelling", "done"}
    /\ evaluation' = "dead"
    /\ UNCHANGED <<options, caller, operations, processes, host_replies, reply>>
-----------------------------------------------------------------------------
(* coordinate_handler: monitor the owner, spawn the handler and receive.     *)
CoordinatorStarts(o) ==
    /\ coordinator[o] = "starting"
    /\ coordinator' = [coordinator EXCEPT ![o] = "waiting"]
    /\ handler' = [handler EXCEPT ![o] = "running"]
    /\ UNCHANGED <<options, caller, evaluation, operations, killed, results, host_replies, reply>>

(* invoke_handler returns, raises, throws or exits: all are results. *)
HandlerReturns(o) ==
    /\ handler[o] = "running"
    /\ handler' = [handler EXCEPT ![o] = "ended"]
    /\ results' = results \cup {o}
    /\ UNCHANGED <<options, caller, evaluation, operations, coordinator, killed, host_replies, reply>>

(* Someone kills the handler, or a process it is linked to fails. *)
HandlerKilled(o) ==
    /\ handler[o] = "running"
    /\ killed' = killed \cup {<<"handler", o>>}
    /\ UNCHANGED <<options, caller, evaluation, operations, coordinator, handler, results,
                   host_replies, reply>>

CoordinatorReplies(o) ==
    /\ coordinator[o] = "waiting" /\ o \in results
    /\ coordinator' = [coordinator EXCEPT ![o] = "dead"]
    /\ results' = results \ {o}
    /\ host_replies' = IF evaluation = "dead" THEN host_replies ELSE host_replies \cup {o}
    /\ UNCHANGED <<options, caller, evaluation, operations, handler, killed, reply>>

OwnerDown(o) ==
    /\ coordinator[o] = "waiting" /\ o \notin results /\ evaluation = "dead"
    /\ coordinator' = [coordinator EXCEPT ![o] = "dead"]
    /\ killed' = killed \cup {<<"handler", o>>}
    /\ UNCHANGED <<options, caller, evaluation, operations, handler, results, host_replies, reply>>

(* An exit signal arrives.  The link takes it to the other process, unless   *)
(* that one has ended.                                                       *)
Dies(kind, o) ==
    /\ <<kind, o>> \in killed
    /\ LET lives == IF kind = "handler" THEN handler[o] = "running"
                                        ELSE coordinator[o] \in Live
           other == IF kind = "handler" THEN "coordinator" ELSE "handler"
           linked == lives /\ handler[o] = "running" /\ coordinator[o] = "waiting"
       IN  /\ killed' = (killed \ {<<kind, o>>}) \cup (IF linked THEN {<<other, o>>} ELSE {})
           /\ handler' = [handler EXCEPT ![o] =
                             IF kind = "handler" /\ lives THEN "killed" ELSE @]
           /\ coordinator' = [coordinator EXCEPT ![o] =
                             IF kind = "coordinator" /\ lives THEN "dead" ELSE @]
    /\ UNCHANGED <<options, caller, evaluation, operations, results, host_replies, reply>>
-----------------------------------------------------------------------------
(* await_evaluation: the first of the reply and the DOWN, which an ending    *)
(* process sends in this order.                                              *)
CallerReceives_ReplyOnly ==
    /\ caller = "waiting" /\ reply
    /\ caller' = "returned"
    /\ reply' = FALSE
    /\ UNCHANGED <<options, evaluation, operations, processes, host_replies>>
CallerReceives ==
    /\ caller = "waiting" /\ (reply \/ evaluation = "dead")
    /\ caller' = "returned"
    /\ reply' = FALSE
    /\ UNCHANGED <<options, evaluation, operations, processes, host_replies>>

Timeout ==
    /\ caller = "waiting" /\ options.timeout = "finite"
    /\ ~reply /\ evaluation # "dead"
    /\ caller' = "killing"
    /\ UNCHANGED <<options, evaluation, operations, processes, host_replies, reply>>

(* The kill arrives, unless the process ends before. *)
Killed ==
    /\ caller = "killing" /\ evaluation # "dead"
    /\ evaluation' = "dead"
    /\ UNCHANGED <<options, caller, operations, processes, host_replies, reply>>

(* await_down and flush_reply.  A process is dead well within the second     *)
(* that await_down waits.                                                    *)
FlushReply ==
    /\ caller = "killing" /\ evaluation = "dead"
    /\ caller' = "returned"
    /\ reply' = FALSE
    /\ UNCHANGED <<options, evaluation, operations, processes, host_replies>>
-----------------------------------------------------------------------------
Evaluating == \/ Drained \/ Finish \/ CancelOperations \/ Reply
              \/ \E o \in Operation : ReceiveHostReply(o)

Next ==
    \/ Eval \/ Evaluating \/ Crash \/ OutOfMemory
    \/ \E o \in Operation :
          \/ StartHostCall(o) \/ CoordinatorStarts(o) \/ HandlerReturns(o) \/ HandlerKilled(o)
          \/ CoordinatorReplies(o) \/ OwnerDown(o)
          \/ Dies("handler", o) \/ Dies("coordinator", o)
    \/ CallerReceives \/ Timeout \/ Killed \/ FlushReply

Spec == Init /\ [][Next]_vars

(* Processes are scheduled, signals arrive, timers fire.  A handler may run  *)
(* for ever.                                                                 *)
Fairness ==
    /\ WF_vars(Evaluating) /\ WF_vars(CallerReceives) /\ WF_vars(Timeout)
    /\ WF_vars(Killed) /\ WF_vars(FlushReply)
    /\ \A o \in Operation :
          /\ WF_vars(CoordinatorStarts(o)) /\ WF_vars(CoordinatorReplies(o))
          /\ WF_vars(OwnerDown(o))
          /\ WF_vars(Dies("handler", o)) /\ WF_vars(Dies("coordinator", o))
FairSpec == Spec /\ Fairness
-----------------------------------------------------------------------------
TypeOK ==
    /\ options \in Options
    /\ caller \in {"idle", "evaluating", "waiting", "killing", "returned"}
    /\ evaluation \in {"none", "script", "receiving", "cancelling", "done", "dead", "over",
                       "crashed"}
    /\ operations \subseteq Operation
    /\ coordinator \in [Operation -> Live \cup {"none", "dead"}]
    /\ handler \in [Operation -> {"none", "running", "ended", "killed"}]
    /\ killed \subseteq {"coordinator", "handler"} \X Operation
    /\ results \subseteq Operation /\ host_replies \subseteq Operation
    /\ reply \in BOOLEAN

(* What the evaluation waits for is still on its way, unless the handler was *)
(* killed: then the coordinator goes with it and nobody settles the promise. *)
OperationsAccounted ==
    evaluation \in {"script", "receiving"} =>
        \A o \in operations :
            \/ coordinator[o] \in Live \/ o \in host_replies \/ handler[o] = "killed"

(* What VM.eval leaves in its caller's mailbox.  No result: one that was     *)
(* under way when the timeout struck is flushed.  Of an isolated evaluation  *)
(* nothing, and nobody who could send there: its process is dead, and the    *)
(* replies of its handlers go to that process only.  Under isolation: :caller*)
(* the replies of operations that were given up may be left, and none else:  *)
(* a later evaluation does not know them and skips them (receive_host_reply);*)
(* and every coordinator that could still reply is being killed, unless an   *)
(* exception of the engine in the caller's process left it ("crashed").      *)
NoStrayReply ==
    caller = "returned" =>
        /\ ~reply
        /\ Isolated => evaluation = "dead"
        /\ evaluation = "over" =>
              /\ host_replies \subseteq operations
              /\ \A o \in Operation : coordinator[o] \in Live => <<"coordinator", o>> \in killed

(* "cancels an asynchronous handler when a call times out": whichever way an *)
(* evaluation ends, none of its handlers and coordinators keeps running; but *)
(* an exception of the engine in the caller's process leaves them.           *)
HandlersEnd ==
    evaluation \in {"dead", "over"} ~>
        \A o \in Operation : handler[o] # "running" /\ coordinator[o] \notin Live

(* The caller gets its answer: within the timeout, whatever the handlers do, *)
(* and without one unless a handler never returns or was killed.             *)
CallerAnswered ==
    caller = "waiting" ~>
        \/ caller = "returned"
        \/ options.timeout = "infinity" /\ \E o \in operations : handler[o] \in {"running", "killed"}
=============================================================================
