-------------------------------- MODULE Services --------------------------------
(***************************************************************************)
(* Components that share nothing, each an instance of its own: the         *)
(* thread-safe function (this module's own Init, Next and Spec), the       *)
(* processes around one evaluation on the BEAM, the timers of a worker,    *)
(* and a socket.  The properties are stated, with the code they are about, *)
(* in the modules of the components.                                       *)
(***************************************************************************)
EXTENDS ThreadSafeFunction

CONSTANTS Operation, MaxOperations,   \* of HostOperations
          Timer, BufferSize,          \* of Timers
          MaxRequests, MaxInputs      \* of WebSocket

ASSUME ServicesAssumption == MaxRequests \in Nat /\ MaxInputs \in Nat

VARIABLES evalOptions, evalCaller, evalEvaluation, evalOperations, evalCoordinator,
          evalHandler, evalKilled, evalResults, evalHostReplies, evalReply,
          timersTimer, timersInterval, timersWorker, timersExpired, timersFiring,
          wsReady, wsMissed, wsTask, wsTasks, wsRequests, wsOwner, wsMailbox, wsKnown,
          wsProcess, wsCasts, wsSocket, wsInputs, wsEvents

Ops ==
    INSTANCE HostOperations WITH
        options <- evalOptions, caller <- evalCaller, evaluation <- evalEvaluation,
        operations <- evalOperations, coordinator <- evalCoordinator,
        handler <- evalHandler, killed <- evalKilled, results <- evalResults,
        host_replies <- evalHostReplies, reply <- evalReply

Clock ==
    INSTANCE Timers WITH
        timer <- timersTimer, interval <- timersInterval, worker <- timersWorker,
        expired <- timersExpired, firing <- timersFiring

Sock ==
    INSTANCE WebSocket WITH
        ready <- wsReady, missed <- wsMissed, task <- wsTask, tasks <- wsTasks,
        requests <- wsRequests, owner <- wsOwner, mailbox <- wsMailbox, known <- wsKnown,
        process <- wsProcess, casts <- wsCasts, socket <- wsSocket, inputs <- wsInputs,
        events <- wsEvents
-----------------------------------------------------------------------------
(* Every operation that is waited for is under way, and eval leaves no       *)
(* result to its caller's mailbox, and replies of operations only under      *)
(* isolation: :caller, of those it gave up (VM.eval and async.ex).           *)
OperationsSound == Ops!TypeOK /\ Ops!OperationsAccounted /\ Ops!NoStrayReply
(* A cleared timer is never called (timers.zig). *)
ClearedNeverFires == Clock!ClearedNeverFires
(* Requests find their connection, and an object gets one close event        *)
(* (web_socket.ex, websocket.ts and the owner's server.ex).                  *)
SocketSound == Sock!TypeOK /\ Sock!FramesFindSocket /\ Sock!ClosesOnce
=============================================================================
