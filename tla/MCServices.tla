------------------------------ MODULE MCServices ------------------------------
(***************************************************************************)
(* Components that share nothing, each with an instance of its own and all *)
(* in one run of TLC: in a behaviour only one of them moves, the others    *)
(* stay as they start, where nothing is fair to do.  So the states of the  *)
(* components add up and do not multiply.                                  *)
(***************************************************************************)
EXTENDS Services, TLC

CONSTANTS t1, t2, t3,
          a, b, c1, c2, NoTerm,
          h1, Js

VARIABLES component,
          storeUp, storeEntries, storeSlots, storePending, storeResidency, storeTerms,
          storeClient, storeAlive, storeCrashes,
          jsServer, jsLifecycle, jsCaller, jsReplies, jsBeamCalls, jsTasks, jsQueue,
          jsStack, jsExited, jsPending, jsNextId, jsResets, jsSlots, jsEvent, jsHost

storeVars == <<storeUp, storeEntries, storeSlots, storePending, storeResidency,
                   storeTerms, storeClient, storeAlive, storeCrashes>>
jsVars == <<jsServer, jsLifecycle, jsCaller, jsReplies, jsBeamCalls, jsTasks, jsQueue,
                jsStack, jsExited, jsPending, jsNextId, jsResets, jsSlots, jsEvent, jsHost>>
evalVars == <<evalOptions, evalCaller, evalEvaluation, evalOperations, evalCoordinator,
                  evalHandler, evalKilled, evalResults, evalHostReplies, evalReply>>
timersVars == <<timersTimer, timersInterval, timersWorker, timersExpired, timersFiring>>
wsVars == <<wsReady, wsMissed, wsTask, wsTasks, wsRequests, wsOwner, wsMailbox,
            wsKnown, wsProcess, wsCasts, wsSocket, wsInputs, wsEvents>>

Sizes == a :> 2 @@ b :> 1

Store ==
    INSTANCE ProgramStore WITH
        Key <- {a, b}, Client <- {c1, c2}, Capacity <- 1, Size <- Sizes, Budget <- 3,
        MaxCrashes <- 1,
        up <- storeUp, entries <- storeEntries, slots <- storeSlots, pending <- storePending,
        residency <- storeResidency, terms <- storeTerms, client <- storeClient,
        alive <- storeAlive, crashes <- storeCrashes

Worker ==
    INSTANCE RuntimeWorker WITH
        Caller <- {c1, c2}, Host <- {h1}, HostBase <- 2, Awaits <- TRUE, Kind <- {"eval"},
        Outcome <- {"answer", "exit"}, MayStop <- TRUE, MaxCalls <- 1, MaxResets <- 0,
        server <- jsServer, lifecycle <- jsLifecycle, caller <- jsCaller,
        replies <- jsReplies, beamCalls <- jsBeamCalls, tasks <- jsTasks, queue <- jsQueue,
        stack <- jsStack, exited <- jsExited, pending <- jsPending, nextId <- jsNextId,
        resets <- jsResets, slots <- jsSlots, event <- jsEvent, host <- jsHost
-----------------------------------------------------------------------------
MCInit ==
    /\ component \in {"function", "store", "worker", "operations", "timers", "socket"}
    /\ Init /\ Store!Init /\ Worker!Init /\ Ops!Init /\ Clock!Init /\ Sock!Init
    /\ component # "operations" =>
          evalOptions = [isolation |-> "process", timeout |-> "finite"]

MCNext ==
    \/ /\ component = "function" /\ Next
       /\ UNCHANGED <<component, storeVars, jsVars, evalVars, timersVars, wsVars>>
    \/ /\ component = "store" /\ Store!Next
       /\ UNCHANGED <<component, vars, jsVars, evalVars, timersVars, wsVars>>
    \/ /\ component = "worker" /\ Worker!Next
       /\ UNCHANGED <<component, vars, storeVars, evalVars, timersVars, wsVars>>
    \/ /\ component = "operations" /\ Ops!Next
       /\ UNCHANGED <<component, vars, storeVars, jsVars, timersVars, wsVars>>
    \/ /\ component = "timers" /\ Clock!Next
       /\ UNCHANGED <<component, vars, storeVars, jsVars, evalVars, wsVars>>
    \/ /\ component = "socket" /\ Sock!Next
       /\ UNCHANGED <<component, vars, storeVars, jsVars, evalVars, timersVars>>

MCVars == <<component, vars, storeVars, jsVars, evalVars, timersVars, wsVars>>
MCSpec ==
    /\ MCInit /\ [][MCNext]_MCVars
    /\ Fairness /\ Store!Fairness /\ Worker!Fairness
    /\ Ops!Fairness /\ Clock!Fairness /\ Sock!Fairness
-----------------------------------------------------------------------------
(* The properties are stated, with the code they are about, in the modules   *)
(* of the components.  Threads, clients, callers and timers are only ever    *)
(* compared with each other: what holds for one of them holds for all.       *)

(* A thread that is blocked when its function closes returns. *)
ClosingReturns1 == BlockedReturns(t1)
(* A pin that waits for another's installation is answered. *)
StoreWaitersAnswered == Store!WaiterAnswered(c1)
(* A deferred unpin of the one program, and of the other, completes. *)
StoreUnpinCompletes == Store!UnpinCompletes
(* A request is answered, or one of the known ways to lose it struck. *)
WorkerAnsweredOrLost == Worker!RequestEnds(c1)
(* Nobody who waits for the worker's thread is left behind: a host call of   *)
(* WebAssembly returns, and a runtime that shuts down joins its thread.      *)
WorkerReturns == Worker!HostReturns /\ Worker!StoppedOrLost
(* Handlers end with their evaluation. *)
HandlersEnd == Ops!HandlersEnd
(* eval returns. *)
CallerAnswered == Ops!CallerAnswered
(* An expired timer is called or cleared. *)
ExpiredFires == Clock!TimerFires(1)
(* close() arrives. *)
CloseArrives == Sock!CloseArrives
=============================================================================
