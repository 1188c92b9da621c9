----------------------------- MODULE ServicesProofs -----------------------------
(***************************************************************************)
(* Theorems about four components that share nothing, each an instance of  *)
(* its own as in Services, for every value of their constants:             *)
(* thread-safe functions, the processes around one evaluation on the BEAM, *)
(* timers, and sockets.                                                    *)
(***************************************************************************)
EXTENDS Services, SequenceLemmas

(***************************************************************************)
(* The thread-safe function, for every set of threads and every size of    *)
(* the queue: the loop of the worker is never broken by a message without  *)
(* an item, and nothing but the last release's broadcast is under way in a *)
(* function that was destroyed.                                            *)
(***************************************************************************)
LEMMA FunctionTypes == Spec => []TypeOK
<1>1. Init => TypeOK
  <2> SUFFICES ASSUME Init
               PROVE  TypeOK
    OBVIOUS
  <2>1. closing \in BOOLEAN /\ aborted \in BOOLEAN /\ freed \in BOOLEAN
    BY Zenon DEF Init
  <2>2. QED
    BY <2>1 DEF Init, TypeOK
<1>2. TypeOK /\ [Next]_vars => TypeOK'
  <2> SUFFICES ASSUME TypeOK, [Next]_vars
               PROVE  TypeOK'
    OBVIOUS
  <2> USE ThreadAssumption DEF TypeOK, Goto
  <2>1. ASSUME NEW t \in Thread, Call(t) \/ TestAgain(t)
        PROVE  TypeOK'
    BY <2>1 DEF Call, TestAgain, CallSection
  <2>2. ASSUME NEW t \in Thread, Wait(t) \/ SendMessage(t) \/ Release(t) \/ Close(t)
        PROVE  TypeOK'
    <3>1. closing' \in BOOLEAN /\ aborted' \in BOOLEAN /\ freed' \in BOOLEAN
      BY <2>2, Zenon DEF Wait, SendMessage, Release, Close
    <3>2. QED
      BY <2>2, <3>1 DEF Wait, SendMessage, Release, Close
  <2>3. ASSUME NEW t \in Thread, Broadcast(t)
        PROVE  TypeOK'
    BY <2>3 DEF Broadcast
  <2>4. CASE TakeItem
    BY <2>4 DEF TakeItem, Signal, At
  <2>5. CASE CallbackReturns \/ AwaitPromise \/ AwaitTakesMessage \/ AwaitEnds \/ Stop
    <3>1. closing' \in BOOLEAN /\ aborted' \in BOOLEAN /\ freed' \in BOOLEAN
      BY <2>5, Zenon DEF CallbackReturns, AwaitPromise, AwaitTakesMessage, AwaitEnds, Stop
    <3>2. QED
      BY <2>5, <3>1 DEF CallbackReturns, AwaitPromise, AwaitTakesMessage, AwaitEnds, Stop
  <2>6. CASE UNCHANGED vars
    BY <2>6 DEF vars
  <2>7. QED
    BY <2>1, <2>2, <2>3, <2>4, <2>5, <2>6 DEF Next
<1>3. QED
  BY <1>1, <1>2, PTL DEF Spec
-----------------------------------------------------------------------------
(* The threads between the unlock and their message can be counted. *)
LEMMA SendersFinite == /\ IsFiniteSet(At("sending"))
                       /\ Cardinality(At("sending")) \in Nat
BY ThreadAssumption, FS_Subset, FS_CardinalityType DEF At

(* A step that leaves the senders as they are and neither adds a message nor *)
(* takes an item keeps an item for every message.                            *)
LEMMA SameSenders ==
    ASSUME TypeOK, TypeOK', MessagesHaveItems,
           At("sending")' = At("sending"), messages' <= messages, items' >= items
    PROVE  MessagesHaveItems'
<1>1. Cardinality(At("sending"))' = Cardinality(At("sending"))
  OBVIOUS
<1>2. QED
  BY <1>1, SendersFinite DEF MessagesHaveItems, TypeOK

LEMMA ItemsStep ==
    ASSUME TypeOK, TypeOK', MessagesHaveItems, [Next]_vars
    PROVE  MessagesHaveItems'
<1> DEFINE S == At("sending")
<1>1. ASSUME NEW t \in Thread, pc[t] \in {"out", "woken"}, NEW blocking \in BOOLEAN,
             CallSection(t, blocking)
      PROVE  MessagesHaveItems'
  <2>1. CASE pc' = [pc EXCEPT ![t] = "sending"] /\ items' = items + 1
    <3>1. S' = S \cup {t} /\ t \notin S
      BY <1>1, <2>1 DEF At, TypeOK
    <3>2. Cardinality(S') = Cardinality(S) + 1
      BY <3>1, SendersFinite, FS_AddElement
    <3>3. QED
      BY <1>1, <2>1, <3>2, SendersFinite DEF CallSection, MessagesHaveItems, TypeOK
  <2>2. CASE items' = items /\ \E where \in {"out", "checked"} : pc' = [pc EXCEPT ![t] = where]
    <3>1. S' = S
      BY <1>1, <2>2 DEF At, TypeOK
    <3>2. QED
      BY <1>1, <2>2, <3>1, SameSenders DEF CallSection, TypeOK
  <2>3. QED
    BY <1>1, <2>1, <2>2 DEF CallSection, Goto
<1>2. ASSUME NEW t \in Thread, SendMessage(t)
      PROVE  MessagesHaveItems'
  <2>1. S' = S \ {t} /\ t \in S
    BY <1>2 DEF SendMessage, Goto, At, TypeOK
  <2>2. Cardinality(S') = Cardinality(S) - 1
    BY <2>1, SendersFinite, FS_RemoveElement
  <2>3. QED
    BY <1>2, <2>2, SendersFinite DEF SendMessage, MessagesHaveItems, TypeOK
<1>3. ASSUME NEW t \in Thread, Wait(t) \/ Release(t) \/ Close(t)
      PROVE  MessagesHaveItems'
  <2>1. S' = S
    BY <1>3 DEF Wait, Release, Close, Goto, At, TypeOK
  <2>2. QED
    BY <1>3, <2>1, SameSenders DEF Wait, Release, Close, TypeOK
<1>4. ASSUME NEW t \in Thread, Broadcast(t)
      PROVE  MessagesHaveItems'
  <2>1. S' = S
    BY <1>4 DEF Broadcast, At, TypeOK
  <2>2. QED
    BY <1>4, <2>1, SameSenders DEF Broadcast, TypeOK
<1>5. CASE TakeItem
  <2>1. items # 0
    BY <1>5, SendersFinite DEF TakeItem, MessagesHaveItems, TypeOK
  <2>2. S' = S
    BY <1>5, <2>1 DEF TakeItem, Signal, Goto, At, TypeOK
  <2>3. Cardinality(S') = Cardinality(S)
    BY <2>2
  <2>4. QED
    BY <1>5, <2>1, <2>3, SendersFinite DEF TakeItem, MessagesHaveItems, TypeOK
<1>6. CASE CallbackReturns \/ AwaitPromise \/ AwaitTakesMessage \/ AwaitEnds \/ Stop
           \/ UNCHANGED vars
  <2>1. S' = S
    BY <1>6 DEF CallbackReturns, AwaitPromise, AwaitTakesMessage, AwaitEnds, Stop, vars, At
  <2>2. messages' <= messages /\ items' >= items
    BY <1>6 DEF CallbackReturns, AwaitPromise, AwaitTakesMessage, AwaitEnds, Stop, vars, TypeOK
  <2>3. QED
    BY <2>1, <2>2, SameSenders
<1>7. QED
  BY <1>1, <1>2, <1>3, <1>4, <1>5, <1>6 DEF Next, Call, TestAgain

(* The break of worker.zig:1211, which ends the loop of the worker and with   *)
(* it the runtime, is not reached: whatever messages await_promise takes      *)
(* without their items, whoever calls and releases, and however many threads  *)
(* there are, a message of the loop finds an item.                            *)
THEOREM LoopGoesOn == Spec => []LoopUnbroken
<1> DEFINE Inv == MessagesHaveItems /\ LoopUnbroken
<1>1. Init => Inv
  <2> SUFFICES ASSUME Init
               PROVE  Inv
    OBVIOUS
  <2>1. At("sending") = {}
    BY DEF Init, At
  <2>2. QED
    BY <2>1, FS_EmptySet DEF Init, MessagesHaveItems, LoopUnbroken
<1>2. Inv /\ TypeOK /\ TypeOK' /\ [Next]_vars => Inv'
  <2> SUFFICES ASSUME Inv, TypeOK, TypeOK', [Next]_vars
               PROVE  Inv'
    OBVIOUS
  <2>1. MessagesHaveItems'
    BY ItemsStep
  <2>2. TakeItem => items # 0
    BY SendersFinite DEF TakeItem, MessagesHaveItems, TypeOK
  <2>3. ASSUME NEW t \in Thread,
               Call(t) \/ TestAgain(t) \/ Wait(t) \/ SendMessage(t) \/ Release(t) \/ Close(t)
                 \/ Broadcast(t)
        PROVE  worker' = worker
    BY <2>3 DEF Call, TestAgain, CallSection, Wait, SendMessage, Release, Close, Broadcast
  <2>4. LoopUnbroken'
    BY <2>2, <2>3 DEF LoopUnbroken, Next, TakeItem, CallbackReturns, AwaitPromise,
                      AwaitTakesMessage, AwaitEnds, Stop, vars
  <2>5. QED
    BY <2>1, <2>4
<1>3. QED
  BY <1>1, <1>2, FunctionTypes, PTL DEF Spec
-----------------------------------------------------------------------------
(* As long as no release has aborted, the flag is on its way only when the    *)
(* last thread has released: one thread sets it and all the others are gone.  *)
LastReleaseCloses ==
    /\ ~aborted =>
          /\ \A t \in Thread : pc[t] \in {"closing", "broadcasting"} =>
                 \A s \in Thread \ {t} : pc[s] = "gone"
          /\ closing => \A t \in Thread : pc[t] \in {"broadcasting", "gone"}
    /\ worker = "finalizing" \/ freed => closing

(* Threads that release when they are through, and do not abort: the function *)
(* is destroyed under none of them, except under the broadcast of the last    *)
(* release (tsfn.zig:93, worker.zig:1229).                                    *)
THEOREM FreedAfterRelease == Spec => []FreedUnused
<1>1. Init => LastReleaseCloses
  BY DEF Init, LastReleaseCloses
<1>2. LastReleaseCloses /\ TypeOK /\ [Next]_vars => LastReleaseCloses'
  <2> SUFFICES ASSUME LastReleaseCloses, TypeOK, [Next]_vars
               PROVE  LastReleaseCloses'
    OBVIOUS
  <2> USE DEF LastReleaseCloses, TypeOK, Goto
  <2>1. ASSUME NEW t \in Thread, Call(t) \/ TestAgain(t)
        PROVE  LastReleaseCloses'
    BY <2>1 DEF Call, TestAgain, CallSection
  <2>2. ASSUME NEW t \in Thread, Wait(t) \/ SendMessage(t)
        PROVE  LastReleaseCloses'
    BY <2>2 DEF Wait, SendMessage
  <2>3. ASSUME NEW t \in Thread, Release(t)
        PROVE  LastReleaseCloses'
    BY <2>3 DEF Release, Holders, At
  <2>4. ASSUME NEW t \in Thread, Close(t)
        PROVE  LastReleaseCloses'
    BY <2>4 DEF Close
  <2>5. ASSUME NEW t \in Thread, Broadcast(t)
        PROVE  LastReleaseCloses'
    BY <2>5 DEF Broadcast
  <2>6. CASE TakeItem
    BY <2>6 DEF TakeItem, Signal, At
  <2>7. CASE CallbackReturns \/ AwaitPromise \/ AwaitTakesMessage \/ AwaitEnds \/ Stop
             \/ UNCHANGED vars
    BY <2>7 DEF CallbackReturns, AwaitPromise, AwaitTakesMessage, AwaitEnds, Stop, vars
  <2>8. QED
    BY <2>1, <2>2, <2>3, <2>4, <2>5, <2>6, <2>7 DEF Next
<1>3. LastReleaseCloses => FreedUnused
  BY DEF LastReleaseCloses, FreedUnused
<1>4. QED
  BY <1>1, <1>2, <1>3, FunctionTypes, PTL DEF Spec
-----------------------------------------------------------------------------
(***************************************************************************)
(* The processes around one evaluation, for every set of operations and    *)
(* every limit of them: what the evaluation waits for is on its way, and   *)
(* what eval leaves behind it is accounted for.                            *)
(***************************************************************************)
LEMMA OperationsTypes == Ops!Spec => []Ops!TypeOK
<1>1. Ops!Init => Ops!TypeOK
  <2> SUFFICES ASSUME Ops!Init
               PROVE  Ops!TypeOK
    OBVIOUS
  <2>1. evalReply \in BOOLEAN
    BY Zenon DEF Ops!Init
  <2>2. QED
    BY <2>1 DEF Ops!Init, Ops!TypeOK, Ops!Live
<1>2. Ops!TypeOK /\ [Ops!Next]_Ops!vars => Ops!TypeOK'
  <2> SUFFICES ASSUME Ops!TypeOK, [Ops!Next]_Ops!vars
               PROVE  Ops!TypeOK'
    OBVIOUS
  <2> USE DEF Ops!TypeOK, Ops!Live, Ops!processes
  <2>1. CASE Ops!Eval
    BY <2>1 DEF Ops!Eval
  <2>2. CASE Ops!Drained \/ Ops!Finish \/ Ops!CancelOperations \/ Ops!Reply
    <3>1. evalReply' \in BOOLEAN
      BY <2>2, Zenon DEF Ops!Drained, Ops!Finish, Ops!CancelOperations, Ops!Reply
    <3>2. QED
      BY <2>2, <3>1 DEF Ops!Drained, Ops!Finish, Ops!CancelOperations, Ops!Reply
  <2>3. CASE Ops!Crash \/ Ops!OutOfMemory \/ Ops!CallerReceives \/ Ops!Timeout
             \/ Ops!Killed \/ Ops!FlushReply
    <3>1. evalReply' \in BOOLEAN
      BY <2>3, Zenon DEF Ops!Crash, Ops!OutOfMemory, Ops!CallerReceives, Ops!Timeout,
                         Ops!Killed, Ops!FlushReply
    <3>2. QED
      BY <2>3, <3>1 DEF Ops!Crash, Ops!OutOfMemory, Ops!CallerReceives, Ops!Timeout,
                        Ops!Killed, Ops!FlushReply
  <2>4. ASSUME NEW o \in Operation, Ops!ReceiveHostReply(o) \/ Ops!StartHostCall(o)
                                    \/ Ops!CoordinatorStarts(o)
        PROVE  Ops!TypeOK'
    BY <2>4 DEF Ops!ReceiveHostReply, Ops!StartHostCall, Ops!CoordinatorStarts
  <2>5. ASSUME NEW o \in Operation, Ops!HandlerReturns(o) \/ Ops!HandlerKilled(o)
        PROVE  Ops!TypeOK'
    BY <2>5 DEF Ops!HandlerReturns, Ops!HandlerKilled
  <2>6. ASSUME NEW o \in Operation, Ops!CoordinatorReplies(o) \/ Ops!OwnerDown(o)
        PROVE  Ops!TypeOK'
    BY <2>6 DEF Ops!CoordinatorReplies, Ops!OwnerDown
  <2>7. ASSUME NEW o \in Operation, NEW kind \in {"handler", "coordinator"}, Ops!Dies(kind, o)
        PROVE  Ops!TypeOK'
    BY <2>7 DEF Ops!Dies
  <2>8. CASE UNCHANGED Ops!vars
    BY <2>8 DEF Ops!vars
  <2>9. QED
    BY <2>1, <2>2, <2>3, <2>4, <2>5, <2>6, <2>7, <2>8 DEF Ops!Next, Ops!Evaluating
<1>3. QED
  BY <1>1, <1>2, PTL DEF Ops!Spec
-----------------------------------------------------------------------------
(* A coordinator is killed when the evaluation is through, or by the link to  *)
(* its handler, which is then dead.  Until it starts there is no handler.     *)
Underway == {"none", "script", "receiving", "cancelling"}
Accounts ==
    /\ evalCaller = "idle" => evalEvaluation = "none"
    /\ evalEvaluation = "none" => evalOperations = {}
    /\ \A o \in Operation :
          /\ evalCoordinator[o] \in {"none", "starting"} => evalHandler[o] = "none"
          /\ <<"coordinator", o>> \in evalKilled /\ evalEvaluation \in Underway =>
                evalHandler[o] = "killed"
          /\ o \in evalOperations /\ evalEvaluation \in Underway =>
                evalCoordinator[o] \in Ops!Live \/ o \in evalHostReplies
                  \/ evalHandler[o] = "killed"

LEMMA AccountsStep ==
    ASSUME Ops!TypeOK, Accounts, [Ops!Next]_Ops!vars
    PROVE  Accounts'
<1> USE DEF Ops!TypeOK, Accounts, Underway, Ops!Live, Ops!processes
<1>1. CASE Ops!Eval
  BY <1>1 DEF Ops!Eval
<1>2. CASE Ops!Drained \/ Ops!Finish \/ Ops!CancelOperations \/ Ops!Reply
  BY <1>2 DEF Ops!Drained, Ops!Finish, Ops!CancelOperations, Ops!Reply
<1>3. CASE Ops!Crash \/ Ops!OutOfMemory \/ Ops!CallerReceives \/ Ops!Timeout \/ Ops!Killed
           \/ Ops!FlushReply
  BY <1>3 DEF Ops!Crash, Ops!OutOfMemory, Ops!CallerReceives, Ops!Timeout, Ops!Killed,
              Ops!FlushReply
<1>4. ASSUME NEW o \in Operation, Ops!ReceiveHostReply(o)
      PROVE  Accounts'
  BY <1>4 DEF Ops!ReceiveHostReply
<1>5. ASSUME NEW o \in Operation, Ops!StartHostCall(o)
      PROVE  Accounts'
  BY <1>5 DEF Ops!StartHostCall
<1>6. ASSUME NEW o \in Operation, Ops!CoordinatorStarts(o)
      PROVE  Accounts'
  BY <1>6 DEF Ops!CoordinatorStarts
<1>7. ASSUME NEW o \in Operation, Ops!HandlerReturns(o) \/ Ops!HandlerKilled(o)
      PROVE  Accounts'
  BY <1>7 DEF Ops!HandlerReturns, Ops!HandlerKilled
<1>8. ASSUME NEW o \in Operation, Ops!CoordinatorReplies(o)
      PROVE  Accounts'
  BY <1>8 DEF Ops!CoordinatorReplies
<1>9. ASSUME NEW o \in Operation, Ops!OwnerDown(o)
      PROVE  Accounts'
  BY <1>9 DEF Ops!OwnerDown
<1>10. ASSUME NEW o \in Operation, Ops!Dies("handler", o)
       PROVE  Accounts'
  BY <1>10 DEF Ops!Dies
<1>11. ASSUME NEW o \in Operation, Ops!Dies("coordinator", o)
       PROVE  Accounts'
  BY <1>11 DEF Ops!Dies
<1>12. CASE UNCHANGED Ops!vars
  BY <1>12 DEF Ops!vars
<1>13. QED
  BY <1>1, <1>2, <1>3, <1>4, <1>5, <1>6, <1>7, <1>8, <1>9, <1>10, <1>11, <1>12
     DEF Ops!Next, Ops!Evaluating

(* receive_host_reply waits without a deadline: for each operation that the   *)
(* evaluation still has in its map the coordinator is alive or the reply is   *)
(* in the mailbox, unless the handler was killed (async.ex:345).              *)
THEOREM OperationsKept == Ops!Spec => []Ops!OperationsAccounted
<1>1. Ops!Init => Accounts
  BY DEF Ops!Init, Accounts
<1>2. Accounts /\ Ops!TypeOK => Ops!OperationsAccounted
  BY DEF Accounts, Ops!TypeOK, Ops!OperationsAccounted, Underway
<1>3. QED
  BY <1>1, <1>2, AccountsStep, OperationsTypes, PTL DEF Ops!Spec
-----------------------------------------------------------------------------
(* The caller waits for a process of its own only, a reply is the last thing  *)
(* that process does, and dead it stays.                                      *)
Replies ==
    /\ evalCaller \in {"waiting", "killing"} => Ops!Isolated
    /\ evalReply => Ops!Isolated /\ evalEvaluation = "dead"
    /\ evalCaller = "idle" => evalEvaluation = "none"

(* A coordinator that lives, or has replied, is of an operation that is still *)
(* in the map; once the operations are cancelled those that live are killed.  *)
HostMail ==
    /\ evalHostReplies \subseteq evalOperations
    /\ \A o \in Operation :
          /\ evalCoordinator[o] \in Ops!Live => o \in evalOperations
          /\ o \in evalHostReplies => evalCoordinator[o] = "dead"
          /\ evalEvaluation \in {"done", "over"} /\ evalCoordinator[o] \in Ops!Live =>
                <<"coordinator", o>> \in evalKilled

LEMMA HostMailStep ==
    ASSUME Ops!TypeOK, HostMail, [Ops!Next]_Ops!vars
    PROVE  HostMail'
<1> USE DEF Ops!TypeOK, HostMail, Ops!Live, Ops!processes
<1>1. CASE Ops!Eval \/ Ops!Drained \/ Ops!Finish
  BY <1>1 DEF Ops!Eval, Ops!Drained, Ops!Finish
<1>2. CASE Ops!CancelOperations
  BY <1>2 DEF Ops!CancelOperations
<1>3. CASE Ops!Reply \/ Ops!Crash \/ Ops!OutOfMemory
  BY <1>3 DEF Ops!Reply, Ops!Crash, Ops!OutOfMemory
<1>4. CASE Ops!CallerReceives \/ Ops!Timeout \/ Ops!Killed \/ Ops!FlushReply
  BY <1>4 DEF Ops!CallerReceives, Ops!Timeout, Ops!Killed, Ops!FlushReply
<1>5. ASSUME NEW o \in Operation, Ops!ReceiveHostReply(o)
      PROVE  HostMail'
  BY <1>5 DEF Ops!ReceiveHostReply
<1>6. ASSUME NEW o \in Operation, Ops!StartHostCall(o)
      PROVE  HostMail'
  BY <1>6 DEF Ops!StartHostCall
<1>7. ASSUME NEW o \in Operation,
             Ops!CoordinatorStarts(o) \/ Ops!HandlerReturns(o) \/ Ops!HandlerKilled(o)
      PROVE  HostMail'
  BY <1>7 DEF Ops!CoordinatorStarts, Ops!HandlerReturns, Ops!HandlerKilled
<1>8. ASSUME NEW o \in Operation, Ops!CoordinatorReplies(o) \/ Ops!OwnerDown(o)
      PROVE  HostMail'
  BY <1>8 DEF Ops!CoordinatorReplies, Ops!OwnerDown
<1>9. ASSUME NEW o \in Operation, Ops!Dies("handler", o)
      PROVE  HostMail'
  BY <1>9 DEF Ops!Dies
<1>10. ASSUME NEW o \in Operation, Ops!Dies("coordinator", o)
       PROVE  HostMail'
  BY <1>10 DEF Ops!Dies
<1>11. CASE UNCHANGED Ops!vars
  BY <1>11 DEF Ops!vars
<1>12. QED
  BY <1>1, <1>2, <1>3, <1>4, <1>5, <1>6, <1>7, <1>8, <1>9, <1>10, <1>11
     DEF Ops!Next, Ops!Evaluating

(* eval_isolated_program with its timeout, await_down and flush_reply, and    *)
(* cancel_operations: when VM.eval has returned, whichever of the reply, the  *)
(* DOWN and the timeout came first, no result is left in its mailbox, an      *)
(* isolated evaluation is dead, and one in the caller's process has left      *)
(* replies of given-up operations at most and is killing who could send more. *)
THEOREM MailboxClean == Ops!Spec => []Ops!NoStrayReply
<1> DEFINE Returned == evalCaller = "returned" =>
                           ~evalReply /\ (Ops!Isolated => evalEvaluation = "dead")
           Inv == Replies /\ Returned
<1>1. Ops!Init => Inv /\ HostMail
  BY DEF Ops!Init, Replies, HostMail, Ops!Live
<1>2. ASSUME Ops!TypeOK, Inv, [Ops!Next]_Ops!vars
      PROVE  Inv'
  <2> USE <1>2 DEF Ops!TypeOK, Replies, Ops!Isolated, Ops!processes
  <2>1. CASE Ops!Eval
    BY <2>1 DEF Ops!Eval
  <2>2. CASE Ops!Drained \/ Ops!Finish \/ Ops!CancelOperations
    BY <2>2 DEF Ops!Drained, Ops!Finish, Ops!CancelOperations
  <2>3. CASE Ops!Reply
    BY <2>3 DEF Ops!Reply
  <2>4. CASE Ops!Crash
    BY <2>4 DEF Ops!Crash
  <2>5. CASE Ops!OutOfMemory \/ Ops!Killed
    BY <2>5 DEF Ops!OutOfMemory, Ops!Killed
  <2>6. CASE Ops!CallerReceives \/ Ops!Timeout \/ Ops!FlushReply
    BY <2>6 DEF Ops!CallerReceives, Ops!Timeout, Ops!FlushReply
  <2>7. ASSUME NEW o \in Operation, Ops!ReceiveHostReply(o) \/ Ops!StartHostCall(o)
        PROVE  Inv'
    BY <2>7 DEF Ops!ReceiveHostReply, Ops!StartHostCall
  <2>8. ASSUME NEW o \in Operation,
               Ops!CoordinatorStarts(o) \/ Ops!HandlerReturns(o) \/ Ops!HandlerKilled(o)
                 \/ Ops!CoordinatorReplies(o) \/ Ops!OwnerDown(o) \/ Ops!Dies("handler", o)
                 \/ Ops!Dies("coordinator", o)
        PROVE  Inv'
    BY <2>8 DEF Ops!CoordinatorStarts, Ops!HandlerReturns, Ops!HandlerKilled,
                Ops!CoordinatorReplies,
                Ops!OwnerDown, Ops!Dies
  <2>9. CASE UNCHANGED Ops!vars
    BY <2>9 DEF Ops!vars
  <2>10. QED
    BY <2>1, <2>2, <2>3, <2>4, <2>5, <2>6, <2>7, <2>8, <2>9 DEF Ops!Next, Ops!Evaluating
<1>3. Ops!TypeOK /\ Inv /\ HostMail => Ops!NoStrayReply
  BY DEF Ops!TypeOK, Ops!NoStrayReply, HostMail
<1>4. QED
  BY <1>1, <1>2, <1>3, HostMailStep, OperationsTypes, PTL DEF Ops!Spec

(* The three together: what an evaluation waits for is on its way, and what   *)
(* eval leaves to its caller is what NoStrayReply allows (async.ex,           *)
(* engine.ex).                                                                *)
THEOREM EvaluationIsSound == Ops!Spec => []OperationsSound
BY OperationsTypes, OperationsKept, MailboxClean, PTL DEF OperationsSound
-----------------------------------------------------------------------------
(***************************************************************************)
(* Timers, for every set of them and every length of the list of a round:  *)
(* a timer that was cleared or has been called is never called again,      *)
(* whatever the callbacks of the round do.                                 *)
(***************************************************************************)
Others == Clock!Message \/ Clock!MessageEnds \/ Clock!JobsDrained \/ Clock!RoundEnds

LEMMA TimersTypes == Clock!Spec => []Clock!TypeOK
<1>1. Clock!Init => Clock!TypeOK
  BY DEF Clock!Init, Clock!TypeOK
<1>2. Clock!TypeOK /\ [Clock!Next]_Clock!vars => Clock!TypeOK'
  <2> SUFFICES ASSUME Clock!TypeOK, [Clock!Next]_Clock!vars
               PROVE  Clock!TypeOK'
    OBVIOUS
  <2> USE DEF Clock!TypeOK
  <2>1. ASSUME NEW t \in Timer, Clock!SetTimer(t) \/ Clock!ClearTimer(t) \/ Clock!Elapse(t)
        PROVE  Clock!TypeOK'
    BY <2>1 DEF Clock!SetTimer, Clock!ClearTimer, Clock!Elapse
  <2>2. ASSUME NEW t \in Timer, Clock!Fire(t)
        PROVE  Clock!TypeOK'
    BY <2>2 DEF Clock!Fire
  <2>3. CASE Clock!Reset
    BY <2>3 DEF Clock!Reset
  <2>4. CASE Clock!CollectExpired
    BY <2>4 DEF Clock!CollectExpired
  <2>5. CASE Clock!CallbackReturns
    BY <2>5 DEF Clock!CallbackReturns
  <2>6. CASE Others \/ UNCHANGED Clock!vars
    BY <2>6 DEF Others, Clock!Message, Clock!MessageEnds, Clock!JobsDrained, Clock!RoundEnds,
                Clock!vars
  <2>7. QED
    BY <2>1, <2>2, <2>3, <2>4, <2>5, <2>6 DEF Clock!Next, Others
<1>3. QED
  BY <1>1, <1>2, PTL DEF Clock!Spec
-----------------------------------------------------------------------------
(* What is left of the round's list has expired or was taken from the table   *)
(* since, and the timer that is being called is not in it: the interval of    *)
(* CallbackReturns is not on the list with a deadline to come.                *)
ListIsDue ==
    /\ \A t \in timersExpired : timersTimer[t] \in {"expired", "gone"}
    /\ timersExpired \cap timersFiring = {}
    /\ timersWorker # "callback" => timersFiring = {}

LEMMA ListIsDueStep ==
    ASSUME Clock!TypeOK, ListIsDue, [Clock!Next]_Clock!vars
    PROVE  ListIsDue'
<1> USE DEF Clock!TypeOK, ListIsDue
<1>1. ASSUME NEW t \in Timer, Clock!SetTimer(t) \/ Clock!ClearTimer(t) \/ Clock!Elapse(t)
      PROVE  ListIsDue'
  BY <1>1 DEF Clock!SetTimer, Clock!ClearTimer, Clock!Elapse
<1>2. ASSUME NEW t \in Timer, Clock!Fire(t)
      PROVE  ListIsDue'
  BY <1>2 DEF Clock!Fire
<1>3. CASE Clock!Reset
  BY <1>3 DEF Clock!Reset
<1>4. CASE Clock!CollectExpired
  BY <1>4 DEF Clock!CollectExpired
<1>5. CASE Clock!CallbackReturns
  BY <1>5 DEF Clock!CallbackReturns
<1>6. CASE Others \/ UNCHANGED Clock!vars
  BY <1>6 DEF Others, Clock!Message, Clock!MessageEnds, Clock!JobsDrained, Clock!RoundEnds,
              Clock!vars
<1>7. QED
  BY <1>1, <1>2, <1>3, <1>4, <1>5, <1>6 DEF Clock!Next, Others

(* clear_timer_impl, fire_expired_timers and do_reset between them: a          *)
(* callback is called after its deadline only, and never once its timer has   *)
(* left the table, although the list of the round was taken before.           *)
THEOREM ClearedStaysSilent == Clock!Spec => ClearedNeverFires
<1> DEFINE Silent == \A t \in Timer :
                        /\ t \in timersFiring' \ timersFiring => timersTimer[t] = "expired"
                        /\ timersTimer[t] = "gone" => timersTimer'[t] = "gone"
<1>1. Clock!Init => ListIsDue
  BY DEF Clock!Init, ListIsDue
<1>2. ASSUME Clock!TypeOK, ListIsDue, [Clock!Next]_Clock!vars
      PROVE  [Silent]_Clock!vars
  <2> USE <1>2 DEF Clock!TypeOK, ListIsDue
  <2>1. ASSUME NEW t \in Timer, Clock!SetTimer(t) \/ Clock!ClearTimer(t) \/ Clock!Elapse(t)
        PROVE  Silent
    BY <2>1 DEF Clock!SetTimer, Clock!ClearTimer, Clock!Elapse
  <2>2. ASSUME NEW t \in Timer, Clock!Fire(t)
        PROVE  Silent
    BY <2>2 DEF Clock!Fire, Clock!InTable
  <2>3. CASE Clock!Reset
    BY <2>3 DEF Clock!Reset, Clock!InTable
  <2>4. CASE Clock!CollectExpired
    BY <2>4 DEF Clock!CollectExpired
  <2>5. CASE Clock!CallbackReturns
    BY <2>5 DEF Clock!CallbackReturns, Clock!InTable
  <2>6. CASE Others \/ UNCHANGED Clock!vars
    BY <2>6 DEF Others, Clock!Message, Clock!MessageEnds, Clock!JobsDrained, Clock!RoundEnds,
                Clock!vars
  <2>7. QED
    BY <2>1, <2>2, <2>3, <2>4, <2>5, <2>6 DEF Clock!Next, Others
<1>3. QED
  BY <1>1, <1>2, ListIsDueStep, TimersTypes, PTL
     DEF Clock!Spec, ClearedNeverFires, Clock!ClearedNeverFires

(***************************************************************************)
(* The socket, for every number of requests and inputs, and for every      *)
(* remote end.                                                             *)
(***************************************************************************)
Events == {"open", "message", "error", "close"}
State == [stage : {"new", "upgrading", "established"},
          pendingClose : BOOLEAN, closeSent : BOOLEAN, closed : BOOLEAN]
Typed(e) == e \in [state : State, out : Seq(Events), stops : BOOLEAN]

(* An effect never takes the connection back, says "open" of an established   *)
(* one only, and "close" once, which it remembers.                            *)
Ended(s) == IF s.closed THEN 1 ELSE 0
Forth(e) ==
    /\ Typed(e)
    /\ wsSocket.stage = "established" \/ In(e.out, "open") => e.state.stage = "established"
    /\ Count(e.out, {"close"}) = Ended(e.state) - Ended(wsSocket)

LEMMA CountAppended ==
    ASSUME NEW seq \in Seq(Events), NEW event \in Events
    PROVE  Count(Append(seq, event), {"close"})
            = Count(seq, {"close"}) + (IF event = "close" THEN 1 ELSE 0)
<1>1. Count(Append(seq, event), {"close"}) = Count(seq, {"close"}) + Bit(event \in {"close"})
    BY CountPushed
<1>2. Bit(event \in {"close"}) = IF event = "close" THEN 1 ELSE 0
    BY DEF Bit
<1> QED BY <1>1, <1>2

LEMMA EmitForth ==
    ASSUME NEW e, Forth(e), NEW event \in Events \ {"close"},
           event = "open" => e.state.stage = "established"
    PROVE  Forth(Sock!Emit(e, event))
<1>1. Sock!Emit(e, event) = [e EXCEPT !.out = Append(e.out, event)]
    BY DEF Sock!Emit
<1>2. /\ Append(e.out, event) \in Seq(Events)
      /\ In(Append(e.out, event), "open") <=> In(e.out, "open") \/ event = "open"
      /\ Count(Append(e.out, event), {"close"}) = Count(e.out, {"close"})
  <2>1. Count(e.out, {"close"}) \in Nat
    BY CountIsNat DEF Forth, Typed
  <2> QED BY <2>1, AppendIn, CountAppended DEF Forth, Typed
<1> QED BY <1>1, <1>2 DEF Forth, Typed

LEMMA EmitCloseForth == ASSUME NEW e, Forth(e) PROVE Forth(Sock!EmitClose(e))
<1>1. /\ Append(e.out, "close") \in Seq(Events)
      /\ In(Append(e.out, "close"), "open") <=> In(e.out, "open")
      /\ Count(Append(e.out, "close"), {"close"}) = Count(e.out, {"close"}) + 1
    BY AppendIn, CountAppended DEF Forth, Typed, Events
<1>2. CASE e.state.closed
    BY <1>2 DEF Sock!EmitClose, Forth, Typed
<1>3. CASE ~e.state.closed
  <2> DEFINE closed == [e.state EXCEPT !.closed = TRUE]
  <2>1. /\ closed \in State /\ closed.stage = e.state.stage
        /\ Ended(closed) = 1 /\ Ended(e.state) = 0 /\ Ended(wsSocket) \in {0, 1}
    BY <1>3 DEF Forth, Typed, State, Ended
  <2> HIDE DEF closed
  <2>2. Forth([state |-> closed, out |-> Append(e.out, "close"), stops |-> TRUE])
    BY <1>1, <2>1 DEF Forth, Typed
  <2> QED BY <1>3, <2>2 DEF Sock!EmitClose, Sock!Effect, closed
<1> QED BY <1>2, <1>3

LEMMA EmitErrorForth == ASSUME NEW e, Forth(e) PROVE Forth(Sock!EmitErrorAndClose(e))
<1>1. Forth(Sock!Emit(e, "error"))
    BY EmitForth DEF Events
<1> QED BY <1>1, EmitCloseForth DEF Sock!EmitErrorAndClose, Sock!Emit

LEMMA ResponseForth ==
    ASSUME NEW e, Forth(e), NEW response \in Sock!Responses
    PROVE  Forth(Sock!HandleResponse(e, response))
<1> DEFINE up == [e EXCEPT !.state.stage = "established", !.state.pendingClose = FALSE]
           answered == [e EXCEPT !.state.closeSent = TRUE]
<1>1. Forth(up) /\ up.state.stage = "established"
    BY DEF Forth, Typed, State, Ended
<1>2. Forth(Sock!UpgradeSuccess(e))
    BY <1>1, EmitForth, EmitCloseForth DEF Sock!UpgradeSuccess, Events
<1>3. Forth(Sock!EmitClose(answered))
  <2>1. Forth(answered)
    BY DEF Forth, Typed, State, Ended
  <2> QED BY <2>1, EmitCloseForth
<1>4. Forth(Sock!Emit(e, "message"))
    BY EmitForth DEF Events
<1>5. Forth(Sock!EmitErrorAndClose(e))
    BY EmitErrorForth
<1> QED BY <1>2, <1>3, <1>4, <1>5 DEF Sock!HandleResponse
-----------------------------------------------------------------------------
LEMMA HandledForth ==
    ASSUME wsSocket \in State, NEW first \in Sock!Responses, NEW second \in Sock!Responses,
           NEW fails \in BOOLEAN, NEW e,
           e = Sock!HandleResponse(
                   Sock!HandleResponse(Sock!Effect(wsSocket, << >>, FALSE), first), second)
    PROVE  Forth(IF fails THEN Sock!EmitErrorAndClose(e) ELSE e)
<1>1. Forth(Sock!Effect(wsSocket, << >>, FALSE))
  <2>1. << >> \in Seq(Events) /\ ~In(<< >>, "open") /\ Count(<< >>, {"close"}) = 0
    BY EmptySeq, CountNone DEF In
  <2> QED BY <2>1 DEF Forth, Typed, Sock!Effect, Ended
<1>2. Forth(Sock!HandleResponse(Sock!Effect(wsSocket, << >>, FALSE), first))
    BY <1>1, ResponseForth
<1>3. Forth(e)
    BY <1>2, ResponseForth
<1> QED BY <1>3, EmitErrorForth
-----------------------------------------------------------------------------
(* The types of what the theorem is about. *)
Types ==
    /\ wsTasks \in [Sock!Kind -> Nat]
    /\ wsMailbox \in Seq(Sock!Kind \cup {"started"})
    /\ wsCasts \in Seq(Sock!Kind \cup {"connect"})
    /\ wsSocket \in State /\ wsEvents \in Seq(Events)

(* Requests are only made by an object whose constructor has returned, and    *)
(* the constructor returns after the announcement.                            *)
Asking == \E kind \in Sock!Kind : wsTasks[kind] > 0
Constructed ==
    /\ wsReady = "none" => wsTask = "none"
    /\ wsReady \in {"none", "constructing"} \/ wsTask = "ended"
    /\ Asking => wsTask = "ended"
    /\ wsOwner = "up" /\ wsTask \in {"announced", "ended"} =>
          wsKnown # "none" \/ In(wsMailbox, "started")
    /\ \A i \in DOMAIN wsMailbox : wsMailbox[i] # "started" => Sock!AnnouncedBefore(i)

(* The connection starts with its Task, and is made before anything else.     *)
Connecting ==
    /\ wsTask \in {"none", "starting"} =>
          wsProcess # "up" /\ wsEvents = << >> /\ wsSocket.stage = "new"
    /\ \A i \in DOMAIN wsCasts : wsCasts[i] = "connect" => i = 1 /\ wsSocket.stage = "new"

(* Whoever takes a connection for open was told so by it, or by one who was.  *)
Opened ==
    \/ wsReady = "open" \/ wsTasks["send"] > 0
    \/ In(wsEvents, "open") \/ In(wsMailbox, "send") \/ In(wsCasts, "send")

Consistent == Types /\ Constructed /\ Connecting /\ (Opened => wsSocket.stage = "established")

(* A step of the connection with an effect. *)
Turns(e) == \E failure \in BOOLEAN : Sock!Becomes(e, failure)

LEMMA BecomesForth ==
    ASSUME Consistent, NEW e, Forth(e), Turns(e)
    PROVE  /\ wsSocket' \in State /\ wsEvents' \in Seq(Events)
           /\ Opened => wsSocket'.stage = "established"
           /\ In(wsEvents', "open") => In(wsEvents, "open") \/ wsSocket'.stage = "established"
<1>1. /\ wsEvents \o e.out \in Seq(Events)
      /\ In(wsEvents \o e.out, "open") => In(wsEvents, "open") \/ In(e.out, "open")
  <2>1. wsEvents \in Seq(Events) /\ e.out \in Seq(Events)
    BY DEF Consistent, Types, Forth, Typed
  <2>2. /\ wsEvents \o e.out \in Seq(Events)
        /\ Len(wsEvents \o e.out) = Len(wsEvents) + Len(e.out)
        /\ \A i \in 1..(Len(wsEvents) + Len(e.out)) :
              (wsEvents \o e.out)[i] = IF i <= Len(wsEvents) THEN wsEvents[i]
                                     ELSE e.out[i - Len(wsEvents)]
    BY <2>1, ConcatProperties
  <2>3. /\ Len(wsEvents) \in Nat /\ Len(e.out) \in Nat
        /\ DOMAIN wsEvents = 1..Len(wsEvents) /\ DOMAIN e.out = 1..Len(e.out)
        /\ DOMAIN (wsEvents \o e.out) = 1..(Len(wsEvents) + Len(e.out))
    BY <2>1, <2>2, LenProperties
  <2>4. ASSUME NEW i \in DOMAIN (wsEvents \o e.out), (wsEvents \o e.out)[i] = "open"
        PROVE  In(wsEvents, "open") \/ In(e.out, "open")
    <3>1. CASE i <= Len(wsEvents)
      BY <2>2, <2>3, <2>4, <3>1 DEF In
    <3>2. CASE i > Len(wsEvents)
      <4>1. i - Len(wsEvents) \in DOMAIN e.out /\ e.out[i - Len(wsEvents)] = "open"
        BY <2>2, <2>3, <2>4, <3>2
      <4> QED BY <4>1 DEF In
    <3> QED BY <2>3, <3>1, <3>2
  <2> QED BY <2>2, <2>4 DEF In
<1> QED BY <1>1 DEF Turns, Sock!Becomes, Consistent, Types, Forth, Typed
-----------------------------------------------------------------------------
LEMMA ConsistentAtFirst == Sock!Init => Consistent
<1>1. << >> \in Seq(Sock!Kind \cup {"started"}) /\ << >> \in Seq(Sock!Kind \cup {"connect"})
      /\ << >> \in Seq(Events) /\ DOMAIN << >> = {}
    BY EmptySeq
<1> QED BY <1>1 DEF Sock!Init, Consistent, Types, Sock!Kind, State, Constructed, Asking, Connecting,
                     Opened, In

(* What a message in the owner's mailbox changes. *)
LEMMA ConsistentMail ==
    ASSUME Consistent, NEW msg \in Sock!Kind \cup {"started"},
           msg # "started" => wsTask = "ended" /\ wsOwner = "up",
           msg = "send" => wsSocket.stage = "established",
           wsMailbox' = Append(wsMailbox, msg), UNCHANGED wsKnown
    PROVE  /\ wsMailbox' \in Seq(Sock!Kind \cup {"started"})
           /\ In(wsMailbox', "started") <=> In(wsMailbox, "started") \/ msg = "started"
           /\ In(wsMailbox', "send") <=> In(wsMailbox, "send") \/ msg = "send"
           /\ \A i \in DOMAIN wsMailbox' : wsMailbox'[i] # "started" => Sock!AnnouncedBefore(i)'
<1>1. /\ wsMailbox' \in Seq(Sock!Kind \cup {"started"})
      /\ In(wsMailbox', "started") <=> In(wsMailbox, "started") \/ msg = "started"
      /\ In(wsMailbox', "send") <=> In(wsMailbox, "send") \/ msg = "send"
    BY AppendIn DEF Consistent, Types
<1>2. /\ Len(wsMailbox) \in Nat /\ DOMAIN wsMailbox = 1..Len(wsMailbox)
      /\ DOMAIN wsMailbox' = 1..(Len(wsMailbox) + 1)
      /\ \A i \in 1..Len(wsMailbox) : wsMailbox'[i] = wsMailbox[i]
      /\ wsMailbox'[Len(wsMailbox) + 1] = msg
    BY AppendProperties, LenProperties DEF Consistent, Types
<1>3. ASSUME NEW i \in DOMAIN wsMailbox', wsMailbox'[i] # "started" PROVE Sock!AnnouncedBefore(i)'
  <2>1. CASE i \in DOMAIN wsMailbox
    BY <1>2, <1>3, <2>1 DEF Consistent, Constructed, Sock!AnnouncedBefore
  <2>2. CASE i = Len(wsMailbox) + 1
    <3>1. wsKnown # "none" \/ In(wsMailbox, "started")
      BY <1>2, <1>3, <2>2 DEF Consistent, Constructed
    <3> QED BY <1>2, <2>2, <3>1 DEF Sock!AnnouncedBefore, In
  <2> QED BY <1>2, <2>1, <2>2
<1> QED BY <1>1, <1>3

(* What JavaScript is told is what was sent. *)
LEMMA DispatchTells ==
    ASSUME Consistent, Sock!Dispatch
    PROVE  /\ wsEvents' \in Seq(Events)
           /\ In(wsEvents', "open") => In(wsEvents, "open")
           /\ Head(wsEvents) = "open" => In(wsEvents, "open")
<1>1. wsEvents \in Seq(Events) /\ wsEvents # << >> /\ wsEvents' = Tail(wsEvents)
    BY DEF Consistent, Types, Sock!Dispatch
<1> QED BY <1>1, TailIn

(* The steps of the object and of its Tasks. *)
LEMMA ConsistentObject ==
    ASSUME Consistent,
           \/ Sock!Construct \/ Sock!StartLink \/ Sock!Resolve \/ Sock!TaskKilled
           \/ Sock!Send \/ Sock!Close \/ Sock!Dispatch \/ Sock!Reset
    PROVE  Consistent'
<1>0. ASSUME Sock!Dispatch
      PROVE  /\ wsEvents' \in Seq(Events)
             /\ In(wsEvents', "open") => In(wsEvents, "open")
             /\ Head(wsEvents) = "open" => In(wsEvents, "open")
    BY <1>0, DispatchTells
<1> USE DEF Consistent, Types, Constructed, Connecting, Opened, Asking, Sock!AnnouncedBefore, In,
            Sock!javascript, Sock!server, Sock!connection, Sock!Kind
<1>1. CASE Sock!Construct
    BY <1>1 DEF Sock!Construct
<1>2. CASE Sock!StartLink
  <2>1. /\ <<"connect">> \in Seq(Sock!Kind \cup {"connect"})
        /\ DOMAIN <<"connect">> = {1} /\ <<"connect">>[1] = "connect"
    OBVIOUS
  <2> QED BY <1>2, <2>1 DEF Sock!StartLink
<1>3. CASE Sock!Resolve
    BY <1>3 DEF Sock!Resolve
<1>4. CASE Sock!Send
    BY <1>4 DEF Sock!Send, Sock!Ask
<1>5. CASE Sock!Close
    BY <1>5 DEF Sock!Close, Sock!Ask
<1>6. CASE Sock!Dispatch
  <2>1. /\ wsEvents' \in Seq(Events)
        /\ In(wsEvents', "open") => In(wsEvents, "open")
        /\ Head(wsEvents) = "open" => In(wsEvents, "open")
    BY <1>0, <1>6
  <2>2. wsReady' = "open" => wsReady = "open" \/ Head(wsEvents) = "open"
    BY <1>6 DEF Sock!Dispatch
  <2>3. wsReady # "none"
    BY <1>6 DEF Sock!Dispatch
  <2>4. wsReady = "constructing" => wsReady' = wsReady
    BY <1>6 DEF Sock!Dispatch
  <2>5. wsReady' = "none" => wsReady = "none"
    BY <1>6 DEF Sock!Dispatch
  <2>6. wsReady \in {"none", "constructing"} \/ wsTask = "ended"
    OBVIOUS
  <2> QED BY <1>6, <2>1, <2>2, <2>3, <2>4, <2>5, <2>6 DEF Sock!Dispatch
<1>7. CASE Sock!Reset
    BY <1>7 DEF Sock!Reset
<1>8. CASE Sock!TaskKilled
    BY <1>8 DEF Sock!TaskKilled
<1> QED BY <1>1, <1>2, <1>3, <1>4, <1>5, <1>6, <1>7, <1>8

(* The announcement and the requests. *)
LEMMA ConsistentTask ==
    ASSUME Consistent, Sock!Announce \/ \E kind \in Sock!Kind : Sock!Forward(kind)
    PROVE  Consistent'
<1>1. CASE Sock!Announce
  <2>1. CASE wsOwner = "up"
    <3>1. /\ wsMailbox' \in Seq(Sock!Kind \cup {"started"})
          /\ In(wsMailbox', "started")
          /\ In(wsMailbox', "send") <=> In(wsMailbox, "send")
          /\ \A i \in DOMAIN wsMailbox' : wsMailbox'[i] # "started" => Sock!AnnouncedBefore(i)'
      BY <1>1, <2>1, ConsistentMail DEF Sock!Announce, Sock!Kind
    <3> QED BY <1>1, <2>1, <3>1
            DEF Sock!Announce, Consistent, Types, Constructed, Connecting, Opened, Asking,
                Sock!connection, In
  <2>2. CASE wsOwner # "up"
    BY <1>1, <2>2 DEF Sock!Announce, Consistent, Types, Constructed, Connecting, Opened, Asking,
                      Sock!AnnouncedBefore, Sock!connection, In
  <2> QED BY <2>1, <2>2
<1>2. ASSUME NEW kind \in Sock!Kind, Sock!Forward(kind) PROVE Consistent'
  <2>1. /\ wsTasks' \in [Sock!Kind -> Nat]
        /\ \A k \in Sock!Kind : wsTasks'[k] > 0 => wsTasks[k] > 0
    BY <1>2 DEF Sock!Forward, Consistent, Types
  <2>2. wsTask = "ended" /\ (kind = "send" => wsSocket.stage = "established")
    BY <1>2 DEF Sock!Forward, Consistent, Constructed, Asking, Opened
  <2>3. CASE wsOwner = "up"
    <3>1. /\ wsMailbox' \in Seq(Sock!Kind \cup {"started"})
          /\ In(wsMailbox', "started") <=> In(wsMailbox, "started")
          /\ In(wsMailbox', "send") <=> In(wsMailbox, "send") \/ kind = "send"
          /\ \A i \in DOMAIN wsMailbox' : wsMailbox'[i] # "started" => Sock!AnnouncedBefore(i)'
      BY <1>2, <2>2, <2>3, ConsistentMail DEF Sock!Forward, Sock!Kind
    <3>2. Opened' => wsSocket.stage = "established"
      BY <1>2, <2>1, <2>2, <3>1 DEF Sock!Forward, Consistent, Opened, Sock!Kind, Sock!connection, In
    <3> QED BY <1>2, <2>1, <3>1, <3>2
            DEF Sock!Forward, Consistent, Types, Constructed, Connecting, Asking, Sock!connection
  <2>4. CASE wsOwner # "up"
    <3>1. Opened' => wsSocket.stage = "established"
      BY <1>2, <2>1, <2>4 DEF Sock!Forward, Consistent, Opened, Sock!Kind, Sock!connection, In
    <3> QED BY <1>2, <2>1, <2>4, <3>1
            DEF Sock!Forward, Consistent, Types, Constructed, Connecting, Asking,
                Sock!AnnouncedBefore, Sock!connection, In
  <2> QED BY <2>3, <2>4
<1> QED BY <1>1, <1>2

(* The steps of the owner. *)
LEMMA ConsistentOwner ==
    ASSUME Consistent, Sock!OwnerHandles \/ Sock!SocketDown \/ Sock!OwnerEnds
    PROVE  Consistent'
<1>1. CASE Sock!OwnerHandles
  <2> DEFINE msg == Head(wsMailbox)
  <2>1. /\ wsMailbox \in Seq(Sock!Kind \cup {"started"}) /\ wsMailbox # << >>
        /\ wsCasts \in Seq(Sock!Kind \cup {"connect"})
    BY <1>1 DEF Sock!OwnerHandles, Consistent, Types
  <2>2. /\ wsMailbox' \in Seq(Sock!Kind \cup {"started"}) /\ msg \in Sock!Kind \cup {"started"}
        /\ \A f : In(wsMailbox, f) <=> msg = f \/ In(wsMailbox', f)
        /\ \A i \in DOMAIN wsMailbox' :
              i + 1 \in DOMAIN wsMailbox /\ wsMailbox'[i] = wsMailbox[i + 1]
    BY <1>1, <2>1, TailIn DEF Sock!OwnerHandles
  <2>3. wsKnown' = IF msg = "started" THEN "there" ELSE wsKnown
    BY <1>1 DEF Sock!OwnerHandles
  <2>4. ASSUME NEW i \in DOMAIN wsMailbox', wsMailbox'[i] # "started" PROVE Sock!AnnouncedBefore(i)'
    <3>1. Sock!AnnouncedBefore(i + 1) /\ i \in Nat /\ i > 0
      BY <2>2, <2>4, LenProperties DEF Consistent, Constructed
    <3>2. CASE wsKnown' # "none"
      BY <3>2 DEF Sock!AnnouncedBefore
    <3>3. CASE wsKnown' = "none"
      <4>1. wsKnown = "none" /\ msg # "started"
        BY <2>3, <3>3
      <4>2. PICK j \in 1..((i + 1) - 1) : wsMailbox[j] = "started"
        BY <3>1, <4>1 DEF Sock!AnnouncedBefore
      <4>3. msg = wsMailbox[1] /\ wsMailbox' = Tail(wsMailbox)
        BY <1>1, <2>1, HeadTailProperties DEF Sock!OwnerHandles
      <4>4. j - 1 \in 1..(i - 1) /\ wsMailbox'[j - 1] = wsMailbox[j]
        <5>1. j # 1
          BY <4>1, <4>2, <4>3
        <5>2. j - 1 \in DOMAIN wsMailbox'
          BY <2>2, <2>4, <3>1, <4>2, <5>1, LenProperties
        <5> QED BY <2>2, <3>1, <4>2, <5>1, <5>2
      <4> QED BY <4>2, <4>4 DEF Sock!AnnouncedBefore
    <3> QED BY <3>2, <3>3
  <2>5. /\ wsCasts' \in Seq(Sock!Kind \cup {"connect"})
        /\ In(wsCasts', "send") => In(wsCasts, "send") \/ msg = "send"
        /\ \A i \in DOMAIN wsCasts' :
              wsCasts'[i] = "connect" => i \in DOMAIN wsCasts /\ wsCasts[i] = "connect"
    <3>1. CASE wsCasts' = Append(wsCasts, msg) /\ msg \in Sock!Kind
      <4>1. /\ wsCasts' \in Seq(Sock!Kind \cup {"connect"})
            /\ In(wsCasts', "send") <=> In(wsCasts, "send") \/ msg = "send"
        BY <2>1, <3>1, AppendIn
      <4>2. /\ Len(wsCasts) \in Nat /\ DOMAIN wsCasts = 1..Len(wsCasts)
            /\ DOMAIN wsCasts' = 1..(Len(wsCasts) + 1)
            /\ \A i \in 1..Len(wsCasts) : wsCasts'[i] = wsCasts[i]
            /\ wsCasts'[Len(wsCasts) + 1] = msg /\ msg # "connect"
        BY <2>1, <3>1, AppendProperties, LenProperties DEF Sock!Kind
      <4> QED BY <4>1, <4>2
    <3>2. CASE wsCasts' = wsCasts
      BY <2>1, <3>2
    <3> QED BY <1>1, <2>2, <3>1, <3>2 DEF Sock!OwnerHandles
  <2>6. /\ Types'
        /\ Opened' => Opened
    BY <1>1, <2>2, <2>5 DEF Sock!OwnerHandles, Consistent, Types, Opened, Sock!javascript
  <2>7. Constructed'
    BY <1>1, <2>2, <2>3, <2>4
       DEF Sock!OwnerHandles, Consistent, Constructed, Asking, Sock!javascript
  <2>8. Connecting'
    BY <1>1, <2>5 DEF Sock!OwnerHandles, Consistent, Connecting, Sock!javascript
  <2> QED BY <1>1, <2>6, <2>7, <2>8 DEF Sock!OwnerHandles, Consistent
<1>2. CASE Sock!SocketDown
    BY <1>2 DEF Sock!SocketDown, Consistent, Types, Constructed, Connecting, Opened, Asking,
                Sock!AnnouncedBefore, Sock!javascript, Sock!connection, In
<1>3. CASE Sock!OwnerEnds
  <2>1. /\ << >> \in Seq(Sock!Kind \cup {"started"}) /\ << >> \in Seq(Events)
        /\ ~In(<< >>, "send") /\ ~In(<< >>, "open") /\ DOMAIN << >> = {}
    BY EmptySeq DEF In
  <2> QED BY <1>3, <2>1 DEF Sock!OwnerEnds, Consistent, Types, Constructed, Connecting, Opened,
                             Asking, Sock!javascript
<1> QED BY <1>1, <1>2, <1>3

(* What the connection does is an effect of the kind above.                   *)
LEMMA ConnectionForth ==
    ASSUME Consistent, Sock!Connect \/ Sock!HandleCast \/ Sock!HandleInput
    PROVE  \E e : Forth(e) /\ Turns(e)
<1>1. wsSocket \in State /\ wsCasts \in Seq(Sock!Kind \cup {"connect"})
    BY DEF Consistent, Types
<1>2. /\ << >> \in Seq(Events) /\ ~In(<< >>, "open") /\ Count(<< >>, {"close"}) = 0
    BY EmptySeq, CountNone DEF In
<1>3. Forth(Sock!Effect(wsSocket, << >>, FALSE))
    BY <1>1, <1>2 DEF Forth, Typed, Sock!Effect, Ended
<1>4. Forth(Sock!EmitErrorAndClose(Sock!Effect(wsSocket, << >>, FALSE)))
    BY <1>3, EmitErrorForth
<1>5. ASSUME NEW e, NEW failure \in BOOLEAN, Forth(e), Sock!Becomes(e, failure)
      PROVE  \E x : Forth(x) /\ Turns(x)
    BY <1>5 DEF Turns
<1>6. CASE Sock!Connect
  <2>1. wsSocket.stage = "new"
    <3>1. Head(wsCasts) = wsCasts[1] /\ 1 \in DOMAIN wsCasts
      BY <1>1, <1>6, Popped DEF Sock!Connect
    <3> QED BY <1>6, <3>1 DEF Sock!Connect, Consistent, Connecting
  <2>2. Forth(Sock!Effect([wsSocket EXCEPT !.stage = "upgrading"], << >>, FALSE))
    BY <1>1, <1>2, <2>1 DEF Forth, Typed, Sock!Effect, State, Ended
  <2> QED BY <1>4, <1>5, <1>6, <2>2 DEF Sock!Connect
<1>7. CASE Sock!HandleCast
  <2>1. /\ Forth(Sock!Effect(Sock!BeforeUpgrade(Head(wsCasts)), << >>, FALSE))
        /\ Forth(Sock!Effect([wsSocket EXCEPT !.closeSent = @ \/ Head(wsCasts) = "close"],
                             << >>, FALSE))
    <3>1. ASSUME NEW s \in State, s.stage = wsSocket.stage, s.closed = wsSocket.closed
          PROVE  Forth(Sock!Effect(s, << >>, FALSE))
      BY <1>1, <1>2, <3>1 DEF Forth, Typed, Sock!Effect, Ended
    <3>2. /\ Sock!BeforeUpgrade(Head(wsCasts)) \in State
          /\ [wsSocket EXCEPT !.closeSent = @ \/ Head(wsCasts) = "close"] \in State
      BY <1>1 DEF State, Sock!BeforeUpgrade
    <3>3. /\ Sock!BeforeUpgrade(Head(wsCasts)).stage = wsSocket.stage
          /\ Sock!BeforeUpgrade(Head(wsCasts)).closed = wsSocket.closed
          /\ [wsSocket EXCEPT !.closeSent = @ \/ Head(wsCasts) = "close"].stage = wsSocket.stage
          /\ [wsSocket EXCEPT !.closeSent = @ \/ Head(wsCasts) = "close"].closed = wsSocket.closed
      BY <1>1 DEF State, Sock!BeforeUpgrade
    <3> QED BY <3>1, <3>2, <3>3, Zenon
  <2> QED BY <1>4, <1>5, <1>7, <2>1 DEF Sock!HandleCast
<1>8. CASE Sock!HandleInput
    BY <1>1, <1>5, <1>8, HandledForth DEF Sock!HandleInput
<1> QED BY <1>6, <1>7, <1>8

(* The steps of the connection. *)
LEMMA ConsistentConnection ==
    ASSUME Consistent, Sock!Connect \/ Sock!HandleCast \/ Sock!HandleInput \/ Sock!OwnerDown
    PROVE  Consistent'
<1>0. wsSocket \in State /\ wsCasts \in Seq(Sock!Kind \cup {"connect"})
    BY DEF Consistent, Types
(* Whatever the effect: the connection is up, so its Task has started it. *)
<1>1. ASSUME wsProcess = "up", UNCHANGED <<Sock!javascript, Sock!server>>,
             NEW e, Forth(e), Turns(e), wsCasts' \in Seq(Sock!Kind \cup {"connect"}),
             In(wsCasts', "send") => In(wsCasts, "send"),
             \A i \in DOMAIN wsCasts' : wsCasts'[i] # "connect"
      PROVE  Consistent'
  <2>1. /\ wsSocket' \in State /\ wsEvents' \in Seq(Events)
        /\ Opened => wsSocket'.stage = "established"
        /\ In(wsEvents', "open") => In(wsEvents, "open") \/ wsSocket'.stage = "established"
    BY <1>1, BecomesForth
  <2>2. Types'
    BY <1>1, <2>1 DEF Consistent, Types, Sock!javascript, Sock!server
  <2>3. Opened' => wsSocket'.stage = "established"
    BY <1>1, <2>1 DEF Opened, Sock!javascript, Sock!server
  <2>4. Constructed'
    BY <1>1 DEF Consistent, Constructed, Asking, Sock!AnnouncedBefore, Sock!javascript, Sock!server
  <2>5. Connecting'
    BY <1>1 DEF Consistent, Connecting, Sock!javascript, Sock!server
  <2> QED BY <2>2, <2>3, <2>4, <2>5 DEF Consistent
(* What the tail of the mailbox keeps. *)
<1>2. ASSUME wsCasts # << >>, wsCasts' = Tail(wsCasts)
      PROVE  /\ wsCasts' \in Seq(Sock!Kind \cup {"connect"})
             /\ \A f : In(wsCasts, f) <=> Head(wsCasts) = f \/ In(wsCasts', f)
             /\ \A i \in DOMAIN wsCasts' : wsCasts'[i] # "connect"
  <2>1. /\ wsCasts' \in Seq(Sock!Kind \cup {"connect"})
        /\ \A f : In(wsCasts, f) <=> Head(wsCasts) = f \/ In(wsCasts', f)
        /\ \A i \in DOMAIN wsCasts' : i + 1 \in DOMAIN wsCasts /\ wsCasts'[i] = wsCasts[i + 1]
    BY <1>0, <1>2, TailIn
  <2>2. \A i \in DOMAIN wsCasts' : i \in Nat /\ i > 0
    BY <2>1, LenProperties
  <2>3. \A i \in DOMAIN wsCasts : wsCasts[i] = "connect" => i = 1
    BY DEF Consistent, Connecting
  <2> QED BY <2>1, <2>2, <2>3
<1>3. Sock!Connect \/ Sock!HandleCast \/ Sock!HandleInput => \E e : Forth(e) /\ Turns(e)
    BY ConnectionForth
<1>4. CASE Sock!Connect
  <2>1. PICK e : Forth(e) /\ Turns(e)
    BY <1>3, <1>4
  <2> QED BY <1>1, <1>2, <1>4, <2>1 DEF Sock!Connect
<1>5. CASE Sock!HandleCast
  <2>1. PICK e : Forth(e) /\ Turns(e)
    BY <1>3, <1>5
  <2> QED BY <1>1, <1>2, <1>5, <2>1 DEF Sock!HandleCast
<1>6. CASE Sock!HandleInput
  <2>1. PICK e : Forth(e) /\ Turns(e)
    BY <1>3, <1>6
  <2>2. \A i \in DOMAIN wsCasts : wsCasts[i] # "connect"
    BY <1>6 DEF Sock!HandleInput, Consistent, Connecting
  <2>3. wsProcess = "up" /\ UNCHANGED <<Sock!javascript, Sock!server, wsCasts>>
    BY <1>6 DEF Sock!HandleInput
  <2> QED BY <1>0, <1>1, <2>1, <2>2, <2>3
<1>7. CASE Sock!OwnerDown
    BY <1>7 DEF Sock!OwnerDown, Consistent, Types, Constructed, Connecting, Opened, Asking,
                Sock!AnnouncedBefore, Sock!javascript, Sock!server, In
<1> QED BY <1>4, <1>5, <1>6, <1>7
-----------------------------------------------------------------------------
LEMMA ConsistentStutter == ASSUME Consistent, UNCHANGED Sock!vars PROVE Consistent'
BY DEF Sock!vars, Sock!javascript, Sock!server, Sock!connection, Consistent, Types, Constructed,
       Connecting, Opened, Asking, Sock!AnnouncedBefore, In

LEMMA ConsistentFinds == Consistent => Sock!FramesFindSocket
<1> SUFFICES ASSUME Consistent PROVE Sock!FramesFindSocket
    OBVIOUS
<1>1. ASSUME wsOwner = "up", \E kind \in Sock!Kind : wsTasks[kind] > 0
      PROVE  Sock!AnnouncedBefore(Len(wsMailbox) + 1)
  <2>1. wsKnown # "none" \/ In(wsMailbox, "started")
    BY <1>1 DEF Consistent, Constructed, Asking
  <2>2. DOMAIN wsMailbox = 1..((Len(wsMailbox) + 1) - 1)
    BY LenProperties DEF Consistent, Types
  <2> QED BY <2>1, <2>2 DEF Sock!AnnouncedBefore, In
<1>2. \A i \in DOMAIN wsMailbox : wsMailbox[i] # "started" => Sock!AnnouncedBefore(i)
    BY DEF Consistent, Constructed
<1>3. (\E i \in DOMAIN wsCasts : wsCasts[i] = "send") => wsSocket.stage = "established"
    BY DEF Consistent, Opened, In
<1> QED BY <1>1, <1>2, <1>3 DEF Sock!FramesFindSocket

LEMMA ConsistentStep == Consistent /\ [Sock!Next]_(Sock!vars) => Consistent'
BY ConsistentObject, ConsistentTask, ConsistentOwner, ConsistentConnection, ConsistentStutter
DEF Sock!Next

(* No frame is dropped on its way: its owner knows the connection before the  *)
(* request for it arrives, and the connection is established before the frame *)
(* does (server.ex, websocket_started and ws_send; web_socket.ex, handle_cast).*)
THEOREM FramesFound == Sock!Spec => []Sock!FramesFindSocket
BY ConsistentStep, ConsistentAtFirst, ConsistentFinds, PTL DEF Sock!Spec
-----------------------------------------------------------------------------
(* What is on its way or has arrived is what the connection has sent.         *)
Told == Count(wsEvents, {"close"}) + (IF wsReady = "closed" THEN 1 ELSE 0)
ClosedOnce == Told <= Ended(wsSocket)

LEMMA ToldIsNat ==
    ASSUME Consistent
    PROVE  Count(wsEvents, {"close"}) \in Nat /\ Told \in Nat /\ Ended(wsSocket) \in {0, 1}
BY CountIsNat DEF Consistent, Types, Told, Ended

LEMMA ClosedOnceStep ==
    ASSUME Consistent, ClosedOnce, [Sock!Next]_(Sock!vars)
    PROVE  ClosedOnce'
<1>0. /\ Count(wsEvents, {"close"}) \in Nat /\ Told \in Nat /\ Ended(wsSocket) \in {0, 1}
      /\ wsEvents \in Seq(Events)
    BY ToldIsNat DEF Consistent, Types
<1>1. ASSUME UNCHANGED <<wsEvents, wsSocket>>, wsReady' = "closed" => wsReady = "closed"
      PROVE  ClosedOnce'
    BY <1>0, <1>1 DEF ClosedOnce, Told, Ended
<1>2. CASE \/ Sock!Construct \/ Sock!StartLink \/ Sock!Announce \/ Sock!Resolve \/ Sock!Send
           \/ Sock!Close \/ Sock!Reset \/ Sock!OwnerHandles \/ Sock!SocketDown \/ Sock!OwnerDown
           \/ Sock!TaskKilled
           \/ (\E kind \in Sock!Kind : Sock!Forward(kind)) \/ UNCHANGED Sock!vars
    BY <1>1, <1>2 DEF Sock!Construct, Sock!StartLink, Sock!Announce, Sock!Resolve, Sock!Send,
       Sock!Ask, Sock!Close, Sock!Reset, Sock!OwnerHandles, Sock!SocketDown, Sock!OwnerDown,
       Sock!TaskKilled, Sock!Forward, Sock!vars, Sock!javascript, Sock!server, Sock!connection
<1>3. CASE Sock!Dispatch
  <2>1. Count(wsEvents, {"close"})
            = Count(wsEvents', {"close"}) + (IF Head(wsEvents) = "close" THEN 1 ELSE 0)
    BY <1>0, <1>3, CountPopped DEF Sock!Dispatch, Bit
  <2>2. wsEvents' \in Seq(Events)
    BY <1>0, <1>3, TailIn DEF Sock!Dispatch
  <2>3. Count(wsEvents', {"close"}) \in Nat
    BY <2>2, CountIsNat
  <2>4. wsReady' = "closed" => wsReady = "closed" \/ Head(wsEvents) = "close"
    BY <1>3 DEF Sock!Dispatch
  <2>5. wsSocket' = wsSocket
    BY <1>3 DEF Sock!Dispatch, Sock!connection
  <2> QED BY <1>0, <2>1, <2>3, <2>4, <2>5 DEF ClosedOnce, Told
<1>4. CASE Sock!OwnerEnds
  <2>1. Count(<< >>, {"close"}) = 0
    BY CountNone
  <2> QED BY <1>0, <1>4, <2>1 DEF Sock!OwnerEnds, Sock!javascript, ClosedOnce, Told
<1>5. CASE Sock!Connect \/ Sock!HandleCast \/ Sock!HandleInput
  <2>1. PICK e : Forth(e) /\ Turns(e)
    BY <1>5, ConnectionForth
  <2>2. /\ Count(e.out, {"close"}) = Ended(e.state) - Ended(wsSocket) /\ e.out \in Seq(Events)
        /\ Ended(e.state) \in {0, 1}
    BY <2>1 DEF Forth, Typed, Ended
  <2>3. Count(wsEvents \o e.out, {"close"}) = Count(wsEvents, {"close"}) + Count(e.out, {"close"})
    BY <1>0, <2>2, CountConcat
  <2>4. Count(e.out, {"close"}) \in Nat
    BY <2>2, CountIsNat
  <2>5. wsEvents' = wsEvents \o e.out \/ wsEvents' = wsEvents
    BY <2>1 DEF Turns, Sock!Becomes
  <2>6. wsSocket' = e.state /\ wsReady' = wsReady
    BY <1>5, <2>1 DEF Turns, Sock!Becomes, Sock!Connect, Sock!HandleCast, Sock!HandleInput, Sock!javascript
  <2>7. Told' = Told + Count(e.out, {"close"}) \/ Told' = Told
    <3>1. Count(wsEvents', {"close"}) \in {Count(wsEvents, {"close"}) + Count(e.out, {"close"}),
                                          Count(wsEvents, {"close"})}
      BY <2>3, <2>5
    <3>2. Told' = Count(wsEvents', {"close"}) + (IF wsReady = "closed" THEN 1 ELSE 0)
      BY <2>6 DEF Told
    <3> DEFINE c == IF wsReady = "closed" THEN 1 ELSE 0
               before == Count(wsEvents, {"close"})
               after == Count(wsEvents', {"close"})
               sent == Count(e.out, {"close"})
    <3>3. after \in {before + sent, before} /\ Told' = after + c /\ Told = before + c
      BY <3>1, <3>2 DEF Told
    <3>4. before \in Nat /\ sent \in Nat /\ c \in Nat
      BY <1>0, <2>4
    <3> HIDE DEF c, before, after, sent
    <3>5. Told' = Told + sent \/ Told' = Told
      BY <3>3, <3>4
    <3> QED BY <3>5 DEF sent
  <2>8. Ended(wsSocket)' = Ended(e.state)
    BY <2>6 DEF Ended
  <2> QED BY <1>0, <2>2, <2>4, <2>7, <2>8 DEF ClosedOnce
<1> QED BY <1>2, <1>3, <1>4, <1>5 DEF Sock!Next

(* An object gets one close event at most, and then no other: whatever a list *)
(* of responses, a failed write and a broken connection do together, emit_close*)
(* sends it once (web_socket.ex, emit_error_and_close), and the dispatcher of *)
(* websocket.ts has forgotten an object that got it.                          *)
THEOREM OneCloseEvent == Sock!Spec => []Sock!ClosesOnce
<1>1. Sock!Init => ClosedOnce
  <2>1. Count(<< >>, {"close"}) = 0
    BY CountNone
  <2> QED BY <2>1 DEF Sock!Init, ClosedOnce, Told, Ended
<1>2. Consistent /\ ClosedOnce => Sock!ClosesOnce
  <2> SUFFICES ASSUME Consistent, ClosedOnce PROVE Sock!ClosesOnce
    OBVIOUS
  <2>0. wsEvents \in Seq(Events) /\ Count(wsEvents, {"close"}) \in Nat
    BY ToldIsNat DEF Consistent, Types
  <2>1. Count(wsEvents, {"close"}) + (IF wsReady = "closed" THEN 1 ELSE 0) <= 1
    BY ToldIsNat DEF ClosedOnce, Told
  <2>2. ASSUME NEW i \in DOMAIN wsEvents, NEW j \in DOMAIN wsEvents,
               Sock!IsClose(i), Sock!IsClose(j)
        PROVE  i = j
    BY <2>0, <2>1, <2>2, AtMostOne DEF Sock!IsClose
  <2>3. ASSUME wsReady = "closed", NEW i \in DOMAIN wsEvents
        PROVE  ~Sock!IsClose(i)
    <3>1. Count(wsEvents, {"close"}) = 0
      BY <2>0, <2>1, <2>3
    <3> QED BY <2>0, <2>3, <3>1, CountIsNat DEF Sock!IsClose
  <2> QED BY <2>2, <2>3 DEF Sock!ClosesOnce
<1>3. Consistent /\ [Sock!Next]_(Sock!vars) => Consistent'
    BY ConsistentStep
<1> QED BY <1>1, <1>2, <1>3, ConsistentAtFirst, ClosedOnceStep, PTL DEF Sock!Spec
-----------------------------------------------------------------------------
(* The rest of the types.  A Task forwards a request once, so that there are  *)
(* never more Tasks than requests, which the bound caps.                      *)
Bounded ==
    /\ wsMissed \in BOOLEAN
    /\ wsReady \in {"none", "constructing", "connecting", "open", "closing", "closed", "lost"}
    /\ wsTask \in {"none", "starting", "started", "announced", "ended", "killed"}
    /\ wsTasks["send"] + wsTasks["close"] <= wsRequests /\ wsRequests \in 0..MaxRequests
    /\ wsOwner \in {"up", "dead"} /\ wsKnown \in {"none", "there", "gone"}
    /\ wsProcess \in {"none", "up", "ended", "failed"} /\ wsInputs \in 0..MaxInputs

LEMMA BoundedObject ==
    ASSUME Consistent, Bounded,
           \/ Sock!Construct \/ Sock!StartLink \/ Sock!Announce \/ Sock!Resolve
           \/ Sock!TaskKilled \/ Sock!Send \/ Sock!Close \/ Sock!Reset
           \/ \E kind \in Sock!Kind : Sock!Forward(kind)
    PROVE  Bounded'
<1>1. wsTasks["send"] \in Nat /\ wsTasks["close"] \in Nat /\ wsTasks \in [Sock!Kind -> Nat]
    BY DEF Consistent, Types, Sock!Kind
<1> USE DEF Bounded, Sock!javascript, Sock!server, Sock!connection
<1>2. CASE Sock!Construct \/ Sock!StartLink \/ Sock!Announce \/ Sock!TaskKilled
    BY <1>2 DEF Sock!Construct, Sock!StartLink, Sock!Announce, Sock!TaskKilled
<1>3. CASE Sock!Resolve
    BY <1>3 DEF Sock!Resolve
<1>4. CASE Sock!Reset
    BY <1>4 DEF Sock!Reset
<1>5. ASSUME NEW kind \in Sock!Kind, Sock!Ask(kind)
      PROVE  /\ wsTasks'["send"] + wsTasks'["close"] <= wsRequests'
             /\ wsRequests' \in 0..MaxRequests
    BY <1>1, <1>5, ServicesAssumption DEF Sock!Ask, Sock!Kind
<1>6. CASE Sock!Send
    BY <1>5, <1>6 DEF Sock!Send, Sock!Kind
<1>7. CASE Sock!Close
    BY <1>5, <1>7 DEF Sock!Close, Sock!Kind
<1>8. ASSUME NEW kind \in Sock!Kind, Sock!Forward(kind)
      PROVE  Bounded'
  <2>1. wsTasks'["send"] + wsTasks'["close"] <= wsRequests
    BY <1>1, <1>8 DEF Sock!Forward, Sock!Kind
  <2> QED BY <1>8, <2>1 DEF Sock!Forward
<1> QED BY <1>2, <1>3, <1>4, <1>6, <1>7, <1>8

LEMMA BoundedOthers ==
    ASSUME Bounded,
           \/ Sock!Dispatch \/ Sock!OwnerHandles \/ Sock!SocketDown \/ Sock!OwnerEnds
           \/ Sock!Connect \/ Sock!HandleCast \/ Sock!HandleInput \/ Sock!OwnerDown
           \/ UNCHANGED Sock!vars
    PROVE  Bounded'
<1> USE DEF Bounded, Sock!javascript, Sock!server, Sock!connection
<1>1. CASE Sock!Dispatch
  <2>1. wsMissed' \in BOOLEAN
    BY <1>1, Zenon DEF Sock!Dispatch
  <2> QED BY <1>1, <2>1 DEF Sock!Dispatch
<1>2. CASE Sock!OwnerHandles \/ Sock!SocketDown \/ Sock!OwnerDown
    BY <1>2 DEF Sock!OwnerHandles, Sock!SocketDown, Sock!OwnerDown
<1>3. CASE Sock!OwnerEnds
    BY <1>3 DEF Sock!OwnerEnds
<1>4. ASSUME NEW e, NEW failure \in BOOLEAN, Sock!Becomes(e, failure)
      PROVE  wsProcess' \in {wsProcess, "ended", "failed"}
    BY <1>4 DEF Sock!Becomes
<1>5. CASE Sock!Connect \/ Sock!HandleCast
  <2>1. wsProcess' \in {wsProcess, "ended", "failed"}
    BY <1>4, <1>5 DEF Sock!Connect, Sock!HandleCast
  <2> QED BY <1>5, <2>1 DEF Sock!Connect, Sock!HandleCast
<1>6. CASE Sock!HandleInput
  <2>1. wsProcess' \in {wsProcess, "ended", "failed"}
    BY <1>4, <1>6 DEF Sock!HandleInput
  <2>2. wsInputs' \in 0..MaxInputs /\ UNCHANGED <<Sock!javascript, Sock!server>>
    BY <1>6, ServicesAssumption DEF Sock!HandleInput
  <2> QED BY <2>1, <2>2
<1>7. CASE UNCHANGED Sock!vars
    BY <1>7 DEF Sock!vars
<1> QED BY <1>1, <1>2, <1>3, <1>5, <1>6, <1>7

LEMMA BoundedTypes == Consistent /\ Bounded => Sock!TypeOK
<1> SUFFICES ASSUME Consistent, Bounded PROVE Sock!TypeOK
    OBVIOUS
<1>1. wsTasks \in [Sock!Kind -> 0..MaxRequests]
  <2>1. wsTasks["send"] \in 0..MaxRequests /\ wsTasks["close"] \in 0..MaxRequests
    BY ServicesAssumption DEF Consistent, Types, Bounded, Sock!Kind
  <2> QED BY <2>1 DEF Consistent, Types, Sock!Kind
<1>2. wsCasts \in Seq({"connect", "send", "close"})
  <2>1. Sock!Kind \cup {"connect"} = {"connect", "send", "close"}
    BY DEF Sock!Kind
  <2> QED BY <2>1 DEF Consistent, Types
<1>3. wsEvents \in Seq({"open", "message", "error", "close"})
    BY DEF Consistent, Types, Events
<1>4. wsMailbox \in Seq(Sock!Kind \cup {"started"}) /\ wsSocket \in State
    BY DEF Consistent, Types
<1> QED BY <1>1, <1>2, <1>3, <1>4 DEF Bounded, State, Sock!TypeOK

(* With its types, the two properties together: whatever the remote end       *)
(* answers and in whatever order Tasks run, no frame of a script is dropped   *)
(* and its object closes once (web_socket.ex, websocket.ts, server.ex).       *)
THEOREM SocketIsSound == Sock!Spec => []SocketSound
<1>1. Sock!Init => Bounded
  <2> SUFFICES ASSUME Sock!Init PROVE Bounded
    OBVIOUS
  <2>1. wsMissed \in BOOLEAN
    BY Zenon DEF Sock!Init
  <2> QED BY <2>1, ServicesAssumption DEF Sock!Init, Bounded, Sock!Kind
<1>2. Consistent /\ Bounded /\ [Sock!Next]_(Sock!vars) => Bounded'
    BY BoundedObject, BoundedOthers DEF Sock!Next
<1>3. Sock!Spec => []Sock!TypeOK
    BY <1>1, <1>2, ConsistentAtFirst, ConsistentStep, BoundedTypes, PTL DEF Sock!Spec
<1> QED BY <1>3, FramesFound, OneCloseEvent, PTL DEF SocketSound
=============================================================================
