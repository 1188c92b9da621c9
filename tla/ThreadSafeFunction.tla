-------------------------- MODULE ThreadSafeFunction --------------------------
(***************************************************************************)
(* A thread-safe function of N-API (napi/tsfn.zig) and the worker thread   *)
(* that calls it (worker.zig): the threads of a native add-on put items    *)
(* into the function's queue and, outside its lock, a message into the     *)
(* runtime's queue; the worker takes one item for each message.            *)
(*                                                                         *)
(* Items and messages are counted.  A section under the function's lock is *)
(* one step, but for the test that leads to a wait: a release sets closing *)
(* and wakes without the lock, so it can come between the two.  The worker *)
(* is with the other messages of its queue when it is "awaiting".          *)
(***************************************************************************)
EXTENDS Naturals, FiniteSets

CONSTANTS Thread,         \* the threads that hold the function; initial_thread_count of them
          MaxQueueSize    \* max_queue_size; zero, a queue that is never full, is left out

ASSUME ThreadAssumption == IsFiniteSet(Thread) /\ MaxQueueSize \in Nat \ {0}

VARIABLES pc,        \* where each thread is
          items,     \* number of items in the function's queue
          messages,  \* number of napi_tsfn_call messages in the runtime's queue
          closing,   \* the function's closing flag
          aborted,   \* whether a release with the mode abort has been
          worker,    \* what the worker thread does
          freed      \* finalized: the function is destroyed

vars == <<pc, items, messages, closing, aborted, worker, freed>>

Init ==
    /\ pc = [t \in Thread |-> "out"]
    /\ items = 0 /\ messages = 0
    /\ closing = FALSE /\ aborted = FALSE
    /\ worker = "loop"
    /\ freed = FALSE
-----------------------------------------------------------------------------
At(where) == {t \in Thread : pc[t] = where}
Goto(t, where) == pc' = [pc EXCEPT ![t] = where]
Full == items >= MaxQueueSize

(* A thread between its test and its wait holds the lock; a step that takes  *)
(* the lock needs the function to be there.                                  *)
Lockable == At("checked") = {} /\ ~freed

(* napi_call_threadsafe_function up to the unlock.  A thread that was woken  *)
(* tests again.                                                              *)
CallSection(t, blocking) ==
    /\ Lockable
    /\ IF closing \/ (~blocking /\ Full)
       THEN Goto(t, "out") /\ UNCHANGED items
       ELSE IF Full THEN Goto(t, "checked") /\ UNCHANGED items
                    ELSE Goto(t, "sending") /\ items' = items + 1
    /\ UNCHANGED <<messages, closing, aborted, worker, freed>>

Call(t) == pc[t] = "out" /\ \E blocking \in BOOLEAN : CallSection(t, blocking)
TestAgain(t) == pc[t] = "woken" /\ CallSection(t, TRUE)

(* condvar.wait joins the waiters and unlocks. *)
Wait(t) ==
    /\ pc[t] = "checked"
    /\ Goto(t, "waiting")
    /\ UNCHANGED <<items, messages, closing, aborted, worker, freed>>

(* The message goes out after the unlock. *)
SendMessage(t) ==
    /\ pc[t] = "sending"
    /\ Goto(t, "out")
    /\ messages' = messages + 1
    /\ UNCHANGED <<items, closing, aborted, worker, freed>>

(* napi_release_threadsafe_function: the count, the flag and the broadcast   *)
(* are three steps, none under the lock.                                     *)
Holders == Thread \ (At("closing") \cup At("broadcasting") \cup At("gone"))
Release_ByAnyone(t) ==
    /\ pc[t] = "out" /\ ~freed
    /\ \E abort \in BOOLEAN :
          /\ Goto(t, "closing")
          /\ aborted' = (aborted \/ abort)
    /\ UNCHANGED <<items, messages, closing, worker, freed>>
Release(t) ==
    /\ pc[t] = "out" /\ ~freed
    /\ \E abort \in BOOLEAN :
          /\ Goto(t, IF abort \/ Holders = {t} THEN "closing" ELSE "gone")
          /\ aborted' = (aborted \/ abort)
    /\ UNCHANGED <<items, messages, closing, worker, freed>>

Close_DropsItems(t) ==
    /\ pc[t] = "closing" /\ ~freed
    /\ Goto(t, "broadcasting")
    /\ closing' = TRUE /\ items' = 0
    /\ UNCHANGED <<messages, aborted, worker, freed>>
Close(t) ==
    /\ pc[t] = "closing" /\ ~freed
    /\ Goto(t, "broadcasting")
    /\ closing' = TRUE
    /\ UNCHANGED <<items, messages, aborted, worker, freed>>

Broadcast_Nobody(t) ==
    /\ pc[t] = "broadcasting" /\ ~freed
    /\ Goto(t, "gone")
    /\ UNCHANGED <<items, messages, closing, aborted, worker, freed>>
Broadcast(t) ==
    /\ pc[t] = "broadcasting" /\ ~freed
    /\ pc' = [s \in Thread |-> IF s = t THEN "gone"
                               ELSE IF pc[s] = "waiting" THEN "woken" ELSE pc[s]]
    /\ UNCHANGED <<items, messages, closing, aborted, worker, freed>>
-----------------------------------------------------------------------------
(* condvar.signal wakes one of the waiters, if there is one. *)
Signal ==
    \/ At("waiting") = {} /\ UNCHANGED pc
    \/ \E t \in At("waiting") : Goto(t, "woken")

(* The worker's loop on a message.  An empty queue breaks out of the loop of *)
(* the worker, not only out of this message.                                 *)
TakeItem ==
    /\ worker = "loop" /\ messages > 0 /\ Lockable
    /\ messages' = messages - 1
    /\ IF items = 0
       THEN worker' = "broken" /\ UNCHANGED <<pc, items>>
       ELSE /\ items' = items - 1
            /\ Signal
            /\ worker' = IF closing /\ items' = 0 THEN "finalizing" ELSE "calling"
    /\ UNCHANGED <<closing, aborted, freed>>

(* The callback of JavaScript has returned. *)
CallbackReturns ==
    /\ worker \in {"calling", "finalizing"}
    /\ freed' = (worker = "finalizing")
    /\ worker' = "loop"
    /\ UNCHANGED <<pc, items, messages, closing, aborted>>

(* Another message makes the worker wait for a promise.  await_promise calls *)
(* the function for a message as well, but leaves the item where it is.      *)
AwaitPromise ==
    /\ worker = "loop"
    /\ worker' = "awaiting"
    /\ UNCHANGED <<pc, items, messages, closing, aborted, freed>>

AwaitTakesMessage ==
    /\ worker = "awaiting" /\ messages > 0
    /\ messages' = messages - 1
    /\ UNCHANGED <<pc, items, closing, aborted, worker, freed>>

AwaitEnds ==
    /\ worker = "awaiting"
    /\ worker' = "loop"
    /\ UNCHANGED <<pc, items, messages, closing, aborted, freed>>

(* The stop message, in the loop. *)
Stop ==
    /\ worker = "loop"
    /\ worker' = "stopped"
    /\ UNCHANGED <<pc, items, messages, closing, aborted, freed>>
-----------------------------------------------------------------------------
Next ==
    \/ \E t \in Thread : \/ Call(t) \/ TestAgain(t) \/ Wait(t) \/ SendMessage(t)
                         \/ Release(t) \/ Close(t) \/ Broadcast(t)
    \/ TakeItem \/ CallbackReturns \/ AwaitPromise \/ AwaitTakesMessage \/ AwaitEnds \/ Stop

Spec == Init /\ [][Next]_vars

(* A thread that is inside a function of N-API goes on, callbacks return and *)
(* await_promise ends.  The runtime's queue is first in, first out: the loop *)
(* comes to each message, however often it awaits promises (SF).  Nothing    *)
(* makes a thread call or release.                                           *)
Fairness ==
    /\ \A t \in Thread : /\ WF_vars(TestAgain(t)) /\ WF_vars(Wait(t)) /\ WF_vars(SendMessage(t))
                         /\ WF_vars(Close(t)) /\ WF_vars(Broadcast(t))
    /\ SF_vars(TakeItem) /\ WF_vars(CallbackReturns) /\ WF_vars(AwaitEnds)
FairSpec == Spec /\ Fairness
-----------------------------------------------------------------------------
TypeOK ==
    /\ pc \in [Thread -> {"out", "checked", "waiting", "woken", "sending", "closing",
                          "broadcasting", "gone"}]
    /\ items \in Nat /\ messages \in Nat
    /\ closing \in BOOLEAN /\ aborted \in BOOLEAN
    /\ worker \in {"loop", "calling", "finalizing", "awaiting", "stopped", "broken"}
    /\ freed \in BOOLEAN

(* A message never finds the queue empty: the "break" that ends the loop of  *)
(* the worker, and with it the runtime, is not reached, whatever messages    *)
(* await_promise took.                                                       *)
LoopUnbroken == worker # "broken"

(* The queue holds an item for every message on its way. *)
MessagesHaveItems == messages + Cardinality(At("sending")) <= items

(* Threads that release when they are through, and do not abort: the worker  *)
(* destroys the function under none of them, except under the broadcast of   *)
(* the last release.                                                         *)
FreedUnused == freed /\ ~aborted => \A t \in Thread : pc[t] \in {"broadcasting", "gone"}

(* A message that await_promise took without its item. *)
Dropped == items > messages + Cardinality(At("sending"))

(* No lost wakeup: a call that is blocked when the function closes returns,  *)
(* although the flag and the broadcast come without the lock.  The worker's  *)
(* signal for an item rescues the one that misses the broadcast, so the      *)
(* worker has to have a message for an item, and the function to be there.   *)
BlockedReturns(t) ==
    (closing /\ pc[t] \in {"checked", "waiting", "woken"})
        ~> (pc[t] \notin {"checked", "waiting", "woken"}
            \/ freed \/ Dropped \/ worker = "stopped")
ClosingReturns == \A t \in Thread : BlockedReturns(t)
=============================================================================
