-------------------------------- MODULE Timers --------------------------------
(***************************************************************************)
(* setTimeout, setInterval and their clear functions (timers.zig) and the  *)
(* worker's round of expired timers (worker.zig, fire_expired_timers).     *)
(*                                                                         *)
(* The round first fills a list with the numbers of expired timers, then   *)
(* calls each: JavaScript of a callback, of the jobs after it and of the   *)
(* worker's messages sets and clears timers at will, those of the list     *)
(* too.  Numbers are never used again, not even after a reset.  The clock  *)
(* is in the state of each timer: its deadline has passed or not.          *)
(***************************************************************************)
EXTENDS Naturals, FiniteSets

CONSTANTS Timer,       \* numbers of timers; bound: those that are ever set
          BufferSize   \* length of the list, 64 in the code

VARIABLES timer,      \* each number: unset, in the table as waiting or expired, or gone
          interval,   \* the numbers that setInterval gave
          worker,     \* what the worker does: its loop, a callback or its jobs
          expired,    \* the rest of the list of the round
          firing      \* the timer whose callback was called last, in a singleton

vars == <<timer, interval, worker, expired, firing>>

Init ==
    /\ timer = [t \in Timer |-> "unset"]
    /\ interval = {}
    /\ worker = "loop"
    /\ expired = {} /\ firing = {}
-----------------------------------------------------------------------------
InTable(t) == timer[t] \in {"waiting", "expired"}
Table == {t \in Timer : InTable(t)}

(* JavaScript runs in a message, in a callback and in the jobs after it. *)
Running == worker \in {"message", "callback", "jobs"}

(* set_timer_common: an interval is at least a millisecond. *)
SetTimer(t) ==
    /\ Running /\ timer[t] = "unset"
    /\ \/ interval' = interval \cup {t} /\ timer' = [timer EXCEPT ![t] = "waiting"]
       \/ UNCHANGED interval /\ \E now \in {"waiting", "expired"} : timer' = [timer EXCEPT ![t] = now]
    /\ UNCHANGED <<worker, expired, firing>>

(* clear_timer_impl: a number that is not in the table is ignored. *)
ClearTimer(t) ==
    /\ Running /\ InTable(t)
    /\ timer' = [timer EXCEPT ![t] = "gone"]
    /\ UNCHANGED <<interval, worker, expired, firing>>

Elapse(t) ==
    /\ timer[t] = "waiting"
    /\ timer' = [timer EXCEPT ![t] = "expired"]
    /\ UNCHANGED <<interval, worker, expired, firing>>
-----------------------------------------------------------------------------
(* A message of the worker's queue runs JavaScript.  When that awaits a      *)
(* promise, await_promise is such a loop too: the message goes on as another.*)
Message ==
    /\ worker = "loop"
    /\ worker' = "message"
    /\ UNCHANGED <<timer, interval, expired, firing>>
MessageEnds ==
    /\ worker = "message"
    /\ worker' = "loop"
    /\ UNCHANGED <<timer, interval, expired, firing>>

(* do_reset drops the table; next_timer_id goes on. *)
Reset ==
    /\ worker = "message"
    /\ timer' = [t \in Timer |-> IF InTable(t) THEN "gone" ELSE timer[t]]
    /\ worker' = "loop"
    /\ UNCHANGED <<interval, expired, firing>>

(* fire_expired_timers, the list: in the order of the hash map, as many as   *)
(* it holds.                                                                 *)
CollectExpired_OneLess ==
    /\ worker = "loop"
    /\ LET due == {t \in Timer : timer[t] = "expired"}
       IN  /\ due # {}
           /\ \E some \in SUBSET due :
                 /\ Cardinality(some) = BufferSize - 1
                 /\ expired' = some
    /\ worker' = "round"
    /\ UNCHANGED <<timer, interval, firing>>
CollectExpired ==
    /\ worker = "loop"
    /\ LET due == {t \in Timer : timer[t] = "expired"}
       IN  /\ due # {}
           /\ \E some \in SUBSET due :
                 /\ Cardinality(some) = BufferSize \/ (some = due /\ Cardinality(due) < BufferSize)
                 /\ expired' = some
    /\ worker' = "round"
    /\ UNCHANGED <<timer, interval, firing>>

(* The next of the list is looked up again before its callback is called. *)
Fire_Unchecked(t) ==
    /\ worker = "round" /\ t \in expired
    /\ expired' = expired \ {t}
    /\ worker' = "callback" /\ firing' = {t}
    /\ UNCHANGED <<timer, interval>>
Fire(t) ==
    /\ worker = "round" /\ t \in expired
    /\ expired' = expired \ {t}
    /\ IF InTable(t) THEN worker' = "callback" /\ firing' = {t}
                     ELSE UNCHANGED <<worker, firing>>
    /\ UNCHANGED <<timer, interval>>

(* ... and after it: an interval gets its next deadline, another timer       *)
(* leaves the table.                                                         *)
CallbackReturns ==
    /\ worker = "callback"
    /\ timer' = [t \in Timer |-> IF t \in firing /\ InTable(t)
                                 THEN IF t \in interval THEN "waiting" ELSE "gone"
                                 ELSE timer[t]]
    /\ worker' = "jobs" /\ firing' = {}
    /\ UNCHANGED <<interval, expired>>

JobsDrained ==
    /\ worker = "jobs"
    /\ worker' = "round"
    /\ UNCHANGED <<timer, interval, expired, firing>>

RoundEnds ==
    /\ worker = "round" /\ expired = {}
    /\ worker' = "loop"
    /\ UNCHANGED <<timer, interval, expired, firing>>
-----------------------------------------------------------------------------
Next ==
    \/ \E t \in Timer : SetTimer(t) \/ ClearTimer(t) \/ Elapse(t) \/ Fire(t)
    \/ Message \/ MessageEnds \/ Reset \/ CollectExpired \/ CallbackReturns \/ JobsDrained
    \/ RoundEnds

Spec == Init /\ [][Next]_vars

(* The clock runs, the worker's loop fires its timers before each message,   *)
(* and JavaScript ends: a callback and its jobs set or clear finitely often. *)
Fairness ==
    /\ \A t \in Timer : WF_vars(Elapse(t)) /\ WF_vars(Fire(t))
    /\ WF_vars(MessageEnds) /\ WF_vars(CallbackReturns) /\ WF_vars(JobsDrained)
    /\ WF_vars(RoundEnds) /\ SF_vars(CollectExpired)
FairSpec == Spec /\ Fairness
-----------------------------------------------------------------------------
TypeOK ==
    /\ timer \in [Timer -> {"unset", "waiting", "expired", "gone"}]
    /\ interval \subseteq Timer
    /\ worker \in {"loop", "message", "round", "callback", "jobs"}
    /\ expired \subseteq Timer /\ firing \subseteq Timer

(* A callback is called after its deadline only, and a timer that is gone    *)
(* stays so: one that was cleared, by its own callback, by another of the    *)
(* same round or by a reset, is never called again.                          *)
ClearedNeverFires ==
    [][\A t \in Timer : /\ t \in firing' \ firing => timer[t] = "expired"
                        /\ timer[t] = "gone" => timer'[t] = "gone"]_vars

(* An expired timer is called or cleared, unless at some time more have      *)
(* expired than the list of a round holds: then the hash map decides whose   *)
(* turn it is.                                                               *)
TimerFires(t) ==
    (timer[t] = "expired")
        ~> \/ timer[t] # "expired"
           \/ Cardinality({u \in Timer : timer[u] = "expired"}) > BufferSize
ExpiredFires == \A t \in Timer : TimerFires(t)
=============================================================================
