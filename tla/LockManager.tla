----------------------------- MODULE LockManager -----------------------------
(***************************************************************************)
(* navigator.locks: the LockManager GenServer (lock_manager.ex) together   *)
(* with the JavaScript sessions that call it (priv/ts/locks.ts).           *)
(*                                                                         *)
(* A session is one call site of navigator.locks.request in a runtime.  It *)
(* reaches the server through Beam.call, which runs __locks_request and    *)
(* __locks_release in unlinked Tasks of the runtime's process: the         *)
(* server's mailbox therefore has no order between sessions, and a Task    *)
(* outlives its runtime.  Locks are held by the runtime's process, not by  *)
(* the session; the session names the monitor reference of its request.    *)
(***************************************************************************)
EXTENDS Naturals, Sequences, FiniteSets

CONSTANTS Name,      \* lock names
          Runtime,   \* processes that hold locks
          Session,   \* call sites of navigator.locks.request
          Owner,     \* the runtime each session runs in
          Mode,      \* the modes requested, within {"shared", "exclusive"}
          Resettable \* runtimes whose JavaScript context may be reset

ASSUME LockAssumption ==
    /\ Mode \subseteq {"shared", "exclusive"}
    /\ Owner \in [Session -> Runtime]
    /\ Resettable \subseteq Runtime
    /\ Session # {}
    /\ IsFiniteSet(Session)

VARIABLES alive,   \* runtimes whose process is alive
          lost,    \* sessions whose JavaScript continuation a reset discarded
          pc,      \* where each session is
          want,    \* name and mode of the session's current request
          held,    \* the server's held locks
          pending  \* the server's queue of waiting requests

vars == <<alive, lost, pc, want, held, pending>>

Want == [name : Name, mode : Mode]
Lock == [name : Name, mode : Mode, holder : Runtime, ref : Session]

LockOf(s) == [name |-> want[s].name, mode |-> want[s].mode,
              holder |-> Owner[s], ref |-> s]

(* A session's JavaScript can take a step. *)
Live(s) == Owner[s] \in alive /\ s \notin lost

(* The callback of navigator.locks.request runs and believes it is locked. *)
Running(s) == pc[s] = "critical" /\ Live(s)

-----------------------------------------------------------------------------
(* can_grant?: only the held locks count, never the queue. *)
CanGrant(locks, name, mode) ==
    LET existing == {l \in locks : l.name = name}
    IN  \/ existing = {}
        \/ mode = "shared" /\ \A l \in existing : l.mode = "shared"

Order_NotReversed(K) == {f \in [1..Cardinality(K) -> K] :
                            /\ \A i, j \in DOMAIN f : i < j => f[i] > f[j]
                            /\ \A k \in K : \E i \in DOMAIN f : f[i] = k}

(* The indices K of a sequence in increasing order: filtering a sequence by  *)
(* K is composing it with the one function in this set.                      *)
Order(K) == {f \in [1..Cardinality(K) -> K] :
                /\ \A i, j \in DOMAIN f : i < j => f[i] < f[j]
                /\ \A k \in K : \E i \in DOMAIN f : f[i] = k}

GrantPass_HeadOnly(locks, queue, G) ==
    G = {i \in DOMAIN queue : i = 1 /\ CanGrant(locks, queue[i].name, queue[i].mode)}

GrantPass_Forgotten(locks, queue, G) == G = {}

(* G is what the reduce over the queue grants: each request is tried against *)
(* the held locks and those granted before it in the same pass.              *)
GrantPass(locks, queue, G) ==
    \A i \in DOMAIN queue :
        i \in G <=> CanGrant(locks \cup {queue[j] : j \in {k \in G : k < i}},
                             queue[i].name, queue[i].mode)

(* try_grant_pending, run with the locks and queue the handler has left;     *)
(* answers is pc after the handler's own replies.                            *)
TryGrantPending(locks, queue, answers) ==
    \E G \in SUBSET DOMAIN queue :
        /\ GrantPass(locks, queue, G)
        /\ held' = locks \cup {queue[i] : i \in G}
        /\ \E f \in Order(DOMAIN queue \ G) :
               pending' = [i \in DOMAIN f |-> queue[f[i]]]
        /\ pc' = [s \in Session |-> IF \E i \in G : queue[i].ref = s
                                    THEN "critical" ELSE answers[s]]

-----------------------------------------------------------------------------
Init ==
    /\ alive = Runtime
    /\ lost = {}
    /\ pc = [s \in Session |-> "idle"]
    /\ want \in [Session -> Want]
    /\ held = {}
    /\ pending = << >>

(* A session asks for a lock; "trying" is a request with ifAvailable. *)
Call(s) ==
    /\ pc[s] = "idle" /\ Live(s)
    /\ \E w \in Want, p \in {"calling", "trying"} :
           /\ want' = [want EXCEPT ![s] = w]
           /\ pc' = [pc EXCEPT ![s] = p]
    /\ UNCHANGED <<alive, lost, held, pending>>

(* handle_call {:request, ...}: grant, refuse or queue.  A holder that is    *)
(* already dead is monitored like any other: its DOWN follows.               *)
Request(s) ==
    /\ pc[s] \in {"calling", "trying"}
    /\ \/ /\ CanGrant(held, want[s].name, want[s].mode)
          /\ held' = held \cup {LockOf(s)}
          /\ pc' = [pc EXCEPT ![s] = "critical"]
          /\ UNCHANGED pending
       \/ /\ ~CanGrant(held, want[s].name, want[s].mode)
          /\ pc[s] = "trying"
          /\ pc' = [pc EXCEPT ![s] = "idle"]
          /\ UNCHANGED <<held, pending>>
       \/ /\ ~CanGrant(held, want[s].name, want[s].mode)
          /\ pc[s] = "calling"
          /\ pc' = [pc EXCEPT ![s] = "waiting"]
          /\ pending' = Append(pending, LockOf(s))
          /\ UNCHANGED held
    /\ UNCHANGED <<alive, lost, want>>

(* The callback settles; the finally clause of request() sends the release. *)
Finish(s) ==
    /\ Running(s)
    /\ pc' = [pc EXCEPT ![s] = "releasing"]
    /\ UNCHANGED <<alive, lost, want, held, pending>>

Released_EveryHolder(s) == {l \in held : l.name = want[s].name}

(* The locks handle_call {:release, name, holder} drops: every lock of that  *)
(* name the holder has, whichever session acquired it.                       *)
Released(s) == {l \in held : l.name = want[s].name /\ l.holder = Owner[s]}

(* handle_call {:release, name, holder}. *)
Release(s) ==
    /\ pc[s] = "releasing"
    /\ TryGrantPending(held \ Released(s), pending, [pc EXCEPT ![s] = "idle"])
    /\ UNCHANGED <<alive, lost, want>>

HolderDown_QueueOnly(s) ==
    /\ Owner[s] \notin alive
    /\ \E i \in DOMAIN pending : pending[i].ref = s
    /\ \E f \in Order({i \in DOMAIN pending : pending[i].ref # s}) :
           pending' = [i \in DOMAIN f |-> pending[f[i]]]
    /\ pc' = [pc EXCEPT ![s] = "idle"]
    /\ UNCHANGED <<alive, lost, want, held>>

(* handle_info {:DOWN, ref, ...}: one signal per monitored request.  The     *)
(* queue is only tried again when a held lock was released.                  *)
HolderDown(s) ==
    /\ Owner[s] \notin alive
    /\ LET kept == {l \in held : l.ref # s}
           cancelled == {i \in DOMAIN pending : pending[i].ref = s}
           answers == IF cancelled # {} THEN [pc EXCEPT ![s] = "idle"] ELSE pc
       IN  /\ kept # held \/ cancelled # {}
           /\ \E f \in Order(DOMAIN pending \ cancelled) :
                 LET queue == [i \in DOMAIN f |-> pending[f[i]]]
                 IN  \/ kept # held /\ TryGrantPending(kept, queue, answers)
                     \/ /\ kept = held
                        /\ pending' = queue
                        /\ pc' = answers
                        /\ UNCHANGED held
    /\ UNCHANGED <<alive, lost, want>>

(* A runtime's process exits: its JavaScript stops with it. *)
Die(r) ==
    /\ r \in alive
    /\ alive' = alive \ {r}
    /\ UNCHANGED <<lost, pc, want, held, pending>>

(* do_reset discards the JavaScript continuations of the runtime's sessions; *)
(* its process, and so its locks and queued requests, stay.                  *)
Reset(r) ==
    /\ r \in alive \cap Resettable
    /\ lost' = lost \cup {s \in Session : /\ Owner[s] = r
                                          /\ pc[s] \in {"calling", "trying",
                                                        "waiting", "critical"}}
    /\ lost' # lost
    /\ UNCHANGED <<alive, pc, want, held, pending>>

Next ==
    \/ \E s \in Session : Call(s) \/ Request(s) \/ Finish(s)
                          \/ Release(s) \/ HolderDown(s)
    \/ \E r \in Runtime : Die(r) \/ Reset(r)

Spec == Init /\ [][Next]_vars

(* The server answers its mailbox, a monitor fires, and a callback ends.     *)
(* Nothing makes a session call, a runtime die or a reset happen.            *)
Fairness == \A s \in Session : /\ WF_vars(Request(s)) /\ WF_vars(Release(s))
                               /\ WF_vars(HolderDown(s)) /\ WF_vars(Finish(s))
FairSpec == Spec /\ Fairness

-----------------------------------------------------------------------------
(* The server seen as the table of its held locks. *)
Table == INSTANCE LockTable WITH Lock <- Lock, table <- held

(* Every step of the server is one legal change of the abstract table: in    *)
(* particular a hand-over grants only the name that was freed.               *)
ImplementsLockTable == Table!Spec

(* The types of the server's books and of the sessions. *)
TypeOK ==
    /\ alive \subseteq Runtime
    /\ lost \subseteq Session
    /\ pc \in [Session -> {"idle", "calling", "trying", "waiting", "critical",
                           "releasing"}]
    /\ want \in [Session -> Want]
    /\ held \subseteq Lock
    /\ pending \in Seq(Lock)

(* The server's books: two locks held under one name are both shared, over   *)
(* grants at request time, after a release and after a holder's death.       *)
MutualExclusion ==
    \A l, m \in held : l # m /\ l.name = m.name =>
                           l.mode = "shared" /\ m.mode = "shared"

(* No lost wakeup: a request the held locks would allow is not left waiting  *)
(* in the queue, although only some of the handlers try the queue again.     *)
NoGrantableWaits ==
    \A i \in DOMAIN pending :
        ~CanGrant(held, pending[i].name, pending[i].mode)

(* A session waits exactly while the queue has its request, once, and no     *)
(* lock under its reference: every request is answered once and only once.   *)
WaitersAreQueued ==
    \A s \in Session :
        /\ pc[s] = "waiting" =>
              Cardinality({i \in DOMAIN pending : pending[i].ref = s}) = 1
        /\ pc[s] # "waiting" => \A i \in DOMAIN pending : pending[i].ref # s
        /\ \A l \in held : l.ref = s => pc[s] \in {"critical", "releasing"}

(* The server's queue neither forgets a request nor lets one wait for nothing. *)
QueueExact == NoGrantableWaits /\ WaitersAreQueued

(* What navigator.locks promises to JavaScript: an exclusive callback runs   *)
(* with no other callback of that name, in any runtime.                      *)
CallbackExclusion ==
    \A s, t \in Session :
        (s # t /\ Running(s) /\ Running(t) /\ want[s].name = want[t].name)
            => want[s].mode = "shared" /\ want[t].mode = "shared"

(* An exclusive request leaves the queue granted only when no request for    *)
(* the same name is left waiting that was queued before it.                  *)
NoExclusiveOvertake ==
    [][\A s, t \in Session :
          /\ pc[s] = "waiting" /\ pc'[s] = "critical"
          /\ want[s].mode = "exclusive"
          /\ \E i, j \in DOMAIN pending :
                /\ i < j /\ pending[i].ref = t /\ pending[j].ref = s
                /\ pending[i].name = pending[j].name
          => pc'[t] # "waiting"]_vars

(* The locks and the queued requests of a dead runtime all disappear, also   *)
(* those its Tasks still ask for after its death.                            *)
DeadHolderCleaned ==
    \A r \in Runtime :
        (r \notin alive) ~> [](/\ \A l \in held : l.holder # r
                               /\ \A i \in DOMAIN pending : pending[i].holder # r)

(* With callbacks that end, a request that waits is answered, unless a reset *)
(* took a callback with its release, or the request is exclusive and shared  *)
(* requests for its name keep coming: those do not queue behind it.          *)
WaitersAnswered ==
    \A s \in Session :
        (pc[s] = "waiting")
            ~> \/ pc[s] # "waiting"
               \/ lost # {}
               \/ /\ want[s].mode = "exclusive"
                  /\ \E l \in held : l.name = want[s].name /\ l.mode = "shared"
=============================================================================
