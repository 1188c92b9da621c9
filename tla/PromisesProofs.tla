----------------------------- MODULE PromisesProofs -----------------------------
(***************************************************************************)
(* Theorems about promises, for every set of them and all limits: what a   *)
(* promise was settled with never changes, nothing waits for a promise     *)
(* that is settled, every promise has exactly one thing that will settle   *)
(* or resolve it, and an aggregate counts what has not reported to it.     *)
(*                                                                         *)
(* The first two are shown of the operators, as a relation between the     *)
(* execution an operator is given and the one it returns.  The others need *)
(* a book of who settles what (Book, and Orderly as the invariant): most   *)
(* handlers take something from one place and put it in the next, and in   *)
(* between the book is Short of it.                                        *)
(***************************************************************************)
EXTENDS Promises, SequenceLemmas

(* An execution has a promise and a list of waiters for every number. *)
Fields == {"promises", "promise_waiters", "jobs", "sync_jobs", "promise_aggregates", "operations"}
Execution(e) ==
    /\ e = [field \in Fields |-> e[field]]
    /\ e.promises = [p \in Promise |-> e.promises[p]]
    /\ e.promise_waiters = [p \in Promise |-> e.promise_waiters[p]]

NoneStranded(e) ==
    \A q \in Promise : e.promise_waiters[q] # <<>> => e.promises[q] \in Unsettled

(* A sound execution, and one that keeps what was settled in another. *)
Sound(e) == Execution(e) /\ NoneStranded(e)
Keeps(e, f) ==
    \A p \in Promise : e.promises[p] \in Settled => f.promises[p] = e.promises[p]
Preserves(e, f) == Sound(f) /\ Keeps(e, f)
-----------------------------------------------------------------------------
(* Settling what is pending, and marking it as resolving. *)
LEMMA SettleResultPreserves ==
    ASSUME NEW e, Sound(e), NEW p, NEW v
    PROVE  Preserves(e, SettleResult(e, p, v))
BY DEF Sound, Execution, Fields, NoneStranded, Keeps, Preserves, SettleResult, Settled, Value

LEMMA ResolvingPreserves ==
    ASSUME NEW e, Sound(e), NEW p, e.promises[p] = "pending"
    PROVE  /\ Preserves(e, Resolving(e, p))
           /\ \A q \in Promise : e.promises[q] \in Unsettled =>
                  Resolving(e, p).promises[q] \in Unsettled
BY DEF Sound, Execution, Fields, NoneStranded, Keeps, Preserves, Resolving, Settled, Value, Unsettled

(* Back to pending for a moment, in settle_assimilated. *)
LEMMA ReopenPreserves ==
    ASSUME NEW e, Sound(e), NEW p, e.promises[p] = "resolving"
    PROVE  Preserves(e, [e EXCEPT !.promises[p] = "pending"])
BY DEF Sound, Execution, Fields, NoneStranded, Keeps, Preserves, Settled, Value, Unsettled

(* A new waiter of a promise that is not settled. *)
LEMMA AddWaiterPreserves ==
    ASSUME NEW e, Sound(e), NEW q, NEW w, q \in Promise => e.promises[q] \in Unsettled
    PROVE  Preserves(e, AddWaiter(e, q, w))
<1>1. ASSUME NEW ws
      PROVE  Preserves(e, [e EXCEPT !.promise_waiters[q] = ws])
  BY DEF Sound, Execution, Fields, NoneStranded, Keeps, Preserves
<1>2. QED
  BY <1>1, Zenon DEF AddWaiter

(* What leaves the promises and their waiters alone. *)
LEMMA SamePromisesPreserve ==
    ASSUME NEW e, Sound(e), NEW f, Execution(f),
           f.promises = e.promises, f.promise_waiters = e.promise_waiters
    PROVE  Preserves(e, f)
BY DEF Sound, NoneStranded, Keeps, Preserves

LEMMA OtherFieldsPreserve ==
    ASSUME NEW e, Sound(e), NEW x
    PROVE  /\ Preserves(e, [e EXCEPT !.jobs = x])
           /\ Preserves(e, [e EXCEPT !.sync_jobs = x])
           /\ Preserves(e, [e EXCEPT !.promise_aggregates = x])
           /\ Preserves(e, [e EXCEPT !.operations = x])
BY SamePromisesPreserve DEF Sound, Execution, Fields

LEMMA PreservesIsTransitive ==
    ASSUME NEW e, NEW f, NEW g, Preserves(e, f), Preserves(f, g)
    PROVE  Preserves(e, g)
BY DEF Preserves, Keeps
-----------------------------------------------------------------------------
LEMMA EnqueuePreserves ==
    ASSUME NEW e, Sound(e), NEW job
    PROVE  Preserves(e, Enqueue(e, job))
BY OtherFieldsPreserve DEF Enqueue

LEMMA SettlePreserves ==
    ASSUME NEW e, Sound(e), NEW p, NEW r, NEW then
    PROVE  Preserves(e, Settle(e, p, r, then))
<1> DEFINE v == CASE r \notin Promise -> r
                  [] r = p -> "rejected"
                  [] OTHER -> e.promises[r]
<1>1. Preserves(e, e)
  BY DEF Preserves, Keeps
<1>2. ASSUME e.promises[p] = "pending", v \in Unsettled
      PROVE  Preserves(e, AddWaiter(Resolving(e, p), r, Waiter("adopt", p, 0, "none")))
  <2>1. r \in Promise => e.promises[r] \in Unsettled
    BY <1>2 DEF Unsettled
  <2>2. QED
    BY <1>2, <2>1, ResolvingPreserves, AddWaiterPreserves, PreservesIsTransitive
       DEF Preserves
<1>3. ASSUME e.promises[p] = "pending"
      PROVE  Preserves(e, Enqueue(Resolving(e, p), Job("assimilate_thenable", p, 0, "none")))
  BY <1>3, ResolvingPreserves, EnqueuePreserves, PreservesIsTransitive DEF Preserves
<1>4. ASSUME e.promises[p] = "pending"
      PROVE  Preserves(e, [Resolving(e, p) EXCEPT !.sync_jobs = Append(@, p)])
  <2>1. Preserves(e, Resolving(e, p))
    BY <1>4, ResolvingPreserves
  <2>2. ASSUME NEW f, Sound(f)
        PROVE  Preserves(f, [f EXCEPT !.sync_jobs = Append(@, p)])
    BY <2>2, OtherFieldsPreserve, Zenon
  <2>3. QED
    BY <2>1, <2>2, PreservesIsTransitive, Zenon DEF Preserves
<1>5. Preserves(e, SettleResult(e, p, v))
  BY SettleResultPreserves
<1>6. QED
  BY <1>1, <1>2, <1>3, <1>4, <1>5 DEF Settle

LEMMA SettleAssimilatedPreserves ==
    ASSUME NEW e, Sound(e), NEW p, NEW r, NEW then
    PROVE  Preserves(e, SettleAssimilated(e, p, r, then))
<1>1. CASE e.promises[p] # "resolving"
  BY <1>1 DEF SettleAssimilated, Preserves, Keeps
<1>2. CASE e.promises[p] = "resolving"
  <2> DEFINE f == [e EXCEPT !.promises[p] = "pending"]
  <2>1. Preserves(e, f)
    BY <1>2, ReopenPreserves
  <2>2. Preserves(f, Settle(f, p, r, then))
    BY <2>1, SettlePreserves DEF Preserves
  <2>3. QED
    BY <1>2, <2>1, <2>2, PreservesIsTransitive DEF SettleAssimilated
<1>3. QED
  BY <1>1, <1>2

LEMMA FulfillAssimilatedPreserves ==
    ASSUME NEW e, Sound(e), NEW p
    PROVE  Preserves(e, FulfillAssimilated(e, p))
<1>1. CASE e.promises[p] # "resolving"
  BY <1>1 DEF FulfillAssimilated, Preserves, Keeps
<1>2. CASE e.promises[p] = "resolving"
  <2> DEFINE f == [e EXCEPT !.promises[p] = "pending"]
  <2>1. Preserves(e, f)
    BY <1>2, ReopenPreserves
  <2>2. Preserves(f, SettleResult(f, p, "object"))
    BY <2>1, SettleResultPreserves DEF Preserves
  <2>3. QED
    BY <1>2, <2>1, <2>2, PreservesIsTransitive DEF FulfillAssimilated
<1>3. QED
  BY <1>1, <1>2

LEMMA AttachPreserves ==
    ASSUME NEW e, Sound(e), NEW q, NEW w
    PROVE  Preserves(e, Attach(e, q, w))
BY AddWaiterPreserves, EnqueuePreserves DEF Attach

LEMMA SettleAfterFinallyPreserves ==
    ASSUME NEW e, Sound(e), NEW q, NEW p, NEW original, NEW then
    PROVE  Preserves(e, SettleAfterFinally(e, q, p, original, then))
BY AddWaiterPreserves, SettlePreserves DEF SettleAfterFinally
-----------------------------------------------------------------------------
(* Aggregates. *)
LEMMA FinishPreserves ==
    ASSUME NEW e, Sound(e), NEW p, NEW r, NEW then
    PROVE  Preserves(e, Finish(e, p, r, then))
<1> DEFINE f == [e EXCEPT !.promise_aggregates = [a \in DOMAIN @ \ {p} |-> @[a]]]
<1>1. Preserves(e, f)
  BY OtherFieldsPreserve, Zenon
<1>2. Preserves(f, Settle(f, p, r, then))
  BY <1>1, SettlePreserves DEF Preserves
<1>3. QED
  BY <1>1, <1>2, PreservesIsTransitive, Zenon DEF Finish

LEMMA CountPreserves ==
    ASSUME NEW e, Sound(e), NEW p
    PROVE  Preserves(e, [e EXCEPT !.promise_aggregates[p].remaining = @ - 1])
<1> DEFINE f == [e EXCEPT !.promise_aggregates[p].remaining = @ - 1]
<1>1. f.promises = e.promises /\ f.promise_waiters = e.promise_waiters /\ Execution(f)
  BY DEF Sound, Execution, Fields
<1>2. QED
  BY <1>1, SamePromisesPreserve

LEMMA SettleAggregatePreserves ==
    ASSUME NEW e, Sound(e), NEW p, NEW r, NEW then
    PROVE  Preserves(e, SettleAggregate(e, p, r, then))
<1>1. Preserves(e, e)
  BY DEF Preserves, Keeps
<1>2. ASSUME NEW x
      PROVE  Preserves(e, FinishOrStore(e, p, x))
  BY FinishPreserves, CountPreserves, Zenon DEF FinishOrStore
<1>3. QED
  BY <1>1, <1>2, FinishPreserves DEF SettleAggregate

LEMMA InOrderOfNone == DOMAIN InOrder({}) = {}
<1> DEFINE f == [i \in {} |-> i]
<1>1. 1..Cardinality({}) = {}
  BY FS_EmptySet
<1>2. f \in [1..Cardinality({}) -> {}] /\ DOMAIN f = {}
  BY <1>1
<1>3. \E g \in [1..Cardinality({}) -> {}] : \A i, j \in DOMAIN g : i < j => g[i] < g[j]
  BY <1>2
<1>4. InOrder({}) \in [1..Cardinality({}) -> {}]
  BY <1>3 DEF InOrder
<1> QED
  BY <1>1, <1>4

(* Only promises that are not settled get waiters; the others give jobs. *)
LEMMA AggregateIntoPreserves ==
    ASSUME NEW e, Sound(e), NEW p, NEW kind, NEW values
    PROVE  Preserves(e, AggregateInto(e, p, kind, values))
<1>1. Preserves(e, e)
  BY DEF Preserves, Keeps
<1>2. ASSUME NEW aggregates, NEW jobs, NEW waiters,
             waiters = [q \in Promise |-> waiters[q]],
             \A q \in Promise : e.promises[q] \notin Unsettled => waiters[q] = <<>>
      PROVE  Preserves(e, [e EXCEPT !.promise_aggregates = aggregates,
                                    !.promise_waiters = waiters,
                                    !.jobs = jobs])
  <2> DEFINE f == [e EXCEPT !.promise_aggregates = aggregates, !.promise_waiters = waiters,
                            !.jobs = jobs]
  <2>1. f.promises = e.promises /\ f.promise_waiters = waiters
    BY DEF Sound, Execution, Fields
  <2>2. f = [field \in Fields |-> f[field]]
    BY DEF Sound, Execution, Fields
  <2>3. Execution(f)
    BY <1>2, <2>1, <2>2 DEF Sound, Execution, Fields
  <2>4. QED
    BY <1>2, <2>1, <2>3 DEF Preserves, Sound, NoneStranded, Keeps
<1>3. CASE values # <<>>
  <2> DEFINE waiter(i) == Waiter("aggregate", p, i, "none")
             pending(q) == InOrder({i \in DOMAIN values : values[i] = q
                                                          /\ e.promises[q] \in Unsettled})
             settled == InOrder({i \in DOMAIN values : e.promises[values[i]] \in Settled})
             aggregates == [a \in DOMAIN e.promise_aggregates \cup {p} |->
                               IF a = p THEN [kind |-> kind, remaining |-> Len(values)]
                                        ELSE e.promise_aggregates[a]]
             more(q) == [k \in DOMAIN pending(q) |-> waiter(pending(q)[k])]
             waiters == [q \in Promise |-> e.promise_waiters[q] \o more(q)]
             jobs == e.jobs \o [k \in DOMAIN settled |->
                                   JobOf(waiter(settled[k]), e.promises[values[settled[k]]])]
  <2>1. AggregateInto(e, p, kind, values) =
            [e EXCEPT !.promise_aggregates = aggregates, !.promise_waiters = waiters, !.jobs = jobs]
    BY <1>3 DEF AggregateInto
  <2>2. ASSUME NEW q \in Promise, e.promises[q] \notin Unsettled
        PROVE  waiters[q] = <<>>
    <3>1. e.promise_waiters[q] = <<>>
      BY <2>2 DEF Sound, NoneStranded
    <3>2. more(q) = <<>>
      <4>1. {i \in DOMAIN values : values[i] = q /\ e.promises[q] \in Unsettled} = {}
        BY <2>2
      <4>2. DOMAIN pending(q) = {}
        BY <4>1, InOrderOfNone
      <4> HIDE DEF pending, waiter
      <4>3. DOMAIN more(q) = {}
        BY <4>2
      <4>4. more(q) = [k \in {} |-> more(q)[k]] /\ << >> = [k \in {} |-> more(q)[k]]
        BY <4>2, <4>3
      <4> QED
        BY <4>4
    <3> HIDE DEF more
    <3>3. waiters[q] = e.promise_waiters[q] \o more(q)
      OBVIOUS
    <3>4. QED
      BY <3>1, <3>2, <3>3
  <2>3. waiters = [q \in Promise |-> waiters[q]]
    OBVIOUS
  <2> HIDE DEF aggregates, waiters, jobs
  <2>4. \A q \in Promise : e.promises[q] \notin Unsettled => waiters[q] = <<>>
    BY <2>2
  <2>5. Preserves(e, [e EXCEPT !.promise_aggregates = aggregates, !.promise_waiters = waiters,
                               !.jobs = jobs])
    BY <1>2, <2>3, <2>4, Zenon
  <2>6. QED
    BY <2>1, <2>5, Zenon
<1>4. CASE values = <<>>
  BY <1>1, <1>4, SettleResultPreserves DEF AggregateInto
<1>5. QED
  BY <1>3, <1>4
-----------------------------------------------------------------------------
(* An evaluation that ends is not in its promises any more; every other step  *)
(* preserves them.                                                            *)
Ends == execution' = Nothing /\ outcome' # "none"
StepPreserves == Ends \/ Preserves(execution, execution')

LEMMA EndEnds == \A with \in {"value", "error", "deadlock"} : End(with) => Ends
BY DEF End, Ends

LEMMA SameExecutionPreserves ==
    ASSUME Sound(execution), UNCHANGED execution
    PROVE  StepPreserves
BY DEF Preserves, Keeps, StepPreserves

(* The operations of JavaScript. *)
LEMMA OperationPreserves ==
    ASSUME Sound(execution),
           \/ Construct \/ CallAsync \/ AwaitImmediate \/ HostCall \/ LimitExceeded
           \/ \E p \in Promise, r \in Result, then \in Then :
                 CallResolver(p, r, then) \/ CallAssimilated(p, r, then)
           \/ \E q \in Promise : React(q, "then") \/ React(q, "finally") \/ Await(q)
           \/ \E kind \in Kind, values \in {<<>>} \cup (Made \X Made) : Aggregate(kind, values)
    PROVE  StepPreserves
<1> USE DEF StepPreserves
<1>1. CASE Construct \/ LimitExceeded
  BY <1>1, EndEnds, SameExecutionPreserves DEF Construct, LimitExceeded
<1>2. CASE CallAsync
  BY <1>2, EndEnds, SameExecutionPreserves DEF CallAsync
<1>3. CASE AwaitImmediate
  BY <1>3, EnqueuePreserves DEF AwaitImmediate
<1>4. CASE HostCall
  <2>1. ASSUME NEW p \in Promise
        PROVE  Preserves(execution, [execution EXCEPT !.operations = @ \cup {p}])
    BY OtherFieldsPreserve, Zenon
  <2>2. QED
    BY <1>4, <2>1, EndEnds, SettlePreserves DEF HostCall
<1>5. ASSUME NEW p \in Promise, NEW r \in Result, NEW then \in Then,
             CallResolver(p, r, then) \/ CallAssimilated(p, r, then)
      PROVE  StepPreserves
  BY <1>5, SettlePreserves, SettleAssimilatedPreserves DEF CallResolver, CallAssimilated
<1>6. ASSUME NEW q \in Promise, React(q, "then") \/ React(q, "finally") \/ Await(q)
      PROVE  StepPreserves
  BY <1>6, AttachPreserves DEF React, Await
<1>7. ASSUME NEW kind \in Kind, NEW values, Aggregate(kind, values)
      PROVE  StepPreserves
  BY <1>7, AggregateIntoPreserves DEF Aggregate
<1>8. QED
  BY <1>1, <1>2, <1>3, <1>4, <1>5, <1>6, <1>7

(* What a boundary does that is reached by a return or an exception. *)
LEMMA BoundaryPreserves ==
    ASSUME Sound(execution),
           Throw \/ \E r \in Value \cup Made, then \in Then : Return(r, then)
    PROVE  StepPreserves
<1> USE DEF StepPreserves
<1>1. CASE Throw
  BY <1>1, EndEnds, SettlePreserves, SettleAssimilatedPreserves DEF Throw
<1>2. ASSUME NEW r \in Value \cup Made, NEW then \in Then, Return(r, then)
      PROVE  StepPreserves
  <2>1. CASE ReturnRoot(r)
    BY <2>1, EndEnds, SameExecutionPreserves DEF ReturnRoot
  <2>2. CASE ReturnSettles(r, then)
    BY <2>2, SettlePreserves DEF ReturnSettles
  <2>3. CASE ReturnFinally(r, then)
    <3>1. ASSUME NEW p \in Promise
          PROVE  Preserves(execution, SettleAfterFinally(Settle(execution, p, r, then), p,
                                                         Top.p, Top.r, then))
      BY SettlePreserves, SettleAfterFinallyPreserves, PreservesIsTransitive DEF Preserves
    <3>2. QED
      BY <2>3, <3>1, SettlePreserves, SettleAfterFinallyPreserves DEF ReturnFinally
  <2>4. CASE ReturnThenable
    BY <2>4, SameExecutionPreserves DEF ReturnThenable
  <2>5. CASE ReturnGetter
    BY <2>5, EnqueuePreserves, FulfillAssimilatedPreserves DEF ReturnGetter
  <2>6. QED
    BY <1>2, <2>1, <2>2, <2>3, <2>4, <2>5 DEF Return
<1>3. QED
  BY <1>1, <1>2

(* The event loop. *)
LEMMA LoopPreserves ==
    ASSUME Sound(execution),
           \/ RunSynchronousJob \/ FinalSettled \/ PromiseDeadlock
           \/ \E then \in Then : RunJob(then)
           \/ \E p \in Promise, r \in {"plain", "rejected"} : ReceiveHostReply(p, r, "none")
    PROVE  StepPreserves
<1> USE DEF StepPreserves
<1>1. CASE RunSynchronousJob
  BY <1>1, OtherFieldsPreserve, Zenon DEF RunSynchronousJob
<1>2. CASE FinalSettled \/ PromiseDeadlock
  BY <1>2, EndEnds DEF FinalSettled, PromiseDeadlock
<1>3. ASSUME NEW then \in Then, RunJob(then)
      PROVE  StepPreserves
  <2>1. ASSUME NEW job
        PROVE  Preserves(execution, Took(job)) /\ Sound(Took(job))
    BY OtherFieldsPreserve, Zenon DEF Took, Preserves
  <2>2. ASSUME NEW job, Enter(job)
        PROVE  StepPreserves
    BY <2>1, <2>2 DEF Enter
  <2>3. ASSUME NEW job, Propagate(job, then)
        PROVE  StepPreserves
    <3>1. /\ Preserves(execution, Settle(Took(job), job.p, job.r, then))
          /\ Preserves(execution, SettleAssimilated(Took(job), job.p, job.r, then))
          /\ Preserves(execution, SettleAggregate(Took(job), job.p, job.r, then))
      BY <2>1, SettlePreserves, SettleAssimilatedPreserves, SettleAggregatePreserves,
         PreservesIsTransitive
    <3>2. QED
      BY <2>3, <3>1 DEF Propagate
  <2>4. QED
    BY <1>3, <2>2, <2>3 DEF RunJob
<1>4. ASSUME NEW p \in Promise, NEW r, ReceiveHostReply(p, r, "none")
      PROVE  StepPreserves
  <2> DEFINE f == [execution EXCEPT !.operations = @ \ {p}]
  <2>1. Preserves(execution, f) /\ Sound(f)
    BY OtherFieldsPreserve, Zenon DEF Preserves
  <2>2. Preserves(execution, Settle(f, p, r, "none"))
    BY <2>1, SettlePreserves, PreservesIsTransitive
  <2>3. QED
    BY <1>4, <2>2 DEF ReceiveHostReply
<1>5. QED
  BY <1>1, <1>2, <1>3, <1>4
-----------------------------------------------------------------------------
LEMMA SoundStep ==
    ASSUME Sound(execution), [Next]_vars
    PROVE  StepPreserves
<1>1. CASE Next
  BY <1>1, OperationPreserves, BoundaryPreserves, LoopPreserves DEF Next
<1>2. CASE UNCHANGED vars
  BY <1>2, SameExecutionPreserves DEF vars
<1>3. QED
  BY <1>1, <1>2

LEMMA NothingSound == Sound(Nothing)
BY DEF Sound, Execution, Fields, NoneStranded, Nothing

LEMMA SoundThroughout == Spec => []Sound(execution)
<1>1. Init => Sound(execution)
  BY NothingSound DEF Init
<1>2. Sound(execution) /\ [Next]_vars => Sound(execution)'
  <2> SUFFICES ASSUME Sound(execution), [Next]_vars
               PROVE  Sound(execution')
    BY DEF Sound, Execution, NoneStranded
  <2>1. QED
    BY SoundStep, NothingSound DEF StepPreserves, Ends, Preserves
<1>3. QED
  BY <1>1, <1>2, PTL DEF Spec

(* settle_result takes the waiters of a promise when it settles it, and       *)
(* whoever comes later is given a job at once: no coroutine, reaction,         *)
(* adoption or aggregate waits for what has already happened.                  *)
THEOREM NobodyStranded == Spec => []NoStrandedWaiter
<1>1. Sound(execution) => NoStrandedWaiter
  BY DEF Sound, NoneStranded, NoStrandedWaiter
<1>2. QED
  BY <1>1, SoundThroughout, PTL

(* settle_result and settle_assimilated (promise.ex:235, 256): what a promise  *)
(* was settled with stays, however often its resolvers, thenables, handlers    *)
(* and aggregates settle it again.                                             *)
THEOREM SettledStays == Spec => SettledForever
<1> DEFINE Stays == outcome' = "none" =>
                      \A p \in Promise : execution.promises[p] \in Settled =>
                          execution'.promises[p] = execution.promises[p]
<1>1. ASSUME Sound(execution), [Next]_vars
      PROVE  [Stays]_vars
  BY <1>1, SoundStep DEF StepPreserves, Ends, Preserves, Keeps
<1>2. QED
  BY <1>1, SoundThroughout, PTL DEF Spec, SettledForever
-----------------------------------------------------------------------------
(* Who settles what.  A promise that is made has an origin, and what will     *)
(* settle it is of a kind that goes with it.                                  *)
Origins == {"constructor", "reaction", "aggregate", "empty_race", "async", "host", "completion"}
WaiterKind == {"coroutine", "adopt", "then", "finally", "finally_adopt", "aggregate"}
JobKind == {"resume_coroutine", "settle_assimilated", "assimilate_thenable", "then", "finally",
            "settle_promise", "aggregate_settle"}
Source(kind) ==
    CASE kind \in {"async", "coroutine", "resume_coroutine"} -> {"async"}
      [] kind \in {"then", "finally", "finally_adopt", "settle_promise"} -> {"reaction"}
      [] kind \in {"aggregate", "aggregate_settle"} -> {"aggregate"}
      [] OTHER -> Origins
Item(kinds) == [kind : kinds, p : Promise, i : 0..2, r : Settled \cup {"none"}]
WaitersOf(o) ==
    {w \in Item(WaiterKind) : /\ o[w.p] \in Source(w.kind)
                              /\ w.kind = "finally_adopt" => w.r \in Settled
                              /\ w.kind = "aggregate" => w.i # 0}
JobsOf(o) ==
    {j \in Item(JobKind) :
        /\ o[j.p] \in Source(j.kind)
        /\ j.kind \notin {"resume_coroutine", "assimilate_thenable"} => j.r \in Settled
        /\ j.kind = "aggregate_settle" => j.i # 0}
BoundariesOf(o) ==
    {b \in Boundary : /\ b.kind # "root" => b.p \in Promise /\ o[b.p] \in Source(b.kind)
                      /\ b.kind = "finally" => b.r \in Settled}
Typed(e, o) ==
    /\ Execution(e)
    /\ e.promises \in [Promise -> Unsettled \cup Settled]
    /\ e.promise_waiters \in [Promise -> Seq(WaitersOf(o))]
    /\ e.jobs \in Seq(JobsOf(o))
    /\ e.sync_jobs \in Seq({p \in Promise : o[p] # "free"})
    /\ e.promise_aggregates = [a \in DOMAIN e.promise_aggregates |-> e.promise_aggregates[a]]
    /\ \A a \in DOMAIN e.promise_aggregates :
          /\ a \in Promise /\ o[a] = "aggregate"
          /\ e.promise_aggregates[a] \in [kind : Kind, remaining : Nat]
    /\ \A p \in e.operations : p \in Promise /\ o[p] = "host"

(* How many things of a class there are: waiters, jobs, getters to be read.   *)
(* The classes: what will settle p, what will resolve it, what reports        *)
(* element i to a.                                                            *)
PlacesIn(D, ws, X) == UNION {{q} \X Positions(ws[q], X) : q \in D}
Places(ws, X) == PlacesIn(Promise, ws, X)
Load(e, X) ==
    Cardinality(Places(e.promise_waiters, X.w)) + Count(e.jobs, X.j) + Count(e.sync_jobs, X.s)
Class(w, j, b, s) == [w |-> w, j |-> j, b |-> b, s |-> s]
Of(kinds, p) == {x \in Item(kinds) : x.p = p}
At(kinds, p) == {b \in Boundary : b.kind \in kinds /\ b.p = p}
Settles(p) ==
    Class(Of({"coroutine", "then", "finally", "finally_adopt"}, p),
          Of({"resume_coroutine", "then", "finally", "settle_promise"}, p),
          At({"async", "then", "finally"}, p), {})
Resolves(p) ==
    Class(Of({"adopt"}, p), Of({"settle_assimilated", "assimilate_thenable"}, p),
          At({"getter"}, p), {p})
Reports(a, i) ==
    Class({x \in Of({"aggregate"}, a) : x.i = i},
          {x \in Of({"aggregate_settle"}, a) : x.i = i}, {}, {})

(* A promise p of an execution under the boundaries cs, of which s settlers   *)
(* and r resolutions are out of sight: taken from one place, not yet in the   *)
(* next.                                                                      *)
Owed(e, o, p) ==
    e.promises[p] = "pending" /\ o[p] \in {"async", "reaction", "aggregate", "host"}
SettlersIn(e, cs, p) ==
    Load(e, Settles(p)) + Count(cs, Settles(p).b)
    + Bit(p \in DOMAIN e.promise_aggregates) + Bit(p \in e.operations)
ResolversIn(e, cs, p) == Load(e, Resolves(p)) + Count(cs, Resolves(p).b)
Unreported(e, a) == {i \in 1..2 : Load(e, Reports(a, i)) = 1}
Exact(e, a) ==
    /\ \A i \in 1..2 : Load(e, Reports(a, i)) <= 1
    /\ Unreported(e, a) # {}
    /\ \/ e.promise_aggregates[a].remaining = Cardinality(Unreported(e, a))
       \/ e.promise_aggregates[a].kind = "race"
BalancedAt(e, o, t, cs, p, s, r) ==
    /\ o[p] = "free" => e.promises[p] = "pending"
    /\ SettlersIn(e, cs, p) = Bit(Owed(e, o, p)) - s
    /\ p \notin t => ResolversIn(e, cs, p) = Bit(e.promises[p] = "resolving") - r
    /\ p \in DOMAIN e.promise_aggregates => Exact(e, p)
BalancedBut(e, o, t, cs, p) == \A x \in Promise \ {p} : BalancedAt(e, o, t, cs, x, 0, 0)
Balanced(e, o, t, cs) == \A p \in Promise : BalancedAt(e, o, t, cs, p, 0, 0)

Handled(o, t, cs) ==
    /\ o \in [Promise -> Origins \cup {"free"}]
    /\ t \in SUBSET {p \in Promise : o[p] # "free"}
    /\ cs \in Seq(BoundariesOf(o))
    /\ \A i \in DOMAIN cs : cs[i].kind = "thenable" => cs[i].p \in t
-----------------------------------------------------------------------------
(* Counting over the waiters of all promises. *)
LEMMA PlacesFinite ==
    ASSUME NEW S, NEW ws \in [Promise -> Seq(S)], NEW X, NEW D \in SUBSET Promise
    PROVE  IsFiniteSet(PlacesIn(D, ws, X))
<1> DEFINE at(q) == {q} \X Positions(ws[q], X)
           f == [q \in D |-> at(q)]
           all == {at(q) : q \in D}
<1>1. IsFiniteSet(all)
  <2>1. f \in Surjection(D, all)
    BY DEF Surjection
  <2>2. IsFiniteSet(D)
    BY PromisesAssumption, FS_Subset
  <2> HIDE DEF f, all
  <2> QED
    BY <2>1, <2>2, FS_Surjection
<1>2. \A T \in all : IsFiniteSet(T)
  <2>1. ASSUME NEW q \in D
        PROVE  IsFiniteSet(at(q))
    <3>1. IsFiniteSet({q}) /\ IsFiniteSet(Positions(ws[q], X))
      BY FS_Singleton, CountIsNat
    <3> QED
      BY <3>1, FS_Product
  <2> QED
    BY <2>1
<1> HIDE DEF all
<1>3. IsFiniteSet(UNION all)
  BY <1>1, <1>2, FS_UNION
<1> QED
  BY <1>3 DEF all, PlacesIn

LEMMA PlacesAt ==
    ASSUME NEW S, NEW ws \in [Promise -> Seq(S)], NEW X, NEW q \in Promise
    PROVE  /\ Cardinality(Places(ws, X)) \in Nat
           /\ Cardinality(PlacesIn(Promise \ {q}, ws, X)) \in Nat
           /\ Cardinality(Places(ws, X)) = Cardinality(PlacesIn(Promise \ {q}, ws, X)) + Count(ws[q], X)
<1> DEFINE D == Promise \ {q}
           rest == PlacesIn(D, ws, X)
           here == {q} \X Positions(ws[q], X)
<1>1. IsFiniteSet(rest) /\ Cardinality(rest) \in Nat
  <2>0. D \in SUBSET Promise
    OBVIOUS
  <2> HIDE DEF D
  <2>1. IsFiniteSet(rest)
    BY <2>0, PlacesFinite
  <2> HIDE DEF rest
  <2> QED
    BY <2>1, FS_CardinalityType
<1>2. IsFiniteSet(here) /\ Cardinality(here) = Count(ws[q], X)
  <2>1. IsFiniteSet({q}) /\ Cardinality({q}) = 1
    BY FS_Singleton
  <2>2. IsFiniteSet(Positions(ws[q], X)) /\ Count(ws[q], X) \in Nat
    BY CountIsNat
  <2>3. Cardinality(here) = Cardinality({q}) * Cardinality(Positions(ws[q], X)) /\ IsFiniteSet(here)
    BY <2>1, <2>2, FS_Product
  <2> QED
    BY <2>1, <2>2, <2>3 DEF Count
<1>3. Places(ws, X) = rest \cup here /\ rest \cap here = {} /\ rest = PlacesIn(Promise \ {q}, ws, X)
  BY DEF Places, PlacesIn
<1> HIDE DEF rest, here
<1>4. Cardinality(rest \cup here) = Cardinality(rest) + Cardinality(here)
  <2>1. Cardinality(rest \cup here)
            = Cardinality(rest) + Cardinality(here) - Cardinality(rest \cap here)
    BY <1>1, <1>2, FS_Union
  <2>2. Cardinality(rest \cap here) = 0
    BY <1>3, FS_EmptySet
  <2>3. Cardinality(here) \in Nat
    BY <1>2, FS_CardinalityType
  <2> QED
    BY <1>1, <2>1, <2>2, <2>3
<1>5. Count(ws[q], X) \in Nat
  BY CountIsNat
<1>6. Cardinality(Places(ws, X)) = Cardinality(rest) + Count(ws[q], X)
  BY <1>2, <1>3, <1>4
<1> QED
  BY <1>1, <1>3, <1>5, <1>6

(* Waiters of one promise come and go. *)
Lists(ws, S) == ws \in [Promise -> Seq(S)]

LEMMA PlacesChange ==
    ASSUME NEW S, NEW ws, NEW vs, Lists(ws, S), Lists(vs, S), NEW X, NEW q \in Promise,
           \A x \in Promise \ {q} : Positions(vs[x], X) = Positions(ws[x], X)
    PROVE  /\ Cardinality(Places(ws, X)) \in Nat /\ Cardinality(Places(vs, X)) \in Nat
           /\ Count(ws[q], X) \in Nat /\ Count(vs[q], X) \in Nat
           /\ Count(ws[q], X) <= Cardinality(Places(ws, X))
           /\ Cardinality(Places(vs, X)) - Count(vs[q], X)
                = Cardinality(Places(ws, X)) - Count(ws[q], X)
<1>1. PlacesIn(Promise \ {q}, ws, X) = PlacesIn(Promise \ {q}, vs, X)
  BY DEF PlacesIn
<1>2. /\ Cardinality(Places(ws, X)) \in Nat /\ Cardinality(PlacesIn(Promise \ {q}, ws, X)) \in Nat
      /\ Cardinality(Places(ws, X)) = Cardinality(PlacesIn(Promise \ {q}, ws, X)) + Count(ws[q], X)
  BY PlacesAt DEF Lists
<1>3. /\ Cardinality(Places(vs, X)) \in Nat
      /\ Cardinality(Places(vs, X)) = Cardinality(PlacesIn(Promise \ {q}, vs, X)) + Count(vs[q], X)
  BY PlacesAt DEF Lists
<1>4. Count(ws[q], X) \in Nat /\ Count(vs[q], X) \in Nat
  BY CountIsNat DEF Lists
<1> QED
  BY <1>1, <1>2, <1>3, <1>4
-----------------------------------------------------------------------------
(* What the operators on an execution do to its type and its loads.  A class  *)
(* goes with the jobs that its waiters become.                                *)
Matches(X, o) == \A w \in WaitersOf(o), v \in Settled : w \in X.w <=> JobOf(w, v) \in X.j

LEMMA JobsOfWaiters ==
    ASSUME NEW o, NEW w \in WaitersOf(o), NEW v \in Settled
    PROVE  JobOf(w, v) \in JobsOf(o)
BY DEF WaitersOf, JobsOf, Item, WaiterKind, JobKind, JobOf, Job, Source, Settled, Value

LEMMA OfKinds ==
    ASSUME NEW K, NEW x \in Item(K), NEW kinds, NEW p
    PROVE  x \in Of(kinds, p) <=> x.kind \in kinds /\ x.p = p
BY DEF Item, Of

LEMMA WaiterClass ==
    ASSUME NEW o, NEW w \in WaitersOf(o), NEW p
    PROVE  /\ w \in Settles(p).w <=>
                w.p = p /\ w.kind \in {"coroutine", "then", "finally", "finally_adopt"}
           /\ w \in Resolves(p).w <=> w.p = p /\ w.kind = "adopt"
           /\ \A i : w \in Reports(p, i).w <=> w.p = p /\ w.kind = "aggregate" /\ w.i = i
<1>1. w \in Item(WaiterKind)
  BY DEF WaitersOf
<1> QED
  BY <1>1, OfKinds DEF Settles, Resolves, Reports, Class

LEMMA JobClass ==
    ASSUME NEW o, NEW j \in JobsOf(o), NEW p
    PROVE  /\ j \in Settles(p).j <=>
                j.p = p /\ j.kind \in {"resume_coroutine", "then", "finally", "settle_promise"}
           /\ j \in Resolves(p).j <=>
                j.p = p /\ j.kind \in {"settle_assimilated", "assimilate_thenable"}
           /\ \A i : j \in Reports(p, i).j <=> j.p = p /\ j.kind = "aggregate_settle" /\ j.i = i
<1>1. j \in Item(JobKind)
  BY DEF JobsOf
<1> QED
  BY <1>1, OfKinds DEF Settles, Resolves, Reports, Class

LEMMA ClassesMatch ==
    ASSUME NEW o, NEW p
    PROVE  /\ Matches(Settles(p), o) /\ Matches(Resolves(p), o)
           /\ \A i : Matches(Reports(p, i), o)
<1>1. ASSUME NEW w \in WaitersOf(o), NEW v \in Settled
      PROVE  /\ w \in Settles(p).w <=> JobOf(w, v) \in Settles(p).j
             /\ w \in Resolves(p).w <=> JobOf(w, v) \in Resolves(p).j
             /\ \A i : w \in Reports(p, i).w <=> JobOf(w, v) \in Reports(p, i).j
  <2> DEFINE j == JobOf(w, v)
  <2>1. w.kind \in WaiterKind
    BY DEF WaitersOf, Item
  <2>2. /\ j.p = w.p
        /\ w.kind = "coroutine" <=> j.kind = "resume_coroutine"
        /\ w.kind = "adopt" <=> j.kind = "settle_assimilated"
        /\ w.kind = "then" <=> j.kind = "then"
        /\ w.kind = "finally" <=> j.kind = "finally"
        /\ w.kind = "finally_adopt" <=> j.kind = "settle_promise"
        /\ w.kind = "aggregate" <=> j.kind = "aggregate_settle"
        /\ j.kind # "assimilate_thenable"
        /\ w.kind = "aggregate" => j.i = w.i
    BY <2>1 DEF JobOf, Job, WaiterKind
  <2>3. j \in JobsOf(o)
    BY JobsOfWaiters
  <2>4. w \in Settles(p).w <=> w.p = p /\ w.kind \in {"coroutine", "then", "finally", "finally_adopt"}
    BY WaiterClass
  <2>5. w \in Resolves(p).w <=> w.p = p /\ w.kind = "adopt"
    BY WaiterClass
  <2>6. \A i : w \in Reports(p, i).w <=> w.p = p /\ w.kind = "aggregate" /\ w.i = i
    BY WaiterClass
  <2> HIDE DEF j
  <2>7. j \in Settles(p).j <=>
          j.p = p /\ j.kind \in {"resume_coroutine", "then", "finally", "settle_promise"}
    BY <2>3, JobClass
  <2>8. j \in Resolves(p).j <=> j.p = p /\ j.kind \in {"settle_assimilated", "assimilate_thenable"}
    BY <2>3, JobClass
  <2>9. \A i : j \in Reports(p, i).j <=> j.p = p /\ j.kind = "aggregate_settle" /\ j.i = i
    BY <2>3, JobClass
  <2>10. /\ w \in Settles(p).w <=> j \in Settles(p).j
         /\ w \in Resolves(p).w <=> j \in Resolves(p).j
    <3>1. w.kind \in {"coroutine", "then", "finally", "finally_adopt"} <=>
            j.kind \in {"resume_coroutine", "then", "finally", "settle_promise"}
      BY <2>2
    <3>2. w.kind = "adopt" <=> j.kind \in {"settle_assimilated", "assimilate_thenable"}
      BY <2>2
    <3>3. j.p = w.p
      BY <2>2
    <3> QED
      BY <2>4, <2>5, <2>7, <2>8, <3>1, <3>2, <3>3, Zenon
  <2>11. \A i : w \in Reports(p, i).w <=> j \in Reports(p, i).j
    BY <2>2, <2>6, <2>9
  <2> QED
    BY <2>10, <2>11 DEF j
<1> QED
  BY <1>1 DEF Matches

LEMMA LoadIsNat ==
    ASSUME NEW e, NEW o, Typed(e, o), NEW X
    PROVE  /\ Load(e, X) \in Nat /\ Count(e.jobs, X.j) \in Nat /\ Count(e.sync_jobs, X.s) \in Nat
           /\ Cardinality(Places(e.promise_waiters, X.w)) \in Nat
<1>1. Count(e.jobs, X.j) \in Nat /\ Count(e.sync_jobs, X.s) \in Nat
  BY CountIsNat DEF Typed
<1>2. Cardinality(Places(e.promise_waiters, X.w)) \in Nat
  <2>1. IsFiniteSet(PlacesIn(Promise, e.promise_waiters, X.w))
    <3>1. e.promise_waiters \in [Promise -> Seq(WaitersOf(o))] /\ Promise \in SUBSET Promise
      BY DEF Typed
    <3> QED
      BY <3>1, PlacesFinite
  <2> QED
    BY <2>1, FS_CardinalityType DEF Places
<1> QED
  BY <1>1, <1>2 DEF Load

(* All fields but those of promises, waiters and jobs. *)
SameRest(e, f) ==
    /\ f.promise_aggregates = e.promise_aggregates /\ f.operations = e.operations

LEMMA AddWaiterLoad ==
    ASSUME NEW e, NEW o, Typed(e, o), NEW q \in Promise, NEW w \in WaitersOf(o)
    PROVE  LET f == AddWaiter(e, q, w)
           IN  /\ Typed(f, o) /\ SameRest(e, f) /\ f.promises = e.promises
               /\ \A X : Load(f, X) = Load(e, X) + Bit(w \in X.w)
<1> DEFINE f == AddWaiter(e, q, w)
           ws == e.promise_waiters
           vs == [ws EXCEPT ![q] = Append(@, w)]
<1>1. /\ ws \in [Promise -> Seq(WaitersOf(o))] /\ vs \in [Promise -> Seq(WaitersOf(o))]
      /\ vs[q] = Append(ws[q], w) /\ \A x \in Promise \ {q} : vs[x] = ws[x]
  BY DEF Typed
<1>2. /\ f.promise_waiters = vs /\ f.promises = e.promises /\ f.jobs = e.jobs
      /\ f.sync_jobs = e.sync_jobs /\ SameRest(e, f)
      /\ f = [field \in Fields |-> f[field]]
  BY DEF AddWaiter, Typed, Execution, Fields, SameRest
<1> HIDE DEF f, vs, ws
<1>3. Typed(f, o)
  BY <1>1, <1>2 DEF Typed, Execution, SameRest
<1>4. ASSUME NEW X
      PROVE  Load(f, X) = Load(e, X) + Bit(w \in X.w)
  <2> DEFINE Y == X.w
  <2>1. \A x \in Promise \ {q} : Positions(vs[x], Y) = Positions(ws[x], Y)
    BY <1>1
  <2> HIDE DEF Y
  <2>2. Count(vs[q], Y) = Count(ws[q], Y) + Bit(w \in Y)
    <3> DEFINE S == WaitersOf(o)
               seq == ws[q]
    <3>1. seq \in Seq(S) /\ w \in S
      BY <1>1
    <3> HIDE DEF S, seq
    <3>2. Count(Append(seq, w), Y) = Count(seq, Y) + Bit(w \in Y)
      BY <3>1, CountPushed
    <3> QED
      BY <1>1, <3>2 DEF seq
  <2>3. /\ Cardinality(Places(ws, Y)) \in Nat /\ Cardinality(Places(vs, Y)) \in Nat
        /\ Count(ws[q], Y) \in Nat /\ Count(vs[q], Y) \in Nat
        /\ Count(ws[q], Y) <= Cardinality(Places(ws, Y))
        /\ Cardinality(Places(vs, Y)) - Count(vs[q], Y) = Cardinality(Places(ws, Y)) - Count(ws[q], Y)
    <3> DEFINE S == WaitersOf(o)
    <3>1. Lists(ws, S) /\ Lists(vs, S)
      BY <1>1 DEF Lists
    <3> HIDE DEF S
    <3> QED
      BY <2>1, <3>1, PlacesChange
  <2>4. Cardinality(Places(vs, Y)) = Cardinality(Places(ws, Y)) + Bit(w \in Y)
    BY <2>2, <2>3 DEF Bit
  <2>5. Count(e.jobs, X.j) \in Nat /\ Count(e.sync_jobs, X.s) \in Nat
    BY LoadIsNat
  <2> QED
    BY <1>2, <2>3, <2>4, <2>5 DEF Load, Y, ws, Bit
<1> QED
  BY <1>2, <1>3, <1>4 DEF f

LEMMA EnqueueLoad ==
    ASSUME NEW e, NEW o, Typed(e, o), NEW job \in JobsOf(o)
    PROVE  LET f == Enqueue(e, job)
           IN  /\ Typed(f, o) /\ SameRest(e, f) /\ f.promises = e.promises
               /\ \A X : Load(f, X) = Load(e, X) + Bit(job \in X.j)
<1> DEFINE f == Enqueue(e, job)
<1>1. /\ f.jobs = Append(e.jobs, job) /\ f.promises = e.promises
      /\ f.promise_waiters = e.promise_waiters /\ f.sync_jobs = e.sync_jobs /\ SameRest(e, f)
      /\ f = [field \in Fields |-> f[field]]
  BY DEF Enqueue, Typed, Execution, Fields, SameRest
<1> HIDE DEF f
<1>2. Typed(f, o)
  <2>1. e.jobs \in Seq(JobsOf(o))
    BY DEF Typed
  <2>2. f.jobs \in Seq(JobsOf(o))
    BY <1>1, <2>1, AppendProperties
  <2> QED
    BY <1>1, <2>2 DEF Typed, Execution, SameRest
<1>3. ASSUME NEW X
      PROVE  Load(f, X) = Load(e, X) + Bit(job \in X.j)
  <2>1. Count(Append(e.jobs, job), X.j) = Count(e.jobs, X.j) + Bit(job \in X.j)
    <3>1. e.jobs \in Seq(JobsOf(o))
      BY DEF Typed
    <3> QED
      BY <3>1, CountPushed
  <2>2. Load(f, X) = Cardinality(Places(e.promise_waiters, X.w)) + Count(Append(e.jobs, job), X.j)
                     + Count(e.sync_jobs, X.s)
    BY <1>1 DEF Load
  <2>3. /\ Count(e.jobs, X.j) \in Nat /\ Count(e.sync_jobs, X.s) \in Nat
        /\ Cardinality(Places(e.promise_waiters, X.w)) \in Nat /\ Bit(job \in X.j) \in Nat
    BY LoadIsNat DEF Bit
  <2> QED
    BY <2>1, <2>2, <2>3 DEF Load
<1> QED
  BY <1>1, <1>2, <1>3 DEF f

(* Taking the first job, and the first getter to be read. *)
LEMMA TookLoad ==
    ASSUME NEW e, NEW o, Typed(e, o), e.jobs # <<>>
    PROVE  LET f == [e EXCEPT !.jobs = Tail(@)]
           IN  /\ Typed(f, o) /\ SameRest(e, f) /\ f.promises = e.promises
               /\ Head(e.jobs) \in JobsOf(o)
               /\ \A X : Load(f, X) = Load(e, X) - Bit(Head(e.jobs) \in X.j)
<1> DEFINE f == [e EXCEPT !.jobs = Tail(@)]
<1>1. /\ f.jobs = Tail(e.jobs) /\ f.promises = e.promises
      /\ f.promise_waiters = e.promise_waiters /\ f.sync_jobs = e.sync_jobs /\ SameRest(e, f)
      /\ f = [field \in Fields |-> f[field]]
  BY DEF Typed, Execution, Fields, SameRest
<1> HIDE DEF f
<1>2. e.jobs \in Seq(JobsOf(o))
  BY DEF Typed
<1>3. Head(e.jobs) \in JobsOf(o) /\ Tail(e.jobs) \in Seq(JobsOf(o))
  BY <1>2, CountPopped
<1>4. Typed(f, o)
  BY <1>1, <1>3 DEF Typed, Execution, SameRest
<1>5. ASSUME NEW X
      PROVE  Load(f, X) = Load(e, X) - Bit(Head(e.jobs) \in X.j)
  <2>1. Count(e.jobs, X.j) = Count(Tail(e.jobs), X.j) + Bit(Head(e.jobs) \in X.j)
    BY <1>2, CountPopped
  <2>2. Count(Tail(e.jobs), X.j) \in Nat
    BY <1>3, CountIsNat
  <2>3. Load(f, X) = Cardinality(Places(e.promise_waiters, X.w)) + Count(Tail(e.jobs), X.j)
                     + Count(e.sync_jobs, X.s)
    BY <1>1 DEF Load
  <2>4. /\ Count(e.jobs, X.j) \in Nat /\ Count(e.sync_jobs, X.s) \in Nat
        /\ Cardinality(Places(e.promise_waiters, X.w)) \in Nat /\ Bit(Head(e.jobs) \in X.j) \in Nat
    BY LoadIsNat DEF Bit
  <2> QED
    BY <2>1, <2>2, <2>3, <2>4 DEF Load
<1> QED
  BY <1>1, <1>3, <1>4, <1>5 DEF f

LEMMA TookSyncLoad ==
    ASSUME NEW e, NEW o, Typed(e, o), e.sync_jobs # <<>>
    PROVE  LET f == [e EXCEPT !.sync_jobs = Tail(@)]
           IN  /\ Typed(f, o) /\ SameRest(e, f) /\ f.promises = e.promises
               /\ Head(e.sync_jobs) \in Promise /\ o[Head(e.sync_jobs)] # "free"
               /\ \A X : Load(f, X) = Load(e, X) - Bit(Head(e.sync_jobs) \in X.s)
<1> DEFINE f == [e EXCEPT !.sync_jobs = Tail(@)]
           S == {p \in Promise : o[p] # "free"}
<1>1. /\ f.sync_jobs = Tail(e.sync_jobs) /\ f.promises = e.promises
      /\ f.promise_waiters = e.promise_waiters /\ f.jobs = e.jobs /\ SameRest(e, f)
      /\ f = [field \in Fields |-> f[field]]
  BY DEF Typed, Execution, Fields, SameRest
<1>2. e.sync_jobs \in Seq(S)
  BY DEF Typed
<1> HIDE DEF f, S
<1>3. Head(e.sync_jobs) \in S /\ Tail(e.sync_jobs) \in Seq(S)
  BY <1>2, CountPopped
<1>4. Typed(f, o)
  BY <1>1, <1>3 DEF Typed, Execution, SameRest, S
<1>5. ASSUME NEW X
      PROVE  Load(f, X) = Load(e, X) - Bit(Head(e.sync_jobs) \in X.s)
  <2>1. Count(e.sync_jobs, X.s) = Count(Tail(e.sync_jobs), X.s) + Bit(Head(e.sync_jobs) \in X.s)
    BY <1>2, CountPopped
  <2>2. Count(Tail(e.sync_jobs), X.s) \in Nat
    BY <1>3, CountIsNat
  <2>3. Load(f, X) = Cardinality(Places(e.promise_waiters, X.w)) + Count(e.jobs, X.j)
                     + Count(Tail(e.sync_jobs), X.s)
    BY <1>1 DEF Load
  <2>4. /\ Count(e.jobs, X.j) \in Nat /\ Count(e.sync_jobs, X.s) \in Nat
        /\ Cardinality(Places(e.promise_waiters, X.w)) \in Nat
        /\ Bit(Head(e.sync_jobs) \in X.s) \in Nat
    BY LoadIsNat DEF Bit
  <2> QED
    BY <2>1, <2>2, <2>3, <2>4 DEF Load
<1> QED
  BY <1>1, <1>3, <1>4, <1>5 DEF f, S
-----------------------------------------------------------------------------
(* Settling and resolving, of a promise that is pending: the one leaves every *)
(* load as it is, for the waiters become jobs of the same class; the other    *)
(* adds a resolution.                                                         *)
LEMMA MarkLoad ==
    ASSUME NEW e, NEW o, Typed(e, o), NEW p \in Promise, NEW v \in Unsettled \cup Settled
    PROVE  LET f == [e EXCEPT !.promises[p] = v]
           IN  /\ Typed(f, o) /\ SameRest(e, f) /\ f.promises = [e.promises EXCEPT ![p] = v]
               /\ \A X : Load(f, X) = Load(e, X)
<1> DEFINE f == [e EXCEPT !.promises[p] = v]
<1>1. /\ f.promises = [e.promises EXCEPT ![p] = v] /\ f.promise_waiters = e.promise_waiters
      /\ f.jobs = e.jobs /\ f.sync_jobs = e.sync_jobs /\ SameRest(e, f)
      /\ f = [field \in Fields |-> f[field]]
  BY DEF Typed, Execution, Fields, SameRest
<1> HIDE DEF f
<1>2. Typed(f, o)
  <2>1. /\ f.promises \in [Promise -> Unsettled \cup Settled]
        /\ f.promises = [x \in Promise |-> f.promises[x]]
    <3>1. e.promises \in [Promise -> Unsettled \cup Settled]
      BY DEF Typed
    <3> QED
      BY <1>1, <3>1
  <2> QED
    BY <1>1, <2>1 DEF Typed, Execution, SameRest
<1>3. \A X : Load(f, X) = Load(e, X)
  BY <1>1 DEF Load
<1> QED
  BY <1>1, <1>2, <1>3 DEF f

LEMMA ReadLaterLoad ==
    ASSUME NEW e, NEW o, Typed(e, o), NEW p \in Promise, o[p] # "free"
    PROVE  LET f == [e EXCEPT !.sync_jobs = Append(@, p)]
           IN  /\ Typed(f, o) /\ SameRest(e, f) /\ f.promises = e.promises
               /\ \A X : Load(f, X) = Load(e, X) + Bit(p \in X.s)
<1> DEFINE f == [e EXCEPT !.sync_jobs = Append(@, p)]
           S == {x \in Promise : o[x] # "free"}
<1>1. /\ f.sync_jobs = Append(e.sync_jobs, p) /\ f.promises = e.promises
      /\ f.promise_waiters = e.promise_waiters /\ f.jobs = e.jobs /\ SameRest(e, f)
      /\ f = [field \in Fields |-> f[field]]
  BY DEF Typed, Execution, Fields, SameRest
<1>2. e.sync_jobs \in Seq(S) /\ p \in S
  BY DEF Typed
<1> HIDE DEF f, S
<1>3. f.sync_jobs \in Seq(S)
  BY <1>1, <1>2, AppendProperties
<1>4. Typed(f, o)
  BY <1>1, <1>3 DEF Typed, Execution, SameRest, S
<1>5. ASSUME NEW X
      PROVE  Load(f, X) = Load(e, X) + Bit(p \in X.s)
  <2>1. Count(Append(e.sync_jobs, p), X.s) = Count(e.sync_jobs, X.s) + Bit(p \in X.s)
    BY <1>2, CountPushed
  <2>2. Load(f, X) = Cardinality(Places(e.promise_waiters, X.w)) + Count(e.jobs, X.j)
                     + Count(Append(e.sync_jobs, p), X.s)
    BY <1>1 DEF Load
  <2>3. /\ Count(e.jobs, X.j) \in Nat /\ Count(e.sync_jobs, X.s) \in Nat
        /\ Cardinality(Places(e.promise_waiters, X.w)) \in Nat /\ Bit(p \in X.s) \in Nat
    BY LoadIsNat DEF Bit
  <2> QED
    BY <2>1, <2>2, <2>3 DEF Load
<1> QED
  BY <1>1, <1>4, <1>5 DEF f

LEMMA SettleResultLoad ==
    ASSUME NEW e, NEW o, Typed(e, o), NEW p \in Promise, NEW v \in Settled,
           e.promises[p] = "pending"
    PROVE  LET f == SettleResult(e, p, v)
           IN  /\ Typed(f, o) /\ SameRest(e, f) /\ f.promises = [e.promises EXCEPT ![p] = v]
               /\ \A X : Matches(X, o) => Load(f, X) = Load(e, X)
<1> DEFINE f == SettleResult(e, p, v)
           ws == e.promise_waiters
           vs == [ws EXCEPT ![p] = <<>>]
           S == WaitersOf(o)
           T == JobsOf(o)
           took == [i \in DOMAIN ws[p] |-> JobOf(ws[p][i], v)]
<1>1. /\ ws \in [Promise -> Seq(S)] /\ vs \in [Promise -> Seq(S)]
      /\ vs[p] = <<>> /\ \A x \in Promise \ {p} : vs[x] = ws[x]
      /\ ws[p] \in Seq(S)
  BY DEF Typed
<1>2. /\ f.promise_waiters = vs /\ f.promises = [e.promises EXCEPT ![p] = v]
      /\ f.jobs = e.jobs \o took /\ f.sync_jobs = e.sync_jobs /\ SameRest(e, f)
      /\ f = [field \in Fields |-> f[field]]
  BY DEF SettleResult, Typed, Execution, Fields, SameRest
<1>3. took \in Seq(T) /\ DOMAIN took = DOMAIN ws[p]
  <2> DEFINE n == Len(ws[p])
  <2>1. DOMAIN ws[p] = 1..n /\ n \in Nat /\ \A i \in 1..n : ws[p][i] \in S
    BY <1>1, LenProperties, ElementOfSeq
  <2>2. \A i \in 1..n : JobOf(ws[p][i], v) \in T
    BY <2>1, JobsOfWaiters
  <2>3. took = [i \in 1..n |-> JobOf(ws[p][i], v)]
    BY <2>1
  <2> HIDE DEF n, T, S, ws
  <2> QED
    BY <2>1, <2>2, <2>3
<1>4. \A i \in DOMAIN ws[p] : took[i] = JobOf(ws[p][i], v) /\ ws[p][i] \in S
  BY <1>1, LenProperties, ElementOfSeq
<1>5. e.jobs \in Seq(T)
  BY DEF Typed
<1> HIDE DEF f, vs, ws, took, S, T
<1>6. Typed(f, o)
  <2>1. f.jobs \in Seq(T)
    BY <1>2, <1>3, <1>5, ConcatProperties
  <2>2. /\ f.promises \in [Promise -> Unsettled \cup Settled]
        /\ f.promises = [x \in Promise |-> f.promises[x]]
    <3>1. e.promises \in [Promise -> Unsettled \cup Settled]
      BY DEF Typed
    <3> QED
      BY <1>2, <3>1
  <2>3. /\ f.promise_waiters \in [Promise -> Seq(S)]
        /\ f.promise_waiters = [x \in Promise |-> f.promise_waiters[x]]
    BY <1>1, <1>2
  <2> QED
    BY <1>2, <2>1, <2>2, <2>3 DEF Typed, Execution, SameRest, S, T
<1>7. ASSUME NEW X, Matches(X, o)
      PROVE  Load(f, X) = Load(e, X)
  <2> DEFINE Y == X.w
             J == X.j
  <2>1. \A x \in Promise \ {p} : Positions(vs[x], Y) = Positions(ws[x], Y)
    BY <1>1
  <2>2. \A i \in DOMAIN ws[p] : took[i] \in J <=> ws[p][i] \in Y
    BY <1>4, <1>7 DEF Matches, S
  <2>3. Count(took, J) = Count(ws[p], Y)
    <3>1. Positions(took, J) = Positions(ws[p], Y)
      BY <1>3, <2>2 DEF Positions
    <3> QED
      BY <3>1 DEF Count
  <2> HIDE DEF Y, J
  <2>4. Count(e.jobs \o took, J) = Count(e.jobs, J) + Count(took, J)
    BY <1>3, <1>5, CountConcat
  <2>5. /\ Cardinality(Places(ws, Y)) \in Nat /\ Cardinality(Places(vs, Y)) \in Nat
        /\ Count(ws[p], Y) \in Nat /\ Count(vs[p], Y) \in Nat
        /\ Count(ws[p], Y) <= Cardinality(Places(ws, Y))
        /\ Cardinality(Places(vs, Y)) - Count(vs[p], Y) = Cardinality(Places(ws, Y)) - Count(ws[p], Y)
    <3>1. Lists(ws, S) /\ Lists(vs, S)
      BY <1>1 DEF Lists
    <3> QED
      BY <2>1, <3>1, PlacesChange
  <2>6. Count(vs[p], Y) = 0
    BY <1>1, CountNone
  <2>7. Count(e.jobs, J) \in Nat /\ Count(e.sync_jobs, X.s) \in Nat
    BY LoadIsNat DEF J
  <2>8. /\ Load(f, X) = Cardinality(Places(vs, Y)) + Count(e.jobs \o took, J) + Count(e.sync_jobs, X.s)
        /\ Load(e, X) = Cardinality(Places(ws, Y)) + Count(e.jobs, J) + Count(e.sync_jobs, X.s)
    BY <1>2 DEF Load, Y, J, ws
  <2> QED
    BY <2>3, <2>4, <2>5, <2>6, <2>7, <2>8
<1> QED
  BY <1>2, <1>6, <1>7 DEF f

(* What a promise gets, and that it is being resolved: r of its resolutions   *)
(* more than before.                                                          *)
Moves(e, f, o, p, v, r) ==
    /\ Typed(f, o) /\ SameRest(e, f) /\ f.promises = [e.promises EXCEPT ![p] = v]
    /\ \A x \in Promise :
          /\ Load(f, Settles(x)) = Load(e, Settles(x))
          /\ Load(f, Resolves(x)) = Load(e, Resolves(x)) + (IF x = p THEN r ELSE 0)
          /\ \A i \in 1..2 : Load(f, Reports(x, i)) = Load(e, Reports(x, i))

LEMMA SettleResultMoves ==
    ASSUME NEW e, NEW o, Typed(e, o), NEW p \in Promise, NEW v \in Settled,
           e.promises[p] = "pending"
    PROVE  Moves(e, SettleResult(e, p, v), o, p, v, 0)
<1> DEFINE f == SettleResult(e, p, v)
<1>1. /\ Typed(f, o) /\ SameRest(e, f) /\ f.promises = [e.promises EXCEPT ![p] = v]
      /\ \A X : Matches(X, o) => Load(f, X) = Load(e, X)
  BY SettleResultLoad
<1> HIDE DEF f
<1>2. \A x \in Promise : Load(e, Resolves(x)) \in Nat
  BY LoadIsNat
<1>3. \A x \in Promise : Load(f, Settles(x)) = Load(e, Settles(x))
  BY <1>1, ClassesMatch
<1>4. \A x \in Promise : Load(f, Resolves(x)) = Load(e, Resolves(x)) + (IF x = p THEN 0 ELSE 0)
  BY <1>1, <1>2, ClassesMatch
<1>5. \A x \in Promise : \A i \in 1..2 : Load(f, Reports(x, i)) = Load(e, Reports(x, i))
  BY <1>1, ClassesMatch
<1>6. Moves(e, f, o, p, v, 0)
  BY <1>1, <1>3, <1>4, <1>5 DEF Moves
<1> QED
  BY <1>6 DEF f

(* Marked as resolving, with something that will end it. *)
AddsResolution(g, f, o, p) ==
    /\ Typed(f, o) /\ SameRest(g, f) /\ f.promises = g.promises
    /\ \A x \in Promise :
          /\ Load(f, Settles(x)) = Load(g, Settles(x)) + Bit(FALSE)
          /\ Load(f, Resolves(x)) = Load(g, Resolves(x)) + Bit(x = p)
          /\ \A i \in 1..2 : Load(f, Reports(x, i)) = Load(g, Reports(x, i)) + Bit(FALSE)

LEMMA ResolvingMoves ==
    ASSUME NEW e, NEW o, Typed(e, o), NEW p \in Promise, NEW f,
           AddsResolution(Resolving(e, p), f, o, p)
    PROVE  Moves(e, f, o, p, "resolving", 1)
<1> DEFINE g == Resolving(e, p)
<1>0. /\ Typed(f, o) /\ SameRest(g, f) /\ f.promises = g.promises
      /\ \A x \in Promise :
            /\ Load(f, Settles(x)) = Load(g, Settles(x)) + Bit(FALSE)
            /\ Load(f, Resolves(x)) = Load(g, Resolves(x)) + Bit(x = p)
            /\ \A i \in 1..2 : Load(f, Reports(x, i)) = Load(g, Reports(x, i)) + Bit(FALSE)
  BY DEF AddsResolution
<1>1. /\ SameRest(e, g) /\ g.promises = [e.promises EXCEPT ![p] = "resolving"]
      /\ \A X : Load(g, X) = Load(e, X)
  <2>1. "resolving" \in Unsettled \cup Settled
    BY DEF Unsettled
  <2> QED
    BY <2>1, MarkLoad DEF Resolving
<1> HIDE DEF g
<1>2. /\ f.promises = [e.promises EXCEPT ![p] = "resolving"] /\ SameRest(e, f)
  BY <1>0, <1>1 DEF SameRest
<1>3. ASSUME NEW x \in Promise
      PROVE  /\ Load(f, Settles(x)) = Load(e, Settles(x))
             /\ Load(f, Resolves(x)) = Load(e, Resolves(x)) + (IF x = p THEN 1 ELSE 0)
             /\ \A i \in 1..2 : Load(f, Reports(x, i)) = Load(e, Reports(x, i))
  <2>1. /\ Load(e, Settles(x)) \in Nat /\ Load(e, Resolves(x)) \in Nat
        /\ \A i \in 1..2 : Load(e, Reports(x, i)) \in Nat
    BY LoadIsNat
  <2>2. /\ Load(g, Settles(x)) = Load(e, Settles(x)) /\ Load(g, Resolves(x)) = Load(e, Resolves(x))
        /\ \A i \in 1..2 : Load(g, Reports(x, i)) = Load(e, Reports(x, i))
    BY <1>1
  <2> QED
    BY <1>0, <2>1, <2>2 DEF Bit
<1> QED
  BY <1>0, <1>2, <1>3 DEF Moves

LEMMA SettleMoves ==
    ASSUME NEW e, NEW o, Typed(e, o), NEW p \in Promise, o[p] \in Origins,
           NEW r \in Result, NEW then, e.promises[p] = "pending"
    PROVE  \/ Moves(e, Settle(e, p, r, then), o, p, "resolving", 1)
           \/ \E v \in Settled : Moves(e, Settle(e, p, r, then), o, p, v, 0)
<1> DEFINE v == CASE r \notin Promise -> r
                  [] r = p -> "rejected"
                  [] OTHER -> e.promises[r]
           g == Resolving(e, p)
<1>1. Typed(g, o) /\ SameRest(e, g)
  <2>1. "resolving" \in Unsettled \cup Settled
    BY DEF Unsettled
  <2> QED
    BY <2>1, MarkLoad DEF Resolving
<1>2. /\ v \in Unsettled \cup Settled
      /\ v \in Unsettled => r \in Promise
      /\ v \in Unsettled => v \notin Settled
  <2>1. e.promises \in [Promise -> Unsettled \cup Settled]
    BY DEF Typed
  <2> QED
    BY <2>1 DEF Result, Settled, Value, Unsettled
<1>3. p \in Promise /\ o[p] # "free"
  BY DEF Origins
<1>4. ASSUME v \in Unsettled
      PROVE  Moves(e, AddWaiter(g, r, Waiter("adopt", p, 0, "none")), o, p, "resolving", 1)
  <2> DEFINE w == Waiter("adopt", p, 0, "none")
             f == AddWaiter(g, r, w)
  <2>1. w \in WaitersOf(o) /\ w.kind = "adopt" /\ w.p = p
    BY DEF Waiter, WaitersOf, Item, WaiterKind, Source
  <2>2. r \in Promise
    BY <1>2, <1>4
  <2> HIDE DEF w, g, v
  <2>3. /\ Typed(f, o) /\ SameRest(g, f) /\ f.promises = g.promises
        /\ \A X : Load(f, X) = Load(g, X) + Bit(w \in X.w)
    BY <1>1, <2>1, <2>2, AddWaiterLoad
  <2>4. ASSUME NEW x \in Promise
        PROVE  /\ Load(f, Settles(x)) = Load(g, Settles(x)) + Bit(FALSE)
               /\ Load(f, Resolves(x)) = Load(g, Resolves(x)) + Bit(x = p)
               /\ \A i \in 1..2 : Load(f, Reports(x, i)) = Load(g, Reports(x, i)) + Bit(FALSE)
    <3>1. /\ w \notin Settles(x).w /\ \A i : w \notin Reports(x, i).w
          /\ w \in Resolves(x).w <=> x = p
      BY <2>1, WaiterClass
    <3> HIDE DEF f
    <3> QED
      BY <2>3, <3>1 DEF Bit
  <2> HIDE DEF f
  <2>5. AddsResolution(g, f, o, p)
    BY <2>3, <2>4 DEF AddsResolution
  <2>6. Moves(e, f, o, p, "resolving", 1)
    BY <2>5, ResolvingMoves DEF g
  <2> QED
    BY <2>6 DEF f, w
<1>5. Moves(e, Enqueue(g, Job("assimilate_thenable", p, 0, "none")), o, p, "resolving", 1)
  <2> DEFINE j == Job("assimilate_thenable", p, 0, "none")
             f == Enqueue(g, j)
  <2>1. j \in JobsOf(o) /\ j.kind = "assimilate_thenable" /\ j.p = p
    BY DEF Job, JobsOf, Item, JobKind, Source
  <2> HIDE DEF j, g
  <2>3. /\ Typed(f, o) /\ SameRest(g, f) /\ f.promises = g.promises
        /\ \A X : Load(f, X) = Load(g, X) + Bit(j \in X.j)
    BY <1>1, <2>1, EnqueueLoad
  <2>4. ASSUME NEW x \in Promise
        PROVE  /\ Load(f, Settles(x)) = Load(g, Settles(x)) + Bit(FALSE)
               /\ Load(f, Resolves(x)) = Load(g, Resolves(x)) + Bit(x = p)
               /\ \A i \in 1..2 : Load(f, Reports(x, i)) = Load(g, Reports(x, i)) + Bit(FALSE)
    <3>1. /\ j \notin Settles(x).j /\ \A i : j \notin Reports(x, i).j
          /\ j \in Resolves(x).j <=> x = p
      BY <2>1, JobClass
    <3> HIDE DEF f
    <3> QED
      BY <2>3, <3>1 DEF Bit
  <2> HIDE DEF f
  <2>5. AddsResolution(g, f, o, p)
    BY <2>3, <2>4 DEF AddsResolution
  <2>6. Moves(e, f, o, p, "resolving", 1)
    BY <2>5, ResolvingMoves DEF g
  <2> QED
    BY <2>6 DEF f, j
<1>6. Moves(e, [g EXCEPT !.sync_jobs = Append(@, p)], o, p, "resolving", 1)
  <2> DEFINE f == [g EXCEPT !.sync_jobs = Append(@, p)]
  <2> HIDE DEF g
  <2>3. /\ Typed(f, o) /\ SameRest(g, f) /\ f.promises = g.promises
        /\ \A X : Load(f, X) = Load(g, X) + Bit(p \in X.s)
    BY <1>1, <1>3, ReadLaterLoad
  <2>4. ASSUME NEW x \in Promise
        PROVE  /\ Load(f, Settles(x)) = Load(g, Settles(x)) + Bit(FALSE)
               /\ Load(f, Resolves(x)) = Load(g, Resolves(x)) + Bit(x = p)
               /\ \A i \in 1..2 : Load(f, Reports(x, i)) = Load(g, Reports(x, i)) + Bit(FALSE)
    <3>1. /\ p \notin Settles(x).s /\ \A i : p \notin Reports(x, i).s
          /\ p \in Resolves(x).s <=> x = p
      BY DEF Settles, Resolves, Reports, Class
    <3> HIDE DEF f
    <3> QED
      BY <2>3, <3>1 DEF Bit
  <2> HIDE DEF f
  <2>5. AddsResolution(g, f, o, p)
    BY <2>3, <2>4 DEF AddsResolution
  <2>6. Moves(e, f, o, p, "resolving", 1)
    BY <2>5, ResolvingMoves DEF g
  <2> QED
    BY <2>6 DEF f
<1>7. ASSUME v \notin Unsettled
      PROVE  v \in Settled /\ Moves(e, SettleResult(e, p, v), o, p, v, 0)
  <2>1. v \in Settled
    BY <1>2, <1>7
  <2> HIDE DEF v
  <2> QED
    BY <2>1, SettleResultMoves
<1>8. \/ v \in Unsettled /\ Settle(e, p, r, then) = AddWaiter(g, r, Waiter("adopt", p, 0, "none"))
      \/ Settle(e, p, r, then) = Enqueue(g, Job("assimilate_thenable", p, 0, "none"))
      \/ Settle(e, p, r, then) = [g EXCEPT !.sync_jobs = Append(@, p)]
      \/ v \notin Unsettled /\ Settle(e, p, r, then) = SettleResult(e, p, v)
  <2> QED
    BY DEF Settle
<1> HIDE DEF g, v
<1> QED
  BY <1>4, <1>5, <1>6, <1>7, <1>8, Zenon

LEMMA SettleElsewhere ==
    ASSUME NEW e, NEW p, NEW r, NEW then, e.promises[p] # "pending"
    PROVE  Settle(e, p, r, then) = e
BY DEF Settle
-----------------------------------------------------------------------------
(* Balance is kept of a promise about which nothing changes.                  *)
SameAt(e, o, cs, f, n, ds, x) ==
    /\ n[x] = o[x] /\ f.promises[x] = e.promises[x]
    /\ Load(f, Settles(x)) = Load(e, Settles(x))
    /\ Load(f, Resolves(x)) = Load(e, Resolves(x))
    /\ \A i \in 1..2 : Load(f, Reports(x, i)) = Load(e, Reports(x, i))
    /\ Count(ds, Settles(x).b) = Count(cs, Settles(x).b)
    /\ Count(ds, Resolves(x).b) = Count(cs, Resolves(x).b)
    /\ x \in f.operations <=> x \in e.operations
    /\ x \in DOMAIN f.promise_aggregates <=> x \in DOMAIN e.promise_aggregates
    /\ x \in DOMAIN e.promise_aggregates => f.promise_aggregates[x] = e.promise_aggregates[x]

LEMMA SameBalance ==
    ASSUME NEW e, NEW o, NEW t, NEW cs, NEW f, NEW n, NEW u, NEW ds, NEW x, NEW s, NEW r,
           SameAt(e, o, cs, f, n, ds, x), t \subseteq u, BalancedAt(e, o, t, cs, x, s, r)
    PROVE  BalancedAt(f, n, u, ds, x, s, r)
<1>1. Owed(f, n, x) <=> Owed(e, o, x)
  BY DEF SameAt, Owed
<1>2. SettlersIn(f, ds, x) = SettlersIn(e, cs, x)
  BY DEF SameAt, SettlersIn, Bit
<1>3. ResolversIn(f, ds, x) = ResolversIn(e, cs, x)
  BY DEF SameAt, ResolversIn
<1>4. Unreported(f, x) = Unreported(e, x)
  BY DEF SameAt, Unreported
<1>5. x \in DOMAIN f.promise_aggregates => Exact(f, x)
  BY <1>4 DEF SameAt, Exact, BalancedAt
<1>6. f.promises[x] = e.promises[x] /\ n[x] = o[x]
  BY DEF SameAt
<1> QED
  BY <1>1, <1>2, <1>3, <1>5, <1>6 DEF BalancedAt, Bit

LEMMA SettlersAreNat ==
    ASSUME NEW e, NEW o, NEW t, NEW cs, NEW p, Typed(e, o), Handled(o, t, cs)
    PROVE  /\ Load(e, Settles(p)) \in Nat /\ Load(e, Resolves(p)) \in Nat
           /\ Count(cs, Settles(p).b) \in Nat /\ Count(cs, Resolves(p).b) \in Nat
           /\ SettlersIn(e, cs, p) \in Nat /\ ResolversIn(e, cs, p) \in Nat
<1>1. Load(e, Settles(p)) \in Nat /\ Load(e, Resolves(p)) \in Nat
  BY LoadIsNat
<1>2. Count(cs, Settles(p).b) \in Nat /\ Count(cs, Resolves(p).b) \in Nat
  <2>1. cs \in Seq(BoundariesOf(o))
    BY DEF Handled
  <2> QED
    BY <2>1, CountIsNat
<1> QED
  BY <1>1, <1>2 DEF SettlersIn, ResolversIn, Bit

(* A pending promise that nothing settles and nothing resolves yet is in      *)
(* balance once it is settled, or resolving.                                  *)
Bare(e, o, t, cs, p) ==
    /\ o[p] \in Origins /\ e.promises[p] = "pending"
    /\ SettlersIn(e, cs, p) = 0
    /\ p \notin t => ResolversIn(e, cs, p) = 0
    /\ BalancedBut(e, o, t, cs, p)

Balances(v, r) == (v = "resolving" /\ r = 1) \/ (v \in Settled /\ r = 0)

LEMMA MovesBalance ==
    ASSUME NEW e, NEW o, NEW t, NEW cs, Typed(e, o), Handled(o, t, cs), NEW p \in Promise,
           Bare(e, o, t, cs, p), NEW f, NEW v, NEW r, Moves(e, f, o, p, v, r),
           Balances(v, r)
    PROVE  Balanced(f, o, t, cs)
<1> USE DEF Balances
<1>1. e.promises \in [Promise -> Unsettled \cup Settled]
  BY DEF Typed
<1>2. ASSUME NEW x \in Promise \ {p}
      PROVE  BalancedAt(f, o, t, cs, x, 0, 0)
  <2>1. Load(e, Resolves(x)) \in Nat
    BY LoadIsNat
  <2>2. SameAt(e, o, cs, f, o, cs, x)
    BY <1>1, <2>1 DEF Moves, SameRest, SameAt
  <2>3. BalancedAt(e, o, t, cs, x, 0, 0)
    BY DEF Bare, BalancedBut
  <2> QED
    BY <2>2, <2>3, SameBalance
<1>3. BalancedAt(f, o, t, cs, p, 0, 0)
  <2>1. f.promises[p] = v /\ v # "pending" /\ (v = "resolving" <=> r = 1)
    BY <1>1 DEF Moves, Settled, Value
  <2>2. ~Owed(f, o, p)
    BY <2>1 DEF Owed
  <2>3. SettlersIn(f, cs, p) = SettlersIn(e, cs, p)
    BY DEF Moves, SameRest, SettlersIn
  <2>4. ResolversIn(f, cs, p) = ResolversIn(e, cs, p) + r
    <3>1. Load(f, Resolves(p)) = Load(e, Resolves(p)) + r
      BY DEF Moves
    <3>2. Load(e, Resolves(p)) \in Nat /\ Count(cs, Resolves(p).b) \in Nat
      BY SettlersAreNat
    <3>3. r \in Nat
      OBVIOUS
    <3> QED
      BY <3>1, <3>2, <3>3 DEF ResolversIn
  <2>5. p \notin DOMAIN f.promise_aggregates
    <3>1. SettlersIn(e, cs, p) = 0 /\ f.promise_aggregates = e.promise_aggregates
      BY DEF Bare, Moves, SameRest
    <3>2. Load(e, Settles(p)) \in Nat /\ Count(cs, Settles(p).b) \in Nat
      BY SettlersAreNat
    <3> QED
      BY <3>1, <3>2 DEF SettlersIn, Bit
  <2> QED
    BY <2>1, <2>2, <2>3, <2>4, <2>5 DEF BalancedAt, Bare, Bit, Origins
<1> QED
  BY <1>2, <1>3 DEF Balanced

LEMMA SettleBare ==
    ASSUME NEW e, NEW o, NEW t, NEW cs, Typed(e, o), Handled(o, t, cs), NEW p \in Promise,
           Bare(e, o, t, cs, p), NEW r \in Result, NEW then
    PROVE  LET f == Settle(e, p, r, then)
           IN  Typed(f, o) /\ Balanced(f, o, t, cs)
<1> DEFINE f == Settle(e, p, r, then)
<1>1. \/ Moves(e, f, o, p, "resolving", 1)
      \/ \E v \in Settled : Moves(e, f, o, p, v, 0)
  BY SettleMoves DEF Bare
<1> HIDE DEF f
<1>2. ASSUME Moves(e, f, o, p, "resolving", 1)
      PROVE  Typed(f, o) /\ Balanced(f, o, t, cs)
  <2>1. Typed(f, o)
    BY <1>2 DEF Moves
  <2>2. Balanced(f, o, t, cs)
    <3>1. Balances("resolving", 1)
      BY DEF Balances
    <3> QED
      BY <1>2, <3>1, MovesBalance
  <2> QED
    BY <2>1, <2>2
<1>3. ASSUME NEW v \in Settled, Moves(e, f, o, p, v, 0)
      PROVE  Typed(f, o) /\ Balanced(f, o, t, cs)
  <2>1. Typed(f, o)
    BY <1>3 DEF Moves
  <2>2. Balanced(f, o, t, cs)
    <3>1. Balances(v, 0)
      BY DEF Balances
    <3> QED
      BY <1>3, <3>1, MovesBalance
  <2> QED
    BY <2>1, <2>2
<1>4. Typed(f, o) /\ Balanced(f, o, t, cs)
  BY <1>1, <1>2, <1>3
<1> QED
  BY <1>4 DEF f

LEMMA SettleResultBare ==
    ASSUME NEW e, NEW o, NEW t, NEW cs, Typed(e, o), Handled(o, t, cs), NEW p \in Promise,
           Bare(e, o, t, cs, p), NEW v \in Settled
    PROVE  LET f == SettleResult(e, p, v)
           IN  Typed(f, o) /\ Balanced(f, o, t, cs)
<1> DEFINE f == SettleResult(e, p, v)
<1>1. Moves(e, f, o, p, v, 0)
  BY SettleResultMoves DEF Bare
<1> HIDE DEF f
<1>2. Typed(f, o)
  BY <1>1 DEF Moves
<1>3. Balanced(f, o, t, cs)
  <2>1. Balances(v, 0)
    BY DEF Balances
  <2> QED
    BY <1>1, <2>1, MovesBalance
<1> QED
  BY <1>2, <1>3 DEF f

(* Such is a promise that JavaScript settles by itself; one whose settler has *)
(* been taken; and one whose resolution has been taken, back to pending.      *)
LEMMA SettlePlain ==
    ASSUME NEW e, NEW o, NEW t, NEW cs, Typed(e, o), Handled(o, t, cs), NEW p \in Promise,
           Balanced(e, o, t, cs), o[p] \in {"constructor", "completion"},
           NEW r \in Result, NEW then
    PROVE  LET f == Settle(e, p, r, then)
           IN  Typed(f, o) /\ Balanced(f, o, t, cs)
<1>1. CASE e.promises[p] # "pending"
  BY <1>1, SettleElsewhere
<1>2. CASE e.promises[p] = "pending"
  <2>1. BalancedAt(e, o, t, cs, p, 0, 0) /\ BalancedBut(e, o, t, cs, p)
    BY DEF Balanced, BalancedBut
  <2>2. Bare(e, o, t, cs, p)
    BY <1>2, <2>1 DEF Bare, BalancedAt, Owed, Bit, Origins
  <2> QED
    BY <2>2, SettleBare
<1> QED
  BY <1>1, <1>2

LEMMA ShortIsBare ==
    ASSUME NEW e, NEW o, NEW t, NEW cs, Typed(e, o), Handled(o, t, cs), NEW p \in Promise,
           BalancedBut(e, o, t, cs, p), BalancedAt(e, o, t, cs, p, 1, 0)
    PROVE  Bare(e, o, t, cs, p) /\ Owed(e, o, p)
<1>1. SettlersIn(e, cs, p) \in Nat
  BY SettlersAreNat
<1> QED
  BY <1>1 DEF Bare, BalancedAt, Owed, Bit, Origins

LEMMA ReopenIsBare ==
    ASSUME NEW e, NEW o, NEW t, NEW cs, Typed(e, o), Handled(o, t, cs), NEW p \in Promise, NEW r,
           BalancedBut(e, o, t, cs, p), BalancedAt(e, o, t, cs, p, 0, r), r = 1 \/ p \in t,
           e.promises[p] = "resolving"
    PROVE  LET f == [e EXCEPT !.promises[p] = "pending"]
           IN  Typed(f, o) /\ Bare(f, o, t, cs, p)
<1> DEFINE f == [e EXCEPT !.promises[p] = "pending"]
<1>1. /\ Typed(f, o) /\ SameRest(e, f) /\ f.promises = [e.promises EXCEPT ![p] = "pending"]
      /\ \A X : Load(f, X) = Load(e, X)
  <2>1. "pending" \in Unsettled \cup Settled
    BY DEF Unsettled
  <2> QED
    BY <2>1, MarkLoad
<1> HIDE DEF f
<1>2. e.promises \in [Promise -> Unsettled \cup Settled] /\ o \in [Promise -> Origins \cup {"free"}]
  BY DEF Typed, Handled
<1>3. ASSUME NEW x \in Promise \ {p}
      PROVE  BalancedAt(f, o, t, cs, x, 0, 0)
  <2>1. SameAt(e, o, cs, f, o, cs, x)
    BY <1>1, <1>2 DEF SameRest, SameAt
  <2>2. BalancedAt(e, o, t, cs, x, 0, 0)
    BY DEF BalancedBut
  <2> QED
    BY <2>1, <2>2, SameBalance
<1>4. /\ SettlersIn(f, cs, p) = SettlersIn(e, cs, p) /\ ResolversIn(f, cs, p) = ResolversIn(e, cs, p)
      /\ f.promises[p] = "pending"
  BY <1>1, <1>2 DEF SameRest, SettlersIn, ResolversIn
<1>5. /\ o[p] \in Origins /\ SettlersIn(e, cs, p) = 0
      /\ p \notin t => ResolversIn(e, cs, p) = 0
  BY <1>2 DEF BalancedAt, Owed, Bit
<1>6. Typed(f, o) /\ Bare(f, o, t, cs, p)
  BY <1>1, <1>3, <1>4, <1>5 DEF Bare, BalancedBut
<1> QED
  BY <1>6 DEF f

LEMMA NotResolving ==
    ASSUME NEW e, NEW o, NEW t, NEW cs, Typed(e, o), Handled(o, t, cs), NEW p \in Promise, NEW r,
           BalancedBut(e, o, t, cs, p), BalancedAt(e, o, t, cs, p, 0, r), r = 1 \/ p \in t,
           e.promises[p] # "resolving"
    PROVE  Balanced(e, o, t, cs)
<1>1. ResolversIn(e, cs, p) \in Nat
  BY SettlersAreNat
<1>2. p \in t
  BY <1>1 DEF BalancedAt, Bit
<1>3. BalancedAt(e, o, t, cs, p, 0, 0)
  BY <1>2 DEF BalancedAt
<1> QED
  BY <1>3 DEF BalancedBut, Balanced

LEMMA AssimilatedBalance ==
    ASSUME NEW e, NEW o, NEW t, NEW cs, Typed(e, o), Handled(o, t, cs), NEW p \in Promise, NEW r,
           BalancedBut(e, o, t, cs, p), BalancedAt(e, o, t, cs, p, 0, r), r = 1 \/ p \in t,
           NEW x \in Result, NEW then
    PROVE  /\ Typed(SettleAssimilated(e, p, x, then), o)
           /\ Balanced(SettleAssimilated(e, p, x, then), o, t, cs)
           /\ Typed(FulfillAssimilated(e, p), o)
           /\ Balanced(FulfillAssimilated(e, p), o, t, cs)
<1>1. CASE e.promises[p] # "resolving"
  BY <1>1, NotResolving DEF SettleAssimilated, FulfillAssimilated
<1>2. CASE e.promises[p] = "resolving"
  <2> DEFINE f == [e EXCEPT !.promises[p] = "pending"]
  <2>1. Typed(f, o) /\ Bare(f, o, t, cs, p)
    BY <1>2, ReopenIsBare
  <2>2. SettleAssimilated(e, p, x, then) = Settle(f, p, x, then)
    BY <1>2 DEF SettleAssimilated
  <2>3. FulfillAssimilated(e, p) = SettleResult(f, p, "object") /\ "object" \in Settled
    BY <1>2 DEF FulfillAssimilated, Settled, Value
  <2> HIDE DEF f
  <2>4. Typed(Settle(f, p, x, then), o) /\ Balanced(Settle(f, p, x, then), o, t, cs)
    BY <2>1, SettleBare
  <2>5. Typed(SettleResult(f, p, "object"), o) /\ Balanced(SettleResult(f, p, "object"), o, t, cs)
    BY <2>1, <2>3, SettleResultBare
  <2> QED
    BY <2>2, <2>3, <2>4, <2>5
<1> QED
  BY <1>1, <1>2
-----------------------------------------------------------------------------
(* The books as a whole, and with something of p out of sight.                *)
Book(e, o, t, cs) == Typed(e, o) /\ Handled(o, t, cs) /\ Balanced(e, o, t, cs)
Short(e, o, t, cs, p, s, r) ==
    /\ Typed(e, o) /\ Handled(o, t, cs) /\ p \in Promise
    /\ BalancedBut(e, o, t, cs, p) /\ BalancedAt(e, o, t, cs, p, s, r)

LEMMA BookIsShort ==
    ASSUME NEW e, NEW o, NEW t, NEW cs, NEW p \in Promise
    PROVE  Book(e, o, t, cs) <=> Short(e, o, t, cs, p, 0, 0)
BY DEF Book, Short, Balanced, BalancedBut

(* What puts a settler or a resolution of p in a place, or takes it away.     *)
Effect(e, f, o, p, s, r) ==
    /\ Typed(f, o) /\ SameRest(e, f) /\ f.promises = e.promises
    /\ \A x \in Promise :
          /\ Load(f, Settles(x)) = Load(e, Settles(x)) + (IF x = p THEN s ELSE 0)
          /\ Load(f, Resolves(x)) = Load(e, Resolves(x)) + (IF x = p THEN r ELSE 0)
          /\ \A i \in 1..2 : Load(f, Reports(x, i)) = Load(e, Reports(x, i))

LEMMA EffectShort ==
    ASSUME NEW e, NEW o, NEW t, NEW cs, NEW p, NEW s \in Int, NEW r \in Int,
           Short(e, o, t, cs, p, s, r),
           NEW f, NEW a \in Int, NEW b \in Int, Effect(e, f, o, p, a, b)
    PROVE  Short(f, o, t, cs, p, s - a, r - b)
<1>1. Typed(e, o) /\ Handled(o, t, cs) /\ p \in Promise
  BY DEF Short
<1>2. ASSUME NEW x \in Promise \ {p}
      PROVE  BalancedAt(f, o, t, cs, x, 0, 0)
  <2>1. Load(e, Resolves(x)) \in Nat /\ Load(e, Settles(x)) \in Nat
    BY <1>1, SettlersAreNat
  <2>2. SameAt(e, o, cs, f, o, cs, x)
    BY <2>1 DEF Effect, SameRest, SameAt
  <2>3. BalancedAt(e, o, t, cs, x, 0, 0)
    BY DEF Short, BalancedBut
  <2> QED
    BY <2>2, <2>3, SameBalance
<1>3. BalancedAt(f, o, t, cs, p, s - a, r - b)
  <2>1. /\ Load(e, Settles(p)) \in Nat /\ Load(e, Resolves(p)) \in Nat
        /\ Count(cs, Settles(p).b) \in Nat /\ Count(cs, Resolves(p).b) \in Nat
    BY <1>1, SettlersAreNat
  <2>2. /\ Load(f, Settles(p)) = Load(e, Settles(p)) + a
        /\ Load(f, Resolves(p)) = Load(e, Resolves(p)) + b
        /\ \A i \in 1..2 : Load(f, Reports(p, i)) = Load(e, Reports(p, i))
        /\ f.promise_aggregates = e.promise_aggregates /\ f.operations = e.operations
        /\ f.promises = e.promises
    BY <1>1 DEF Effect, SameRest
  <2>3. SettlersIn(f, cs, p) = SettlersIn(e, cs, p) + a /\ SettlersIn(e, cs, p) \in Nat
    BY <2>1, <2>2 DEF SettlersIn, Bit
  <2>4. ResolversIn(f, cs, p) = ResolversIn(e, cs, p) + b /\ ResolversIn(e, cs, p) \in Nat
    BY <2>1, <2>2 DEF ResolversIn
  <2>5. Exact(f, p) <=> Exact(e, p)
    <3>1. Unreported(f, p) = Unreported(e, p)
      BY <2>2 DEF Unreported
    <3> QED
      BY <2>2, <3>1 DEF Exact
  <2>6. BalancedAt(e, o, t, cs, p, s, r)
    BY DEF Short
  <2>7. Owed(f, o, p) <=> Owed(e, o, p)
    BY <2>2 DEF Owed
  <2> QED
    BY <2>2, <2>3, <2>4, <2>5, <2>6, <2>7 DEF BalancedAt, Bit
<1> QED
  BY <1>1, <1>2, <1>3 DEF Short, BalancedBut, Effect

(* The places: a waiter or a job that settles p, a job that resolves it.      *)
SettlingWaiter == {"coroutine", "then", "finally", "finally_adopt"}
SettlingJob == {"resume_coroutine", "then", "finally", "settle_promise"}
ResolvingJob == {"settle_assimilated", "assimilate_thenable"}

LEMMA AddWaiterEffect ==
    ASSUME NEW e, NEW o, Typed(e, o), NEW q \in Promise, NEW w \in WaitersOf(o),
           w.kind \in SettlingWaiter
    PROVE  Effect(e, AddWaiter(e, q, w), o, w.p, 1, 0)
<1> DEFINE f == AddWaiter(e, q, w)
<1>1. /\ Typed(f, o) /\ SameRest(e, f) /\ f.promises = e.promises
      /\ \A X : Load(f, X) = Load(e, X) + Bit(w \in X.w)
  BY AddWaiterLoad
<1> HIDE DEF f
<1>2. ASSUME NEW x \in Promise
      PROVE  /\ Load(f, Settles(x)) = Load(e, Settles(x)) + (IF x = w.p THEN 1 ELSE 0)
             /\ Load(f, Resolves(x)) = Load(e, Resolves(x)) + (IF x = w.p THEN 0 ELSE 0)
             /\ \A i \in 1..2 : Load(f, Reports(x, i)) = Load(e, Reports(x, i))
  <2>1. /\ w \notin Resolves(x).w /\ \A i : w \notin Reports(x, i).w
        /\ w \in Settles(x).w <=> x = w.p
    BY WaiterClass DEF SettlingWaiter
  <2>2. /\ Load(e, Settles(x)) \in Nat /\ Load(e, Resolves(x)) \in Nat
        /\ \A i : Load(e, Reports(x, i)) \in Nat
    BY LoadIsNat
  <2> QED
    BY <1>1, <2>1, <2>2 DEF Bit
<1>3. Effect(e, f, o, w.p, 1, 0)
  BY <1>1, <1>2 DEF Effect
<1> QED
  BY <1>3 DEF f

LEMMA JobLoads ==
    ASSUME NEW o, NEW j \in JobsOf(o), j.kind # "aggregate_settle", NEW x
    PROVE  /\ j \in Settles(x).j <=> x = j.p /\ j.kind \in SettlingJob
           /\ j \in Resolves(x).j <=> x = j.p /\ j.kind \in ResolvingJob
           /\ \A i : j \notin Reports(x, i).j
BY JobClass DEF SettlingJob, ResolvingJob

LEMMA EnqueueEffect ==
    ASSUME NEW e, NEW o, Typed(e, o), NEW j \in JobsOf(o), j.kind # "aggregate_settle"
    PROVE  Effect(e, Enqueue(e, j), o, j.p, Bit(j.kind \in SettlingJob), Bit(j.kind \in ResolvingJob))
<1> DEFINE f == Enqueue(e, j)
<1>1. /\ Typed(f, o) /\ SameRest(e, f) /\ f.promises = e.promises
      /\ \A X : Load(f, X) = Load(e, X) + Bit(j \in X.j)
  BY EnqueueLoad
<1> HIDE DEF f
<1>2. ASSUME NEW x \in Promise
      PROVE  /\ Load(f, Settles(x)) = Load(e, Settles(x))
                    + (IF x = j.p THEN Bit(j.kind \in SettlingJob) ELSE 0)
             /\ Load(f, Resolves(x)) = Load(e, Resolves(x))
                    + (IF x = j.p THEN Bit(j.kind \in ResolvingJob) ELSE 0)
             /\ \A i \in 1..2 : Load(f, Reports(x, i)) = Load(e, Reports(x, i))
  <2>1. /\ j \in Settles(x).j <=> x = j.p /\ j.kind \in SettlingJob
        /\ j \in Resolves(x).j <=> x = j.p /\ j.kind \in ResolvingJob
        /\ \A i : j \notin Reports(x, i).j
    BY JobLoads
  <2>2. /\ Load(e, Settles(x)) \in Nat /\ Load(e, Resolves(x)) \in Nat
        /\ \A i : Load(e, Reports(x, i)) \in Nat
    BY LoadIsNat
  <2> QED
    BY <1>1, <2>1, <2>2 DEF Bit
<1>3. Effect(e, f, o, j.p, Bit(j.kind \in SettlingJob), Bit(j.kind \in ResolvingJob))
  BY <1>1, <1>2 DEF Effect
<1> QED
  BY <1>3 DEF f

LEMMA TookEffect ==
    ASSUME NEW e, NEW o, Typed(e, o), e.jobs # <<>>, Head(e.jobs).kind # "aggregate_settle"
    PROVE  LET j == Head(e.jobs)
           IN  /\ j \in JobsOf(o)
               /\ Effect(e, [e EXCEPT !.jobs = Tail(@)], o, j.p,
                         -Bit(j.kind \in SettlingJob), -Bit(j.kind \in ResolvingJob))
<1> DEFINE f == [e EXCEPT !.jobs = Tail(@)]
           j == Head(e.jobs)
<1>1. /\ Typed(f, o) /\ SameRest(e, f) /\ f.promises = e.promises /\ j \in JobsOf(o)
      /\ \A X : Load(f, X) = Load(e, X) - Bit(j \in X.j)
  BY TookLoad
<1>0. j.kind # "aggregate_settle"
  OBVIOUS
<1> HIDE DEF f, j
<1>2. ASSUME NEW x \in Promise
      PROVE  /\ Load(f, Settles(x)) = Load(e, Settles(x))
                    + (IF x = j.p THEN -Bit(j.kind \in SettlingJob) ELSE 0)
             /\ Load(f, Resolves(x)) = Load(e, Resolves(x))
                    + (IF x = j.p THEN -Bit(j.kind \in ResolvingJob) ELSE 0)
             /\ \A i \in 1..2 : Load(f, Reports(x, i)) = Load(e, Reports(x, i))
  <2>1. /\ j \in Settles(x).j <=> x = j.p /\ j.kind \in SettlingJob
        /\ j \in Resolves(x).j <=> x = j.p /\ j.kind \in ResolvingJob
        /\ \A i : j \notin Reports(x, i).j
    BY <1>0, <1>1, JobLoads
  <2>2. /\ Load(e, Settles(x)) \in Nat /\ Load(e, Resolves(x)) \in Nat
        /\ \A i : Load(e, Reports(x, i)) \in Nat
    BY LoadIsNat
  <2> QED
    BY <1>1, <2>1, <2>2 DEF Bit
<1>3. Effect(e, f, o, j.p, -Bit(j.kind \in SettlingJob), -Bit(j.kind \in ResolvingJob))
  BY <1>1, <1>2 DEF Effect
<1> QED
  BY <1>1, <1>3 DEF f, j

LEMMA TookSyncEffect ==
    ASSUME NEW e, NEW o, Typed(e, o), e.sync_jobs # <<>>
    PROVE  LET p == Head(e.sync_jobs)
           IN  /\ p \in Promise /\ o[p] # "free"
               /\ Effect(e, [e EXCEPT !.sync_jobs = Tail(@)], o, p, 0, -1)
<1> DEFINE f == [e EXCEPT !.sync_jobs = Tail(@)]
           p == Head(e.sync_jobs)
<1>1. /\ Typed(f, o) /\ SameRest(e, f) /\ f.promises = e.promises /\ p \in Promise /\ o[p] # "free"
      /\ \A X : Load(f, X) = Load(e, X) - Bit(p \in X.s)
  BY TookSyncLoad
<1> HIDE DEF f, p
<1>2. ASSUME NEW x \in Promise
      PROVE  /\ Load(f, Settles(x)) = Load(e, Settles(x)) + (IF x = p THEN 0 ELSE 0)
             /\ Load(f, Resolves(x)) = Load(e, Resolves(x)) + (IF x = p THEN -1 ELSE 0)
             /\ \A i \in 1..2 : Load(f, Reports(x, i)) = Load(e, Reports(x, i))
  <2>1. /\ p \notin Settles(x).s /\ \A i : p \notin Reports(x, i).s
        /\ p \in Resolves(x).s <=> x = p
    BY DEF Settles, Resolves, Reports, Class
  <2>2. /\ Load(e, Settles(x)) \in Nat /\ Load(e, Resolves(x)) \in Nat
        /\ \A i : Load(e, Reports(x, i)) \in Nat
    BY LoadIsNat
  <2> QED
    BY <1>1, <2>1, <2>2 DEF Bit
<1>3. Effect(e, f, o, p, 0, -1)
  BY <1>1, <1>2 DEF Effect
<1> QED
  BY <1>1, <1>3 DEF f, p
-----------------------------------------------------------------------------
(* What is taken from one place and put in the next.                          *)
LEMMA AnyResolutions ==
    ASSUME NEW e, NEW o, NEW t, NEW cs, NEW p, NEW s, NEW r, Short(e, o, t, cs, p, s, r), p \in t
    PROVE  \A any : Short(e, o, t, cs, p, s, any)
BY DEF Short, BalancedAt

LEMMA PutWaiter ==
    ASSUME NEW e, NEW o, NEW t, NEW cs, NEW q \in Promise, NEW w \in WaitersOf(o),
           w.kind \in SettlingWaiter, Short(e, o, t, cs, w.p, 1, 0)
    PROVE  Book(AddWaiter(e, q, w), o, t, cs)
<1>1. Effect(e, AddWaiter(e, q, w), o, w.p, 1, 0)
  BY AddWaiterEffect DEF Short
<1>2. Short(AddWaiter(e, q, w), o, t, cs, w.p, 1 - 1, 0 - 0)
  BY <1>1, EffectShort
<1>3. w.p \in Promise
  BY DEF Short
<1> QED
  BY <1>2, <1>3, BookIsShort

LEMMA PutJob ==
    ASSUME NEW e, NEW o, NEW t, NEW cs, NEW j \in JobsOf(o),
           j.kind \in SettlingJob, Short(e, o, t, cs, j.p, 1, 0)
    PROVE  Book(Enqueue(e, j), o, t, cs)
<1>1. Bit(j.kind \in SettlingJob) = 1 /\ Bit(j.kind \in ResolvingJob) = 0 /\ j.kind # "aggregate_settle"
  BY DEF SettlingJob, ResolvingJob, Bit
<1>2. Effect(e, Enqueue(e, j), o, j.p, 1, 0)
  BY <1>1, EnqueueEffect DEF Short
<1>3. Short(Enqueue(e, j), o, t, cs, j.p, 1 - 1, 0 - 0)
  BY <1>2, EffectShort
<1>4. j.p \in Promise
  BY DEF Short
<1> QED
  BY <1>3, <1>4, BookIsShort

LEMMA PutThenable ==
    ASSUME NEW e, NEW o, NEW t, NEW cs, NEW p, NEW r,
           o[p] # "free", Short(e, o, t, cs, p, 0, r), r = 1 \/ p \in t
    PROVE  Book(Enqueue(e, Job("assimilate_thenable", p, 0, "none")), o, t, cs)
<1> DEFINE j == Job("assimilate_thenable", p, 0, "none")
<1>1. Short(e, o, t, cs, p, 0, 1) /\ p \in Promise /\ o[p] \in Origins
  BY AnyResolutions DEF Short, Handled
<1>2. j \in JobsOf(o) /\ j.kind = "assimilate_thenable" /\ j.p = p
  BY <1>1 DEF Job, JobsOf, Item, JobKind, Source
<1> HIDE DEF j
<1>3. Bit(j.kind \in SettlingJob) = 0 /\ Bit(j.kind \in ResolvingJob) = 1 /\ j.kind # "aggregate_settle"
  BY <1>2 DEF SettlingJob, ResolvingJob, Bit
<1>4. Effect(e, Enqueue(e, j), o, p, 0, 1)
  BY <1>1, <1>2, <1>3, EnqueueEffect DEF Short
<1>5. Short(Enqueue(e, j), o, t, cs, p, 0 - 0, 1 - 1)
  BY <1>1, <1>4, EffectShort
<1>6. Book(Enqueue(e, j), o, t, cs)
  BY <1>1, <1>5, BookIsShort
<1> QED
  BY <1>6 DEF j

LEMMA PutAttach ==
    ASSUME NEW e, NEW o, NEW t, NEW cs, NEW q \in Promise, NEW w \in WaitersOf(o),
           w.kind \in SettlingWaiter, Short(e, o, t, cs, w.p, 1, 0)
    PROVE  Book(Attach(e, q, w), o, t, cs)
<1>1. CASE e.promises[q] \in Unsettled
  BY <1>1, PutWaiter DEF Attach
<1>2. CASE e.promises[q] \notin Unsettled
  <2> DEFINE j == JobOf(w, e.promises[q])
  <2>1. e.promises[q] \in Settled
    BY <1>2 DEF Short, Typed
  <2>2. j \in JobsOf(o)
    BY <2>1, JobsOfWaiters
  <2>3. j.kind \in SettlingJob /\ j.p = w.p
    BY DEF JobOf, Job, SettlingJob, SettlingWaiter
  <2>4. Attach(e, q, w) = Enqueue(e, j)
    BY <1>2 DEF Attach
  <2> HIDE DEF j
  <2> QED
    BY <2>2, <2>3, <2>4, PutJob
<1> QED
  BY <1>1, <1>2

LEMMA TakeJob ==
    ASSUME NEW e, NEW o, NEW t, NEW cs, Book(e, o, t, cs), e.jobs # <<>>,
           Head(e.jobs).kind # "aggregate_settle"
    PROVE  LET j == Head(e.jobs)
           IN  /\ j \in JobsOf(o)
               /\ Short([e EXCEPT !.jobs = Tail(@)], o, t, cs, j.p,
                        Bit(j.kind \in SettlingJob), Bit(j.kind \in ResolvingJob))
<1> DEFINE f == [e EXCEPT !.jobs = Tail(@)]
           j == Head(e.jobs)
           a == Bit(j.kind \in SettlingJob)
           b == Bit(j.kind \in ResolvingJob)
<1>1. Typed(e, o)
  BY DEF Book
<1>2. j \in JobsOf(o) /\ Effect(e, f, o, j.p, -a, -b)
  BY <1>1, TookEffect
<1>3. j.p \in Promise
  BY <1>2 DEF JobsOf, Item
<1>4. a \in Nat /\ b \in Nat
  BY DEF Bit
<1> HIDE DEF f, j, a, b
<1>5. Short(e, o, t, cs, j.p, 0, 0)
  BY <1>3, BookIsShort
<1>6. -a \in Int /\ -b \in Int /\ 0 - (-a) = a /\ 0 - (-b) = b
  BY <1>4
<1>7. Short(f, o, t, cs, j.p, 0 - (-a), 0 - (-b))
  BY <1>2, <1>5, <1>6, EffectShort
<1>8. Short(f, o, t, cs, j.p, a, b)
  BY <1>6, <1>7
<1> QED
  BY <1>2, <1>8 DEF f, j, a, b

LEMMA TakeSync ==
    ASSUME NEW e, NEW o, NEW t, NEW cs, Book(e, o, t, cs), e.sync_jobs # <<>>
    PROVE  LET p == Head(e.sync_jobs)
           IN  /\ p \in Promise /\ o[p] # "free"
               /\ Short([e EXCEPT !.sync_jobs = Tail(@)], o, t, cs, p, 0, 1)
<1> DEFINE f == [e EXCEPT !.sync_jobs = Tail(@)]
           p == Head(e.sync_jobs)
<1>1. p \in Promise /\ o[p] # "free" /\ Effect(e, f, o, p, 0, -1)
  BY TookSyncEffect DEF Book
<1> HIDE DEF f, p
<1>2. Short(e, o, t, cs, p, 0, 0)
  BY <1>1, BookIsShort
<1>3. Short(f, o, t, cs, p, 0 - 0, 0 - (-1))
  BY <1>1, <1>2, EffectShort
<1>4. 0 - 0 = 0 /\ 0 - (-1) = 1
  OBVIOUS
<1> QED
  BY <1>1, <1>3, <1>4 DEF f, p

(* Settling what was taken.                                                   *)
LEMMA SettleShort ==
    ASSUME NEW e, NEW o, NEW t, NEW cs, NEW p, Short(e, o, t, cs, p, 1, 0),
           NEW r \in Result, NEW then
    PROVE  Book(Settle(e, p, r, then), o, t, cs)
<1>1. /\ Typed(e, o) /\ Handled(o, t, cs) /\ p \in Promise
      /\ BalancedBut(e, o, t, cs, p) /\ BalancedAt(e, o, t, cs, p, 1, 0)
  BY DEF Short
<1>2. Bare(e, o, t, cs, p)
  BY <1>1, ShortIsBare
<1> QED
  BY <1>1, <1>2, SettleBare DEF Book

LEMMA AssimilateShort ==
    ASSUME NEW e, NEW o, NEW t, NEW cs, NEW p, NEW r, Short(e, o, t, cs, p, 0, r), r = 1 \/ p \in t,
           NEW x \in Result, NEW then
    PROVE  /\ Book(SettleAssimilated(e, p, x, then), o, t, cs)
           /\ Book(FulfillAssimilated(e, p), o, t, cs)
<1>1. /\ Typed(e, o) /\ Handled(o, t, cs) /\ p \in Promise
      /\ BalancedBut(e, o, t, cs, p) /\ BalancedAt(e, o, t, cs, p, 0, r)
  BY DEF Short
<1> QED
  BY <1>1, AssimilatedBalance DEF Book
-----------------------------------------------------------------------------
(* Boundaries: JavaScript is entered for p, and left.                         *)
SettlingBoundary == {"async", "then", "finally"}
Shifts(cs, ds, p, a, b) ==
    \A x \in Promise :
        /\ Count(ds, Settles(x).b) = Count(cs, Settles(x).b) + (IF x = p THEN a ELSE 0)
        /\ Count(ds, Resolves(x).b) = Count(cs, Resolves(x).b) + (IF x = p THEN b ELSE 0)

LEMMA BoundaryClass ==
    ASSUME NEW b \in Boundary, NEW x
    PROVE  /\ b \in Settles(x).b <=> b.kind \in SettlingBoundary /\ b.p = x
           /\ b \in Resolves(x).b <=> b.kind = "getter" /\ b.p = x
BY DEF Settles, Resolves, Class, At, SettlingBoundary

LEMMA CallersShort ==
    ASSUME NEW e, NEW o, NEW t, NEW cs, NEW p, NEW s \in Int, NEW r \in Int,
           Short(e, o, t, cs, p, s, r),
           NEW u, NEW ds, Handled(o, u, ds), t \subseteq u,
           NEW a \in Int, NEW b \in Int, Shifts(cs, ds, p, a, b)
    PROVE  Short(e, o, u, ds, p, s - a, r - b)
<1>1. Typed(e, o) /\ Handled(o, t, cs) /\ p \in Promise
  BY DEF Short
<1>2. ASSUME NEW x \in Promise \ {p}
      PROVE  BalancedAt(e, o, u, ds, x, 0, 0)
  <2>1. Count(cs, Settles(x).b) \in Nat /\ Count(cs, Resolves(x).b) \in Nat
    BY <1>1, SettlersAreNat
  <2>2. SameAt(e, o, cs, e, o, ds, x)
    BY <2>1 DEF Shifts, SameAt
  <2>3. BalancedAt(e, o, t, cs, x, 0, 0)
    BY DEF Short, BalancedBut
  <2> QED
    BY <2>2, <2>3, SameBalance
<1>3. BalancedAt(e, o, u, ds, p, s - a, r - b)
  <2>1. /\ Load(e, Settles(p)) \in Nat /\ Load(e, Resolves(p)) \in Nat
        /\ Count(cs, Settles(p).b) \in Nat /\ Count(cs, Resolves(p).b) \in Nat
    BY <1>1, SettlersAreNat
  <2>2. /\ Count(ds, Settles(p).b) = Count(cs, Settles(p).b) + a
        /\ Count(ds, Resolves(p).b) = Count(cs, Resolves(p).b) + b
    BY <1>1 DEF Shifts
  <2>3. SettlersIn(e, ds, p) = SettlersIn(e, cs, p) + a /\ SettlersIn(e, cs, p) \in Nat
    BY <2>1, <2>2 DEF SettlersIn, Bit
  <2>4. ResolversIn(e, ds, p) = ResolversIn(e, cs, p) + b /\ ResolversIn(e, cs, p) \in Nat
    BY <2>1, <2>2 DEF ResolversIn
  <2>5. BalancedAt(e, o, t, cs, p, s, r)
    BY DEF Short
  <2> QED
    BY <2>3, <2>4, <2>5 DEF BalancedAt, Bit
<1> QED
  BY <1>1, <1>2, <1>3 DEF Short, BalancedBut

LEMMA HeadShifts ==
    ASSUME NEW o, NEW S \in SUBSET Boundary, NEW cs \in Seq(S), cs # <<>>, NEW x
    PROVE  LET b == Head(cs)
           IN  /\ b \in S /\ Tail(cs) \in Seq(S)
               /\ Count(cs, Settles(x).b)
                    = Count(Tail(cs), Settles(x).b) + Bit(b.kind \in SettlingBoundary /\ b.p = x)
               /\ Count(cs, Resolves(x).b)
                    = Count(Tail(cs), Resolves(x).b) + Bit(b.kind = "getter" /\ b.p = x)
               /\ Count(Tail(cs), Settles(x).b) \in Nat /\ Count(Tail(cs), Resolves(x).b) \in Nat
<1>1. /\ Head(cs) \in S /\ Tail(cs) \in Seq(S)
      /\ \A X : Count(cs, X) = Count(Tail(cs), X) + Bit(Head(cs) \in X)
  BY CountPopped
<1>2. \A X : Count(Tail(cs), X) \in Nat
  BY <1>1, CountIsNat
<1> DEFINE h == Head(cs)
<1>3. h \in Boundary
  BY <1>1
<1> HIDE DEF h
<1>4. /\ h \in Settles(x).b <=> h.kind \in SettlingBoundary /\ h.p = x
      /\ h \in Resolves(x).b <=> h.kind = "getter" /\ h.p = x
  BY <1>3, BoundaryClass
<1>5. /\ Bit(h \in Settles(x).b) = Bit(h.kind \in SettlingBoundary /\ h.p = x)
      /\ Bit(h \in Resolves(x).b) = Bit(h.kind = "getter" /\ h.p = x)
  BY <1>4 DEF Bit
<1>6. /\ Count(cs, Settles(x).b) = Count(Tail(cs), Settles(x).b) + Bit(h \in Settles(x).b)
      /\ Count(cs, Resolves(x).b) = Count(Tail(cs), Resolves(x).b) + Bit(h \in Resolves(x).b)
  BY <1>1 DEF h
<1> QED
  BY <1>1, <1>2, <1>5, <1>6 DEF h

LEMMA TailHandled ==
    ASSUME NEW o, NEW t, NEW cs, Handled(o, t, cs), cs # <<>>
    PROVE  /\ Handled(o, t, Tail(cs)) /\ Head(cs) \in BoundariesOf(o)
           /\ Head(cs).kind = "thenable" => Head(cs).p \in t
<1> DEFINE S == BoundariesOf(o)
<1>1. cs \in Seq(S)
  BY DEF Handled
<1> HIDE DEF S
<1>2. /\ Head(cs) \in S /\ Head(cs) = cs[1] /\ 1 \in DOMAIN cs /\ Tail(cs) \in Seq(S)
      /\ \A i \in DOMAIN Tail(cs) : i + 1 \in DOMAIN cs /\ Tail(cs)[i] = cs[i + 1]
  BY <1>1, Popped
<1> QED
  BY <1>2 DEF Handled, S

(* The innermost boundary is left.                                            *)
LEMMA TakeRoot ==
    ASSUME NEW e, NEW o, NEW t, NEW cs, Book(e, o, t, cs), cs # <<>>, Head(cs).kind = "root"
    PROVE  Book(e, o, t, Tail(cs))
<1>1. Handled(o, t, cs) /\ cs \in Seq(BoundariesOf(o))
  BY DEF Book, Handled
<1>2. Handled(o, t, Tail(cs))
  BY <1>1, TailHandled
<1>3. BoundariesOf(o) \in SUBSET Boundary
  BY DEF BoundariesOf
<1>4. ASSUME NEW x \in Promise
      PROVE  BalancedAt(e, o, t, Tail(cs), x, 0, 0)
  <2>1. /\ Count(cs, Settles(x).b)
            = Count(Tail(cs), Settles(x).b)
              + Bit(Head(cs).kind \in SettlingBoundary /\ Head(cs).p = x)
        /\ Count(cs, Resolves(x).b)
            = Count(Tail(cs), Resolves(x).b) + Bit(Head(cs).kind = "getter" /\ Head(cs).p = x)
        /\ Count(Tail(cs), Settles(x).b) \in Nat /\ Count(Tail(cs), Resolves(x).b) \in Nat
    BY <1>1, <1>3, HeadShifts
  <2>2. SameAt(e, o, cs, e, o, Tail(cs), x)
    BY <2>1 DEF SameAt, Bit, SettlingBoundary
  <2>3. BalancedAt(e, o, t, cs, x, 0, 0)
    BY DEF Book, Balanced
  <2> QED
    BY <2>2, <2>3, SameBalance
<1> QED
  BY <1>2, <1>4 DEF Book, Balanced

SettlersOf(b) == IF b.kind \in SettlingBoundary THEN 1 ELSE 0
ResolutionsOf(b) == IF b.kind = "getter" THEN 1 ELSE 0

LEMMA TakeCaller ==
    ASSUME NEW e, NEW o, NEW t, NEW cs, Book(e, o, t, cs), cs # <<>>, Head(cs).kind # "root"
    PROVE  LET b == Head(cs)
           IN  /\ b \in BoundariesOf(o)
               /\ b.kind = "thenable" => b.p \in t
               /\ Short(e, o, t, Tail(cs), b.p,
                        SettlersOf(b), ResolutionsOf(b))
<1> DEFINE b == Head(cs)
           c == SettlersOf(b)
           d == ResolutionsOf(b)
<1>1. Handled(o, t, cs) /\ cs \in Seq(BoundariesOf(o))
  BY DEF Book, Handled
<1>2. Handled(o, t, Tail(cs)) /\ b \in BoundariesOf(o) /\ (b.kind = "thenable" => b.p \in t)
  BY <1>1, TailHandled
<1>3. BoundariesOf(o) \in SUBSET Boundary /\ b.p \in Promise
  BY <1>2 DEF BoundariesOf
<1>4. Shifts(cs, Tail(cs), b.p, -c, -d)
  <2>1. ASSUME NEW x \in Promise
        PROVE  /\ Count(Tail(cs), Settles(x).b) = Count(cs, Settles(x).b) + (IF x = b.p THEN -c ELSE 0)
               /\ Count(Tail(cs), Resolves(x).b) = Count(cs, Resolves(x).b) + (IF x = b.p THEN -d ELSE 0)
    <3>1. /\ Count(cs, Settles(x).b)
              = Count(Tail(cs), Settles(x).b) + Bit(b.kind \in SettlingBoundary /\ b.p = x)
          /\ Count(cs, Resolves(x).b)
              = Count(Tail(cs), Resolves(x).b) + Bit(b.kind = "getter" /\ b.p = x)
          /\ Count(Tail(cs), Settles(x).b) \in Nat /\ Count(Tail(cs), Resolves(x).b) \in Nat
      BY <1>1, <1>3, HeadShifts
    <3> HIDE DEF b
    <3> QED
      BY <3>1 DEF Bit, SettlersOf, ResolutionsOf
  <2> QED
    BY <2>1 DEF Shifts
<1>5. c \in Nat /\ d \in Nat
  BY DEF SettlersOf, ResolutionsOf
<1> HIDE DEF b, c, d
<1>6. Short(e, o, t, cs, b.p, 0, 0)
  BY <1>3, BookIsShort
<1>7. -c \in Int /\ -d \in Int /\ 0 - (-c) = c /\ 0 - (-d) = d
  BY <1>5
<1>8. Short(e, o, t, Tail(cs), b.p, 0 - (-c), 0 - (-d))
  BY <1>2, <1>4, <1>6, <1>7, CallersShort
<1>9. Short(e, o, t, Tail(cs), b.p, c, d)
  BY <1>7, <1>8
<1> QED
  BY <1>2, <1>9 DEF b, c, d

(* And a new one is entered, for a promise with a settler or a resolution     *)
(* taken; a thenable gets resolvers of its own.                               *)
LEMMA PushHandled ==
    ASSUME NEW o, NEW t, NEW cs, Handled(o, t, cs), NEW b \in BoundariesOf(o), b.kind # "root",
           NEW u \in {t, t \cup {b.p}}, b.kind = "thenable" => b.p \in u
    PROVE  Handled(o, u, <<b>> \o cs)
<1> DEFINE S == BoundariesOf(o)
           ds == <<b>> \o cs
<1>1. cs \in Seq(S) /\ b \in S
  BY DEF Handled
<1>2. b.p \in Promise /\ o[b.p] # "free"
  BY DEF BoundariesOf, Source, Origins, Handled
<1> HIDE DEF S
<1>3. /\ ds \in Seq(S)
      /\ \A i \in DOMAIN ds : ds[i] = b \/ \E k \in DOMAIN cs : ds[i] = cs[k]
  <2>1. <<b>> \in Seq(S) /\ Len(<<b>>) = 1 /\ <<b>>[1] = b
    BY <1>1
  <2>2. /\ ds \in Seq(S) /\ Len(ds) = 1 + Len(cs)
        /\ ds[1] = b /\ \A i \in 2..Len(ds) : ds[i] = cs[i - 1]
    BY <1>1, <2>1
  <2>3. DOMAIN ds = 1..Len(ds) /\ DOMAIN cs = 1..Len(cs) /\ Len(cs) \in Nat
    BY <1>1, <2>2, LenProperties
  <2> HIDE DEF ds
  <2>4. ASSUME NEW i \in DOMAIN ds, i # 1
        PROVE  i - 1 \in DOMAIN cs /\ ds[i] = cs[i - 1]
    BY <2>2, <2>3, <2>4
  <2> QED
    BY <2>2, <2>4
<1> HIDE DEF ds
<1> QED
  BY <1>2, <1>3 DEF Handled, S, ds

MayEnter(b, t, u, r) ==
    /\ b.kind # "root" /\ u \in {t, t \cup {b.p}}
    /\ b.kind = "thenable" => b.p \in u
    /\ r = ResolutionsOf(b) \/ b.p \in u

LEMMA PushCaller ==
    ASSUME NEW e, NEW o, NEW t, NEW cs, NEW b \in BoundariesOf(o), NEW u, NEW r \in Int,
           Short(e, o, t, cs, b.p, SettlersOf(b), r), MayEnter(b, t, u, r)
    PROVE  Book(e, o, u, <<b>> \o cs)
<1>0. /\ b.kind # "root" /\ u \in {t, t \cup {b.p}}
      /\ b.kind = "thenable" => b.p \in u
      /\ r = ResolutionsOf(b) \/ b.p \in u
  BY DEF MayEnter
<1> DEFINE ds == <<b>> \o cs
           c == SettlersOf(b)
           d == ResolutionsOf(b)
<1>1. Handled(o, t, cs) /\ cs \in Seq(BoundariesOf(o)) /\ b.p \in Promise
  BY DEF Short, Handled
<1>2. Handled(o, u, ds) /\ t \subseteq u
  BY <1>0, <1>1, PushHandled
<1>3. c \in Nat /\ d \in Nat
  BY DEF SettlersOf, ResolutionsOf
<1>4. Shifts(cs, ds, b.p, c, d)
  <2>1. \A X : /\ Count(ds, X) = Count(cs, X) + Bit(b \in X)
               /\ Count(cs, X) \in Nat
    <3> DEFINE S == BoundariesOf(o)
    <3>1. cs \in Seq(S) /\ b \in S
      BY <1>1
    <3> HIDE DEF S
    <3> QED
      BY <3>1, CountPushed, CountIsNat
  <2>2. b \in Boundary
    BY DEF BoundariesOf
  <2> HIDE DEF ds
  <2>3. ASSUME NEW x \in Promise
        PROVE  /\ Count(ds, Settles(x).b) = Count(cs, Settles(x).b) + (IF x = b.p THEN c ELSE 0)
               /\ Count(ds, Resolves(x).b) = Count(cs, Resolves(x).b) + (IF x = b.p THEN d ELSE 0)
    <3>1. /\ b \in Settles(x).b <=> b.kind \in SettlingBoundary /\ b.p = x
          /\ b \in Resolves(x).b <=> b.kind = "getter" /\ b.p = x
      BY <2>2, BoundaryClass
    <3> QED
      BY <2>1, <3>1 DEF Bit, SettlersOf, ResolutionsOf
  <2> QED
    BY <2>3 DEF Shifts
<1> HIDE DEF ds, c, d
<1>5. Short(e, o, t, cs, b.p, c, r)
  BY DEF c
<1>6. Short(e, o, u, ds, b.p, c - c, r - d)
  BY <1>2, <1>3, <1>4, <1>5, CallersShort
<1>7. Short(e, o, u, ds, b.p, 0, 0)
  <2>1. c - c = 0 /\ (r = d => r - d = 0)
    BY <1>3
  <2>2. CASE r = d
    BY <1>6, <2>1, <2>2
  <2>3. CASE b.p \in u
    BY <1>6, <2>1, <2>3, AnyResolutions
  <2> QED
    BY <1>0, <2>2, <2>3 DEF d
<1>8. Book(e, o, u, ds)
  BY <1>1, <1>7, BookIsShort
<1> QED
  BY <1>8 DEF ds
-----------------------------------------------------------------------------
(* A promise is made.  Nothing concerns one that is not made yet.             *)
Owing == {"async", "reaction", "aggregate", "host"}

LEMMA SeqOfMore ==
    ASSUME NEW S, NEW T, S \subseteq T, NEW seq \in Seq(S)
    PROVE  seq \in Seq(T)
<1>1. /\ DOMAIN seq = 1..Len(seq) /\ Len(seq) \in Nat /\ \A i \in 1..Len(seq) : seq[i] \in S
      /\ seq = [i \in 1..Len(seq) |-> seq[i]]
  BY LenProperties, ElementOfSeq
<1> QED
  BY <1>1

LEMMA MadeIsMore ==
    ASSUME NEW o \in [Promise -> Origins \cup {"free"}], NEW p \in Promise, o[p] = "free",
           NEW how \in Origins, NEW n, n = [o EXCEPT ![p] = how]
    PROVE  /\ WaitersOf(o) \subseteq WaitersOf(n) /\ JobsOf(o) \subseteq JobsOf(n)
           /\ BoundariesOf(o) \subseteq BoundariesOf(n)
           /\ n \in [Promise -> Origins \cup {"free"}] /\ n[p] = how
           /\ \A x \in Promise \ {p} : n[x] = o[x]
<1>1. /\ n \in [Promise -> Origins \cup {"free"}] /\ n[p] = how
      /\ \A x \in Promise \ {p} : n[x] = o[x]
  OBVIOUS
<1>2. \A kind : o[p] \notin Source(kind)
  BY DEF Source, Origins
<1>3. \A kind : \A x \in Promise : o[x] \in Source(kind) => n[x] \in Source(kind)
  BY <1>1, <1>2
<1>4. WaitersOf(o) \subseteq WaitersOf(n)
  BY <1>3 DEF WaitersOf, Item
<1>5. JobsOf(o) \subseteq JobsOf(n)
  BY <1>3 DEF JobsOf, Item
<1>6. BoundariesOf(o) \subseteq BoundariesOf(n)
  BY <1>3 DEF BoundariesOf
<1> QED
  BY <1>1, <1>4, <1>5, <1>6

LEMMA NothingOfTheFree ==
    ASSUME NEW e, NEW o, Typed(e, o), NEW p \in Promise, o[p] = "free", NEW i
    PROVE  Load(e, Reports(p, i)) = 0
<1> DEFINE X == Reports(p, i)
           S == WaitersOf(o)
           ws == e.promise_waiters
<1>0. \A kind : o[p] \notin Source(kind)
  BY DEF Source, Origins
<1>1. ASSUME NEW w \in S
      PROVE  w \notin X.w
  <2>1. w \in X.w => w.p = p
    BY WaiterClass
  <2>2. o[w.p] \in Source(w.kind)
    BY DEF WaitersOf
  <2> QED
    BY <1>0, <2>1, <2>2
<1>2. ASSUME NEW j \in JobsOf(o)
      PROVE  j \notin X.j
  <2>1. j \in X.j => j.p = p
    BY JobClass
  <2>2. o[j.p] \in Source(j.kind)
    BY DEF JobsOf
  <2> QED
    BY <1>0, <2>1, <2>2
<1>3. Count(e.jobs, X.j) = 0
  <2>1. e.jobs \in Seq(JobsOf(o))
    BY DEF Typed
  <2>2. \A k \in DOMAIN e.jobs : e.jobs[k] \in JobsOf(o)
    BY <2>1
  <2> QED
    BY <1>2, <2>1, <2>2, CountIsNat
<1>4. Count(e.sync_jobs, X.s) = 0
  <2>1. X.s = {}
    BY DEF Reports, Class
  <2>2. Positions(e.sync_jobs, {}) = {}
    BY DEF Positions
  <2> QED
    BY <2>1, <2>2, FS_EmptySet DEF Count
<1>5. Cardinality(Places(ws, X.w)) = 0
  <2>1. ws \in [Promise -> Seq(S)]
    BY DEF Typed
  <2> HIDE DEF X, ws, S
  <2>2. \A q \in Promise : Positions(ws[q], X.w) = {}
    <3> SUFFICES ASSUME NEW q \in Promise
                 PROVE  Positions(ws[q], X.w) = {}
      OBVIOUS
    <3>1. \A k \in DOMAIN ws[q] : ws[q][k] \in S
      BY <2>1, LenProperties, ElementOfSeq
    <3> QED
      BY <1>1, <3>1 DEF Positions
  <2>3. Places(ws, X.w) = {}
    BY <2>2 DEF Places, PlacesIn
  <2> QED
    BY <2>3, FS_EmptySet
<1> QED
  BY <1>3, <1>4, <1>5 DEF Load

LEMMA MakeTyped ==
    ASSUME NEW e, NEW o, NEW t, NEW cs, Typed(e, o), Handled(o, t, cs), NEW p \in Promise, o[p] = "free",
           NEW how \in Origins, NEW n, n = [o EXCEPT ![p] = how]
    PROVE  Typed(e, n) /\ Handled(n, t, cs)
<1>1. o \in [Promise -> Origins \cup {"free"}]
  BY DEF Handled
<1>2. /\ WaitersOf(o) \subseteq WaitersOf(n) /\ JobsOf(o) \subseteq JobsOf(n)
      /\ BoundariesOf(o) \subseteq BoundariesOf(n)
      /\ n \in [Promise -> Origins \cup {"free"}] /\ n[p] = how
      /\ \A x \in Promise \ {p} : n[x] = o[x]
  BY <1>1, MadeIsMore
<1>3. n[p] # "free" /\ \A x \in Promise : o[x] # "free" => n[x] = o[x]
  BY <1>2 DEF Origins
<1>4. e.promise_waiters \in [Promise -> Seq(WaitersOf(n))]
  <2> DEFINE S == WaitersOf(o)
             T == WaitersOf(n)
             ws == e.promise_waiters
  <2>1. ws \in [Promise -> Seq(S)] /\ S \subseteq T
    BY <1>2 DEF Typed
  <2> HIDE DEF S, T, ws
  <2>2. \A q \in Promise : ws[q] \in Seq(T)
    BY <2>1, SeqOfMore
  <2>3. ws \in [Promise -> Seq(T)]
    BY <2>1, <2>2
  <2> QED
    BY <2>3 DEF ws, T
<1>5. e.jobs \in Seq(JobsOf(n))
  BY <1>2, SeqOfMore DEF Typed
<1>6. e.sync_jobs \in Seq({x \in Promise : n[x] # "free"})
  <2>1. {x \in Promise : o[x] # "free"} \subseteq {x \in Promise : n[x] # "free"}
    BY <1>3
  <2> QED
    BY <2>1, SeqOfMore DEF Typed
<1>7. cs \in Seq(BoundariesOf(n))
  BY <1>2, SeqOfMore DEF Handled
<1>8. Typed(e, n)
  <2>1. \A a \in Promise : o[a] = "aggregate" => n[a] = "aggregate"
    BY <1>3
  <2>2. \A a \in Promise : o[a] = "host" => n[a] = "host"
    BY <1>3
  <2> QED
    BY <1>4, <1>5, <1>6, <2>1, <2>2 DEF Typed
<1>9. Handled(n, t, cs)
  <2>1. t \in SUBSET {x \in Promise : n[x] # "free"}
    BY <1>3 DEF Handled
  <2> QED
    BY <1>2, <1>7, <2>1 DEF Handled
<1> QED
  BY <1>8, <1>9

Owes(how) == IF how \in Owing THEN 1 ELSE 0
Makes(o, n, p, how) == how \in Origins /\ o[p] = "free" /\ n = [o EXCEPT ![p] = how]

LEMMA MakeShort ==
    ASSUME NEW e, NEW o, NEW t, NEW cs, Book(e, o, t, cs), NEW p \in Promise, NEW how,
           NEW n, Makes(o, n, p, how)
    PROVE  /\ Short(e, n, t, cs, p, Owes(how), 0)
           /\ n[p] = how /\ e.promises[p] = "pending"
           /\ \A i : Load(e, Reports(p, i)) = 0
<1>0. how \in Origins /\ o[p] = "free" /\ n = [o EXCEPT ![p] = how]
  BY DEF Makes
<1>1. Typed(e, o) /\ Handled(o, t, cs) /\ Typed(e, n) /\ Handled(n, t, cs)
  BY <1>0, MakeTyped DEF Book
<1>2. n[p] = how /\ \A x \in Promise \ {p} : n[x] = o[x]
  BY <1>0, <1>1 DEF Handled
<1>3. ASSUME NEW x \in Promise \ {p}
      PROVE  BalancedAt(e, n, t, cs, x, 0, 0)
  <2>1. SameAt(e, o, cs, e, n, cs, x)
    BY <1>2 DEF SameAt
  <2>2. BalancedAt(e, o, t, cs, x, 0, 0)
    BY DEF Book, Balanced
  <2> QED
    BY <2>1, <2>2, SameBalance
<1>4. BalancedAt(e, o, t, cs, p, 0, 0)
  BY DEF Book, Balanced
<1>5. e.promises[p] = "pending" /\ SettlersIn(e, cs, p) = 0
  BY <1>0, <1>4 DEF BalancedAt, Owed, Bit
<1>6. BalancedAt(e, n, t, cs, p, Owes(how), 0)
  <2>1. p \notin DOMAIN e.promise_aggregates
    BY <1>0, <1>1 DEF Typed
  <2>2. how # "free"
    BY <1>0 DEF Origins
  <2>3. Owed(e, n, p) <=> how \in Owing
    BY <1>2, <1>5 DEF Owed, Owing
  <2>4. Bit(Owed(e, n, p)) - Owes(how) = 0
    BY <2>3 DEF Bit, Owes
  <2>5. p \notin t => ResolversIn(e, cs, p) = Bit(e.promises[p] = "resolving") - 0
    BY <1>4 DEF BalancedAt
  <2> QED
    BY <1>2, <1>5, <2>1, <2>2, <2>4, <2>5 DEF BalancedAt
<1>7. \A i : Load(e, Reports(p, i)) = 0
  BY <1>0, <1>1, NothingOfTheFree
<1> QED
  BY <1>1, <1>2, <1>3, <1>5, <1>6, <1>7 DEF Short, BalancedBut

LEMMA MakePlain ==
    ASSUME NEW e, NEW o, NEW t, NEW cs, Book(e, o, t, cs), NEW p \in Promise, NEW how,
           NEW n, Makes(o, n, p, how), how \notin Owing
    PROVE  Book(e, n, t, cs) /\ n[p] = how
<1>1. Owes(how) = 0
  BY DEF Owes
<1>2. Short(e, n, t, cs, p, Owes(how), 0) /\ n[p] = how
  BY MakeShort
<1> QED
  BY <1>1, <1>2, BookIsShort

LEMMA MakeOwing ==
    ASSUME NEW e, NEW o, NEW t, NEW cs, Book(e, o, t, cs), NEW p \in Promise, NEW how,
           NEW n, Makes(o, n, p, how), how \in Owing
    PROVE  /\ Short(e, n, t, cs, p, 1, 0) /\ n[p] = how /\ e.promises[p] = "pending"
           /\ \A i : Load(e, Reports(p, i)) = 0
<1>1. Owes(how) = 1
  BY DEF Owes
<1> QED
  BY <1>1, MakeShort
-----------------------------------------------------------------------------
(* An operation of the host starts, and its reply is received.                *)
LEMMA AddOperation ==
    ASSUME NEW e, NEW o, NEW t, NEW cs, NEW p, Short(e, o, t, cs, p, 1, 0), o[p] = "host"
    PROVE  Book([e EXCEPT !.operations = @ \cup {p}], o, t, cs)
<1> DEFINE f == [e EXCEPT !.operations = @ \cup {p}]
<1>1. /\ Typed(e, o) /\ Handled(o, t, cs) /\ p \in Promise
      /\ BalancedBut(e, o, t, cs, p) /\ BalancedAt(e, o, t, cs, p, 1, 0)
  BY DEF Short
<1>2. /\ f.operations = e.operations \cup {p} /\ f.promises = e.promises
      /\ f.promise_waiters = e.promise_waiters /\ f.jobs = e.jobs /\ f.sync_jobs = e.sync_jobs
      /\ f.promise_aggregates = e.promise_aggregates
      /\ f = [field \in Fields |-> f[field]]
  BY <1>1 DEF Typed, Execution, Fields
<1> HIDE DEF f
<1>3. Typed(f, o)
  BY <1>1, <1>2 DEF Typed, Execution
<1>4. \A X : Load(f, X) = Load(e, X)
  BY <1>2 DEF Load
<1>5. ASSUME NEW x \in Promise \ {p}
      PROVE  BalancedAt(f, o, t, cs, x, 0, 0)
  <2>1. SameAt(e, o, cs, f, o, cs, x)
    BY <1>2, <1>4 DEF SameAt
  <2>2. BalancedAt(e, o, t, cs, x, 0, 0)
    BY <1>1 DEF BalancedBut
  <2> QED
    BY <2>1, <2>2, SameBalance
<1>6. BalancedAt(f, o, t, cs, p, 0, 0)
  <2>1. Bare(e, o, t, cs, p) /\ Owed(e, o, p)
    BY <1>1, ShortIsBare
  <2>2. /\ Load(e, Settles(p)) \in Nat /\ Count(cs, Settles(p).b) \in Nat
    BY <1>1, SettlersAreNat
  <2>3. SettlersIn(e, cs, p) = 0
    BY <2>1 DEF Bare
  <2>4. p \notin e.operations /\ p \notin DOMAIN e.promise_aggregates
    BY <2>2, <2>3 DEF SettlersIn, Bit
  <2>5. SettlersIn(f, cs, p) = 1
    BY <1>2, <1>4, <2>2, <2>3, <2>4 DEF SettlersIn, Bit
  <2>6. ResolversIn(f, cs, p) = ResolversIn(e, cs, p)
    BY <1>4 DEF ResolversIn
  <2>7. Owed(f, o, p)
    BY <1>2, <2>1 DEF Owed
  <2> QED
    BY <1>1, <1>2, <2>4, <2>5, <2>6, <2>7 DEF BalancedAt, Bit
<1>7. Book(f, o, t, cs)
  BY <1>1, <1>3, <1>5, <1>6 DEF Book, Balanced
<1> QED
  BY <1>7 DEF f

LEMMA TakeOperation ==
    ASSUME NEW e, NEW o, NEW t, NEW cs, NEW p \in Promise, Book(e, o, t, cs), p \in e.operations
    PROVE  Short([e EXCEPT !.operations = @ \ {p}], o, t, cs, p, 1, 0)
<1> DEFINE f == [e EXCEPT !.operations = @ \ {p}]
<1>1. /\ Typed(e, o) /\ Handled(o, t, cs) /\ Balanced(e, o, t, cs)
  BY DEF Book
<1>2. /\ f.operations = e.operations \ {p} /\ f.promises = e.promises
      /\ f.promise_waiters = e.promise_waiters /\ f.jobs = e.jobs /\ f.sync_jobs = e.sync_jobs
      /\ f.promise_aggregates = e.promise_aggregates
      /\ f = [field \in Fields |-> f[field]]
  BY <1>1 DEF Typed, Execution, Fields
<1> HIDE DEF f
<1>3. Typed(f, o)
  BY <1>1, <1>2 DEF Typed, Execution
<1>4. \A X : Load(f, X) = Load(e, X)
  BY <1>2 DEF Load
<1>5. ASSUME NEW x \in Promise \ {p}
      PROVE  BalancedAt(f, o, t, cs, x, 0, 0)
  <2>1. SameAt(e, o, cs, f, o, cs, x)
    BY <1>2, <1>4 DEF SameAt
  <2>2. BalancedAt(e, o, t, cs, x, 0, 0)
    BY <1>1 DEF Balanced
  <2> QED
    BY <2>1, <2>2, SameBalance
<1>6. BalancedAt(f, o, t, cs, p, 1, 0)
  <2>1. BalancedAt(e, o, t, cs, p, 0, 0)
    BY <1>1 DEF Balanced
  <2>2. /\ Load(e, Settles(p)) \in Nat /\ Count(cs, Settles(p).b) \in Nat
    BY <1>1, SettlersAreNat
  <2>3. SettlersIn(e, cs, p) = Bit(Owed(e, o, p))
    BY <2>1, <2>2 DEF BalancedAt, Bit
  <2>4. p \notin DOMAIN e.promise_aggregates
    BY <1>1 DEF Typed
  <2>5. SettlersIn(f, cs, p) = Bit(Owed(e, o, p)) - 1
    BY <1>2, <1>4, <2>2, <2>3, <2>4 DEF SettlersIn, Bit
  <2>6. ResolversIn(f, cs, p) = ResolversIn(e, cs, p)
    BY <1>4 DEF ResolversIn
  <2>7. Owed(f, o, p) <=> Owed(e, o, p)
    BY <1>2 DEF Owed
  <2> QED
    BY <1>2, <2>1, <2>4, <2>5, <2>6, <2>7 DEF BalancedAt, Bit
<1>7. Short(f, o, t, cs, p, 1, 0)
  BY <1>1, <1>3, <1>5, <1>6 DEF Short, BalancedBut
<1> QED
  BY <1>7 DEF f
-----------------------------------------------------------------------------
(* Aggregates.  Numbers of elements.                                          *)
LEMMA OfTwo ==
    /\ \A S \in SUBSET (1..2) : S = {} \/ S = {1} \/ S = {2} \/ S = {1, 2}
    /\ Cardinality({}) = 0 /\ Cardinality({1}) = 1 /\ Cardinality({2}) = 1 /\ Cardinality({1, 2}) = 2
<1>1. ASSUME NEW S \in SUBSET (1..2)
      PROVE  S = {} \/ S = {1} \/ S = {2} \/ S = {1, 2}
  <2>1. \A x \in S : x = 1 \/ x = 2
    OBVIOUS
  <2> QED
    BY <2>1
<1>2. Cardinality({}) = 0
  BY FS_EmptySet
<1>3. Cardinality({1}) = 1 /\ Cardinality({2}) = 1
  BY FS_Singleton
<1>4. Cardinality({1, 2}) = 2
  <2>0. 2 \notin {1}
    OBVIOUS
  <2>1. IsFiniteSet({1})
    BY FS_Singleton
  <2>2. {1} \cup {2} = {1, 2}
    OBVIOUS
  <2>3. Cardinality({1} \cup {2}) = Cardinality({1}) + 1
    BY <2>0, <2>1, FS_AddElement
  <2> QED
    BY <1>3, <2>2, <2>3
<1> QED
  BY <1>1, <1>2, <1>3, <1>4

LEMMA InOrderOfTwo ==
    /\ \A i \in 1..2 : DOMAIN InOrder({i}) = 1..1 /\ InOrder({i})[1] = i
    /\ DOMAIN InOrder({1, 2}) = 1..2 /\ InOrder({1, 2})[1] = 1 /\ InOrder({1, 2})[2] = 2
<1>1. ASSUME NEW i \in 1..2
      PROVE  DOMAIN InOrder({i}) = 1..1 /\ InOrder({i})[1] = i
  <2> DEFINE f == [k \in 1..1 |-> i]
  <2>1. Cardinality({i}) = 1
    BY FS_Singleton
  <2>2. f \in [1..Cardinality({i}) -> {i}] /\ \A k, l \in DOMAIN f : k < l => f[k] < f[l]
    BY <2>1
  <2> HIDE DEF f
  <2>3. InOrder({i}) \in [1..Cardinality({i}) -> {i}]
    BY <2>2 DEF InOrder
  <2> QED
    BY <2>1, <2>3
<1>2. DOMAIN InOrder({1, 2}) = 1..2 /\ InOrder({1, 2})[1] = 1 /\ InOrder({1, 2})[2] = 2
  <2> DEFINE f == [k \in 1..2 |-> k]
             S == {1, 2}
             g == InOrder(S)
  <2>1. Cardinality(S) = 2
    BY OfTwo
  <2>2. f \in [1..Cardinality(S) -> S] /\ \A k, l \in DOMAIN f : k < l => f[k] < f[l]
    BY <2>1
  <2> HIDE DEF f
  <2>3. g \in [1..Cardinality(S) -> S] /\ \A k, l \in DOMAIN g : k < l => g[k] < g[l]
    <3> HIDE DEF S
    <3> QED
      BY <2>2 DEF InOrder
  <2>4. g \in [1..2 -> {1, 2}] /\ \A k, l \in DOMAIN g : k < l => g[k] < g[l]
    BY <2>1, <2>3
  <2> HIDE DEF g
  <2>5. g[1] \in {1, 2} /\ g[2] \in {1, 2} /\ g[1] < g[2] /\ DOMAIN g = 1..2
    BY <2>4
  <2> QED
    BY <2>5 DEF g
<1> QED
  BY <1>1, <1>2
-----------------------------------------------------------------------------
(* An aggregate is taken from the books and finished.                         *)
LEMMA FinishSettles ==
    ASSUME NEW e, NEW o, NEW t, NEW cs, NEW p \in Promise, Typed(e, o), Handled(o, t, cs),
           p \in DOMAIN e.promise_aggregates,
           BalancedBut(e, o, t, cs, p), SettlersIn(e, cs, p) = Bit(Owed(e, o, p)),
           p \notin t => ResolversIn(e, cs, p) = Bit(e.promises[p] = "resolving"),
           NEW r \in Result, NEW then
    PROVE  Book(Finish(e, p, r, then), o, t, cs)
<1> DEFINE ags == e.promise_aggregates
           less == [a \in DOMAIN ags \ {p} |-> ags[a]]
           f == [e EXCEPT !.promise_aggregates = less]
<1>0. Finish(e, p, r, then) = Settle(f, p, r, then)
  BY DEF Finish
<1>2. DOMAIN less = DOMAIN ags \ {p} /\ \A a \in DOMAIN less : less[a] = ags[a]
  OBVIOUS
<1>2a. less = [a \in DOMAIN less |-> less[a]]
  OBVIOUS
<1> HIDE DEF less
<1>1. /\ f.promise_aggregates = less /\ f.promises = e.promises
      /\ f.promise_waiters = e.promise_waiters /\ f.jobs = e.jobs /\ f.sync_jobs = e.sync_jobs
      /\ f.operations = e.operations
      /\ f = [field \in Fields |-> f[field]]
  BY DEF Typed, Execution, Fields
<1> HIDE DEF f
<1>4. Typed(f, o)
  <2>1. /\ f.promise_aggregates = [a \in DOMAIN f.promise_aggregates |-> f.promise_aggregates[a]]
        /\ \A a \in DOMAIN f.promise_aggregates :
              /\ a \in Promise /\ o[a] = "aggregate"
              /\ f.promise_aggregates[a] \in [kind : Kind, remaining : Nat]
    BY <1>1, <1>2, <1>2a DEF Typed
  <2> QED
    BY <1>1, <2>1 DEF Typed, Execution
<1>5. \A X : Load(f, X) = Load(e, X)
  BY <1>1 DEF Load
<1>6. ASSUME NEW x \in Promise \ {p}
      PROVE  BalancedAt(f, o, t, cs, x, 0, 0)
  <2>1. SameAt(e, o, cs, f, o, cs, x)
    BY <1>1, <1>2, <1>5 DEF SameAt
  <2>2. BalancedAt(e, o, t, cs, x, 0, 0)
    BY DEF BalancedBut
  <2> QED
    BY <2>1, <2>2, SameBalance
<1>7. Bare(f, o, t, cs, p)
  <2>1. Load(e, Settles(p)) \in Nat /\ Count(cs, Settles(p).b) \in Nat
    BY SettlersAreNat
  <2>2. /\ Owed(e, o, p)
        /\ Load(e, Settles(p)) + Count(cs, Settles(p).b) + Bit(p \in e.operations) = 0
    BY <2>1 DEF SettlersIn, Bit
  <2>3. SettlersIn(f, cs, p) = 0
    BY <1>1, <1>2, <1>5, <2>1, <2>2 DEF SettlersIn, Bit
  <2>4. ResolversIn(f, cs, p) = ResolversIn(e, cs, p)
    BY <1>5 DEF ResolversIn
  <2>5. e.promises[p] = "pending" /\ o[p] \in Origins
    BY <2>2 DEF Owed, Origins
  <2> QED
    BY <1>1, <1>6, <2>3, <2>4, <2>5 DEF Bare, BalancedBut, Bit
<1> QED
  BY <1>0, <1>4, <1>7, SettleBare DEF Book

(* Element i has just reported to p: the count is one too high.               *)
Reported(e, o, t, cs, p, i) ==
    /\ Typed(e, o) /\ Handled(o, t, cs) /\ p \in Promise /\ i \in 1..2
    /\ BalancedBut(e, o, t, cs, p)
    /\ o[p] # "free" /\ SettlersIn(e, cs, p) = Bit(Owed(e, o, p))
    /\ p \notin t => ResolversIn(e, cs, p) = Bit(e.promises[p] = "resolving")
    /\ p \in DOMAIN e.promise_aggregates =>
          /\ \A k \in 1..2 : Load(e, Reports(p, k)) <= 1
          /\ i \notin Unreported(e, p)
          /\ \/ e.promise_aggregates[p].remaining = Cardinality(Unreported(e, p) \cup {i})
             \/ e.promise_aggregates[p].kind = "race"

LEMMA TakeReport ==
    ASSUME NEW e, NEW o, NEW t, NEW cs, Book(e, o, t, cs), e.jobs # <<>>,
           Head(e.jobs).kind = "aggregate_settle"
    PROVE  LET j == Head(e.jobs)
           IN  /\ j \in JobsOf(o) /\ j.r \in Settled
               /\ Reported([e EXCEPT !.jobs = Tail(@)], o, t, cs, j.p, j.i)
<1> DEFINE f == [e EXCEPT !.jobs = Tail(@)]
           j == Head(e.jobs)
           p == j.p
<1>0. Typed(e, o) /\ Handled(o, t, cs) /\ Balanced(e, o, t, cs)
  BY DEF Book
<1>1. /\ Typed(f, o) /\ SameRest(e, f) /\ f.promises = e.promises /\ j \in JobsOf(o)
      /\ \A X : Load(f, X) = Load(e, X) - Bit(j \in X.j)
  BY <1>0, TookLoad
<1>2. j.kind = "aggregate_settle"
  OBVIOUS
<1> HIDE DEF f, j
<1>3. p \in Promise /\ j.i \in 1..2 /\ j.r \in Settled /\ o[p] = "aggregate"
  BY <1>1, <1>2 DEF JobsOf, Item, Source
<1>4. ASSUME NEW x \in Promise
      PROVE  /\ Load(f, Settles(x)) = Load(e, Settles(x))
             /\ Load(f, Resolves(x)) = Load(e, Resolves(x))
             /\ \A i \in 1..2 : Load(f, Reports(x, i))
                                  = Load(e, Reports(x, i)) - (IF x = p /\ i = j.i THEN 1 ELSE 0)
             /\ \A i \in 1..2 : Load(f, Reports(x, i)) \in Nat /\ Load(e, Reports(x, i)) \in Nat
  <2>1. /\ j \notin Settles(x).j /\ j \notin Resolves(x).j
        /\ \A i : j \in Reports(x, i).j <=> x = p /\ i = j.i
    BY <1>1, <1>2, JobClass
  <2>2. /\ Load(e, Settles(x)) \in Nat /\ Load(e, Resolves(x)) \in Nat
        /\ \A i : Load(e, Reports(x, i)) \in Nat /\ Load(f, Reports(x, i)) \in Nat
    BY <1>0, <1>1, LoadIsNat
  <2> QED
    BY <1>1, <2>1, <2>2 DEF Bit
<1>5. ASSUME NEW x \in Promise \ {p}
      PROVE  BalancedAt(f, o, t, cs, x, 0, 0)
  <2>0. \A i \in 1..2 : Load(f, Reports(x, i)) = Load(e, Reports(x, i))
    BY <1>4
  <2>1. SameAt(e, o, cs, f, o, cs, x)
    BY <1>1, <1>4, <2>0 DEF SameAt, SameRest
  <2>2. BalancedAt(e, o, t, cs, x, 0, 0)
    BY <1>0 DEF Balanced
  <2> QED
    BY <2>1, <2>2, SameBalance
<1>6. BalancedAt(e, o, t, cs, p, 0, 0)
  BY <1>0, <1>3 DEF Balanced
<1>7. /\ SettlersIn(f, cs, p) = SettlersIn(e, cs, p) /\ ResolversIn(f, cs, p) = ResolversIn(e, cs, p)
      /\ Owed(f, o, p) <=> Owed(e, o, p)
  BY <1>1, <1>3, <1>4 DEF SettlersIn, ResolversIn, SameRest, Owed
<1>8. SettlersIn(f, cs, p) = Bit(Owed(f, o, p))
  BY <1>0, <1>6, <1>7, SettlersAreNat DEF BalancedAt, Bit
<1>9. p \notin t => ResolversIn(f, cs, p) = Bit(f.promises[p] = "resolving")
  BY <1>0, <1>1, <1>6, <1>7, SettlersAreNat DEF BalancedAt, Bit
<1>10. ASSUME p \in DOMAIN f.promise_aggregates
       PROVE  /\ \A k \in 1..2 : Load(f, Reports(p, k)) <= 1
              /\ j.i \notin Unreported(f, p)
              /\ \/ f.promise_aggregates[p].remaining = Cardinality(Unreported(f, p) \cup {j.i})
                 \/ f.promise_aggregates[p].kind = "race"
  <2>1. Exact(e, p) /\ f.promise_aggregates = e.promise_aggregates
    BY <1>1, <1>6, <1>10 DEF BalancedAt, SameRest
  <2>2. \A k \in 1..2 : /\ Load(e, Reports(p, k)) <= 1
                        /\ Load(f, Reports(p, k)) = Load(e, Reports(p, k)) - (IF k = j.i THEN 1 ELSE 0)
                        /\ Load(f, Reports(p, k)) \in Nat /\ Load(e, Reports(p, k)) \in Nat
    BY <1>3, <1>4, <2>1 DEF Exact
  <2>3. /\ \A k \in 1..2 : Load(f, Reports(p, k)) <= 1
        /\ \A k \in 1..2 : k \in Unreported(f, p) <=> k \in Unreported(e, p) /\ k # j.i
        /\ j.i \in Unreported(e, p)
    BY <1>3, <2>2 DEF Unreported
  <2>4. Unreported(f, p) \cup {j.i} = Unreported(e, p)
    BY <1>3, <2>3 DEF Unreported
  <2> QED
    BY <1>3, <2>1, <2>3, <2>4 DEF Exact
<1>11. Reported(f, o, t, cs, p, j.i)
  BY <1>0, <1>1, <1>3, <1>5, <1>8, <1>9, <1>10 DEF Reported, BalancedBut
<1> QED
  BY <1>1, <1>3, <1>11 DEF f, j

LEMMA StoreReport ==
    ASSUME NEW e, NEW o, NEW t, NEW cs, NEW p, NEW i, Reported(e, o, t, cs, p, i),
           p \in DOMAIN e.promise_aggregates, e.promise_aggregates[p].kind # "race",
           e.promise_aggregates[p].remaining # 1
    PROVE  Book([e EXCEPT !.promise_aggregates[p].remaining = @ - 1], o, t, cs)
<1> DEFINE f == [e EXCEPT !.promise_aggregates[p].remaining = @ - 1]
           ags == e.promise_aggregates
           more == [ags EXCEPT ![p].remaining = @ - 1]
<1>0. Typed(e, o) /\ Handled(o, t, cs) /\ p \in Promise /\ i \in 1..2
  BY DEF Reported
<1>1. /\ f.promise_aggregates = more /\ f.promises = e.promises
      /\ f.promise_waiters = e.promise_waiters /\ f.jobs = e.jobs /\ f.sync_jobs = e.sync_jobs
      /\ f.operations = e.operations
      /\ f = [field \in Fields |-> f[field]]
  BY <1>0 DEF Typed, Execution, Fields
<1>2a. /\ ags = [a \in DOMAIN ags |-> ags[a]] /\ p \in DOMAIN ags
       /\ \A a \in DOMAIN ags :
             a \in Promise /\ o[a] = "aggregate" /\ ags[a] \in [kind : Kind, remaining : Nat]
  BY <1>0 DEF Typed
<1>2. /\ DOMAIN more = DOMAIN ags
      /\ more = [a \in DOMAIN more |-> more[a]]
      /\ \A a \in DOMAIN ags \ {p} : more[a] = ags[a]
      /\ more[p] = [ags[p] EXCEPT !.remaining = @ - 1]
  <2> HIDE DEF ags
  <2>1. DOMAIN more = DOMAIN ags /\ more = [a \in DOMAIN more |-> more[a]]
    BY <1>2a
  <2>2. \A a \in DOMAIN ags \ {p} : more[a] = ags[a]
    BY <1>2a
  <2>3. more[p] = [ags[p] EXCEPT !.remaining = @ - 1]
    BY <1>2a
  <2> QED
    BY <2>1, <2>2, <2>3
<1>3. /\ Unreported(e, p) \in SUBSET (1..2) /\ i \notin Unreported(e, p)
      /\ ags[p].remaining = Cardinality(Unreported(e, p) \cup {i}) /\ ags[p].remaining # 1
      /\ \A k \in 1..2 : Load(e, Reports(p, k)) <= 1
  BY DEF Reported, Unreported
<1>4. /\ ags[p].remaining = 2 /\ Unreported(e, p) # {} /\ Cardinality(Unreported(e, p)) = 1
  <2>1. Unreported(e, p) \in {{}, {1}, {2}} /\ i \in 1..2
    BY <1>0, <1>3, OfTwo
  <2>2. Unreported(e, p) # {}
    BY <1>0, <1>3, OfTwo
  <2>3. Unreported(e, p) \cup {i} = {1, 2}
    BY <1>3, <2>1, <2>2
  <2> QED
    BY <1>3, <2>1, <2>2, <2>3, OfTwo
<1> HIDE DEF f, more
<1>5. /\ more[p] \in [kind : Kind, remaining : Nat] /\ more[p].remaining = 1
      /\ more[p].kind = ags[p].kind
  BY <1>2, <1>2a, <1>4
<1>6. Typed(f, o)
  <2>1. /\ f.promise_aggregates = [a \in DOMAIN f.promise_aggregates |-> f.promise_aggregates[a]]
        /\ \A a \in DOMAIN f.promise_aggregates :
              /\ a \in Promise /\ o[a] = "aggregate"
              /\ f.promise_aggregates[a] \in [kind : Kind, remaining : Nat]
    <3> HIDE DEF ags
    <3> QED
      BY <1>1, <1>2, <1>2a, <1>5
  <2> QED
    BY <1>0, <1>1, <2>1 DEF Typed, Execution
<1>7. \A X : Load(f, X) = Load(e, X)
  BY <1>1 DEF Load
<1>8. ASSUME NEW x \in Promise \ {p}
      PROVE  BalancedAt(f, o, t, cs, x, 0, 0)
  <2>1. SameAt(e, o, cs, f, o, cs, x)
    BY <1>1, <1>2, <1>7 DEF SameAt
  <2>2. BalancedAt(e, o, t, cs, x, 0, 0)
    BY DEF Reported, BalancedBut
  <2> QED
    BY <2>1, <2>2, SameBalance
<1>9. BalancedAt(f, o, t, cs, p, 0, 0)
  <2>1. /\ SettlersIn(f, cs, p) = SettlersIn(e, cs, p) /\ ResolversIn(f, cs, p) = ResolversIn(e, cs, p)
        /\ Owed(f, o, p) <=> Owed(e, o, p)
        /\ Unreported(f, p) = Unreported(e, p)
    BY <1>1, <1>2, <1>7 DEF SettlersIn, ResolversIn, Owed, Unreported
  <2>2. Exact(f, p)
    BY <1>1, <1>3, <1>4, <1>5, <1>7, <2>1 DEF Exact
  <2>3. /\ SettlersIn(f, cs, p) = Bit(Owed(f, o, p)) - 0
        /\ p \notin t => ResolversIn(f, cs, p) = Bit(f.promises[p] = "resolving") - 0
    BY <1>1, <2>1 DEF Reported, Bit
  <2> QED
    BY <2>2, <2>3 DEF BalancedAt, Reported
<1>10. Book(f, o, t, cs)
  BY <1>0, <1>6, <1>8, <1>9 DEF Book, Balanced
<1> QED
  BY <1>10 DEF f

LEMMA IgnoreReport ==
    ASSUME NEW e, NEW o, NEW t, NEW cs, NEW p, NEW i, Reported(e, o, t, cs, p, i),
           p \notin DOMAIN e.promise_aggregates
    PROVE  Book(e, o, t, cs)
<1>1. BalancedAt(e, o, t, cs, p, 0, 0)
  BY DEF Reported, BalancedAt, Bit
<1> QED
  BY <1>1 DEF Reported, Book, Balanced, BalancedBut

LEMMA FinishReport ==
    ASSUME NEW e, NEW o, NEW t, NEW cs, NEW p, NEW i, Reported(e, o, t, cs, p, i),
           p \in DOMAIN e.promise_aggregates, NEW r \in Result, NEW then
    PROVE  Book(Finish(e, p, r, then), o, t, cs)
BY FinishSettles DEF Reported

LEMMA SettleReport ==
    ASSUME NEW e, NEW o, NEW t, NEW cs, NEW p, NEW i, Reported(e, o, t, cs, p, i),
           NEW r \in Settled, NEW then
    PROVE  Book(SettleAggregate(e, p, r, then), o, t, cs)
<1>1. r \in Result /\ "plain" \in Result /\ "rejected" \in Result
  BY DEF Result, Settled, Value
<1>2. ASSUME NEW x \in Result, p \in DOMAIN e.promise_aggregates,
             e.promise_aggregates[p].kind # "race"
      PROVE  Book(FinishOrStore(e, p, x), o, t, cs)
  <2>1. CASE e.promise_aggregates[p].remaining = 1
    BY <1>2, <2>1, FinishReport DEF FinishOrStore
  <2>2. CASE e.promise_aggregates[p].remaining # 1
    BY <1>2, <2>2, StoreReport DEF FinishOrStore
  <2> QED
    BY <2>1, <2>2
<1>3. CASE p \notin DOMAIN e.promise_aggregates
  BY <1>3, IgnoreReport DEF SettleAggregate
<1>4. CASE p \in DOMAIN e.promise_aggregates
  <2> DEFINE kind == e.promise_aggregates[p].kind
  <2>1. Book(Finish(e, p, r, then), o, t, cs)
    BY <1>1, <1>4, FinishReport
  <2>2. \/ SettleAggregate(e, p, r, then) = Finish(e, p, r, then)
        \/ kind # "race" /\ SettleAggregate(e, p, r, then) = FinishOrStore(e, p, "rejected")
        \/ kind # "race" /\ SettleAggregate(e, p, r, then) = FinishOrStore(e, p, "plain")
    BY <1>4 DEF SettleAggregate
  <2> QED
    BY <1>1, <1>2, <1>4, <2>1, <2>2
<1> QED
  BY <1>3, <1>4
-----------------------------------------------------------------------------
(* An aggregate of two elements is entered in the books, and waits for one    *)
(* element after the other.                                                   *)
Entered(e, p, kind) ==
    [e EXCEPT !.promise_aggregates = [a \in DOMAIN @ \cup {p} |->
         IF a = p THEN [kind |-> kind, remaining |-> 2] ELSE @[a]]]
Element(p, i) == Waiter("aggregate", p, i, "none")

LEMMA OneAfterAnother ==
    ASSUME NEW S, NEW seq \in Seq(S), NEW x \in S, NEW y \in S
    PROVE  /\ seq \o <<>> = seq /\ seq \o <<x>> = Append(seq, x)
           /\ seq \o <<x, y>> = Append(Append(seq, x), y)
<1>1. seq \o <<>> = seq
  BY ConcatSimplifications
<1>2. /\ <<x>> \in Seq(S) /\ <<y>> \in Seq(S)
  OBVIOUS
<1>3. seq \o <<x>> = Append(seq, x)
  BY AppendIsConcat
<1>4. Append(seq, x) \in Seq(S)
  BY AppendProperties
<1>5. Append(Append(seq, x), y) = Append(seq, x) \o <<y>>
  BY <1>4, AppendIsConcat
<1>6. Append(Append(seq, x), y) = (seq \o <<x>>) \o <<y>>
  BY <1>3, <1>5
<1>7. (seq \o <<x>>) \o <<y>> = seq \o (<<x>> \o <<y>>)
  BY <1>2, ConcatAssociative
<1>8. <<x>> \o <<y>> = <<x, y>>
  <2>1. Append(<<x>>, y) = <<x, y>>
    <3> DEFINE s == Append(<<x>>, y)
               u == <<x, y>>
    <3>1. s \in Seq(S) /\ Len(s) = 2 /\ s[1] = x /\ s[2] = y
      BY <1>2, AppendProperties
    <3>2. u \in Seq(S) /\ Len(u) = 2 /\ u[1] = x /\ u[2] = y
      OBVIOUS
    <3> HIDE DEF s, u
    <3>3. s = u
      BY <3>1, <3>2, SeqEqual
    <3> QED
      BY <3>3 DEF s, u
  <2>2. Append(<<x>>, y) = <<x>> \o <<y>>
    BY <1>2, AppendIsConcat
  <2> QED
    BY <2>1, <2>2
<1> QED
  BY <1>1, <1>3, <1>6, <1>7, <1>8

Listed(p, S) == [k \in DOMAIN InOrder(S) |-> Element(p, InOrder(S)[k])]
Due(p, S, e, values) ==
    [k \in DOMAIN InOrder(S) |-> JobOf(Element(p, InOrder(S)[k]), e.promises[values[InOrder(S)[k]]])]

LEMMA ListedElements ==
    ASSUME NEW p, NEW e, NEW values
    PROVE  /\ Listed(p, {}) = <<>>
           /\ \A i \in 1..2 : Listed(p, {i}) = <<Element(p, i)>>
           /\ Listed(p, {1, 2}) = <<Element(p, 1), Element(p, 2)>>
           /\ Due(p, {}, e, values) = <<>>
           /\ \A i \in 1..2 : Due(p, {i}, e, values) = <<JobOf(Element(p, i), e.promises[values[i]])>>
           /\ Due(p, {1, 2}, e, values) = <<JobOf(Element(p, 1), e.promises[values[1]]),
                                            JobOf(Element(p, 2), e.promises[values[2]])>>
<1>1. DOMAIN InOrder({}) = {}
  BY InOrderOfNone
<1>2. Listed(p, {}) = <<>> /\ Due(p, {}, e, values) = <<>>
  BY <1>1 DEF Listed, Due
<1>3. ASSUME NEW i \in 1..2
      PROVE  /\ Listed(p, {i}) = <<Element(p, i)>>
             /\ Due(p, {i}, e, values) = <<JobOf(Element(p, i), e.promises[values[i]])>>
  <2> DEFINE f == InOrder({i})
  <2>1. DOMAIN f = 1..1 /\ f[1] = i
    BY InOrderOfTwo
  <2> HIDE DEF f
  <2>2. [k \in DOMAIN f |-> Element(p, f[k])] = <<Element(p, i)>>
    BY <2>1
  <2>3. [k \in DOMAIN f |-> JobOf(Element(p, f[k]), e.promises[values[f[k]]])]
            = <<JobOf(Element(p, i), e.promises[values[i]])>>
    BY <2>1
  <2> QED
    BY <2>2, <2>3 DEF f, Listed, Due
<1>4. /\ Listed(p, {1, 2}) = <<Element(p, 1), Element(p, 2)>>
      /\ Due(p, {1, 2}, e, values) = <<JobOf(Element(p, 1), e.promises[values[1]]),
                                       JobOf(Element(p, 2), e.promises[values[2]])>>
  <2> DEFINE f == InOrder({1, 2})
  <2>1. DOMAIN f = 1..2 /\ f[1] = 1 /\ f[2] = 2
    BY InOrderOfTwo
  <2> HIDE DEF f
  <2>2. [k \in DOMAIN f |-> Element(p, f[k])] = <<Element(p, 1), Element(p, 2)>>
    BY <2>1
  <2>3. [k \in DOMAIN f |-> JobOf(Element(p, f[k]), e.promises[values[f[k]]])]
            = <<JobOf(Element(p, 1), e.promises[values[1]]), JobOf(Element(p, 2), e.promises[values[2]])>>
    BY <2>1
  <2> QED
    BY <2>2, <2>3 DEF f, Listed, Due
<1> QED
  BY <1>2, <1>3, <1>4

(* What each of the two does to the waiters of a promise and to the jobs.     *)
AttachedTo(e, f, q, w) ==
    LET waits == e.promises[q] \in Unsettled
    IN  /\ f = [field \in Fields |-> f[field]]
        /\ f.promises = e.promises /\ f.sync_jobs = e.sync_jobs /\ SameRest(e, f)
        /\ f.promise_waiters = [x \in Promise |-> f.promise_waiters[x]]
        /\ \A x \in Promise :
              f.promise_waiters[x] = IF waits /\ x = q THEN Append(e.promise_waiters[x], w)
                                                       ELSE e.promise_waiters[x]
        /\ f.jobs = IF waits THEN e.jobs ELSE Append(e.jobs, JobOf(w, e.promises[q]))

LEMMA AttachFields ==
    ASSUME NEW e, NEW o, Typed(e, o), NEW q \in Promise, NEW w
    PROVE  AttachedTo(e, Attach(e, q, w), q, w)
BY DEF Attach, AttachedTo, AddWaiter, Enqueue, Typed, Execution, Fields, SameRest

LEMMA ElementIsWaiter ==
    ASSUME NEW o, NEW p \in Promise, o[p] = "aggregate", NEW i \in 1..2
    PROVE  /\ Element(p, i) \in WaitersOf(o)
           /\ Element(p, i).kind = "aggregate" /\ Element(p, i).p = p /\ Element(p, i).i = i
BY DEF Element, Waiter, WaitersOf, Item, WaiterKind, Source

LEMMA AttachReport ==
    ASSUME NEW e, NEW o, Typed(e, o), NEW q \in Promise, NEW w \in WaitersOf(o), w.kind = "aggregate"
    PROVE  LET f == Attach(e, q, w)
           IN  /\ Typed(f, o) /\ SameRest(e, f) /\ f.promises = e.promises
               /\ \A x \in Promise :
                     /\ Load(f, Settles(x)) = Load(e, Settles(x))
                     /\ Load(f, Resolves(x)) = Load(e, Resolves(x))
                     /\ \A i \in 1..2 : Load(f, Reports(x, i))
                            = Load(e, Reports(x, i)) + (IF x = w.p /\ i = w.i THEN 1 ELSE 0)
<1> DEFINE f == Attach(e, q, w)
<1>1. \A x \in Promise : /\ Load(e, Settles(x)) \in Nat /\ Load(e, Resolves(x)) \in Nat
                         /\ \A i \in 1..2 : Load(e, Reports(x, i)) \in Nat
  BY LoadIsNat
<1>2. /\ Typed(f, o) /\ SameRest(e, f) /\ f.promises = e.promises
      /\ \A X : Matches(X, o) => Load(f, X) = Load(e, X) + Bit(w \in X.w)
  <2>1. CASE e.promises[q] \in Unsettled
    BY <2>1, AddWaiterLoad DEF Attach
  <2>2. CASE e.promises[q] \notin Unsettled
    <3> DEFINE j == JobOf(w, e.promises[q])
    <3>1. e.promises[q] \in Settled
      BY <2>2 DEF Typed
    <3>2. j \in JobsOf(o) /\ f = Enqueue(e, j)
      BY <2>2, <3>1, JobsOfWaiters DEF Attach
    <3>3. \A X : Matches(X, o) => (w \in X.w <=> j \in X.j)
      BY <3>1 DEF Matches
    <3> HIDE DEF f, j
    <3>4. /\ Typed(f, o) /\ SameRest(e, f) /\ f.promises = e.promises
          /\ \A X : Load(f, X) = Load(e, X) + Bit(j \in X.j)
      BY <3>2, EnqueueLoad
    <3> QED
      BY <3>3, <3>4 DEF Bit
  <2> QED
    BY <2>1, <2>2
<1> HIDE DEF f
<1>3. ASSUME NEW x \in Promise
      PROVE  /\ Load(f, Settles(x)) = Load(e, Settles(x))
             /\ Load(f, Resolves(x)) = Load(e, Resolves(x))
             /\ \A i \in 1..2 : Load(f, Reports(x, i))
                                  = Load(e, Reports(x, i)) + (IF x = w.p /\ i = w.i THEN 1 ELSE 0)
  <2>1. /\ w \notin Settles(x).w /\ w \notin Resolves(x).w
        /\ \A i : w \in Reports(x, i).w <=> x = w.p /\ i = w.i
    BY WaiterClass
  <2>2. /\ Load(f, Settles(x)) = Load(e, Settles(x)) + Bit(w \in Settles(x).w)
        /\ Load(f, Resolves(x)) = Load(e, Resolves(x)) + Bit(w \in Resolves(x).w)
        /\ \A i : Load(f, Reports(x, i)) = Load(e, Reports(x, i)) + Bit(w \in Reports(x, i).w)
    BY <1>2, ClassesMatch
  <2> QED
    BY <1>1, <2>1, <2>2 DEF Bit
<1> QED
  BY <1>2, <1>3 DEF f

(* Element i of p, announced.                                                 *)
Announced(e, f, o, p, i) ==
    /\ Typed(f, o) /\ SameRest(e, f) /\ f.promises = e.promises
    /\ \A x \in Promise :
          /\ Load(f, Settles(x)) = Load(e, Settles(x))
          /\ Load(f, Resolves(x)) = Load(e, Resolves(x))
          /\ \A k \in 1..2 : Load(f, Reports(x, k))
                               = Load(e, Reports(x, k)) + (IF x = p /\ k = i THEN 1 ELSE 0)

LEMMA ElementAnnounced ==
    ASSUME NEW e, NEW o, Typed(e, o), NEW q \in Promise, NEW p \in Promise, o[p] = "aggregate",
           NEW i \in 1..2
    PROVE  Announced(e, Attach(e, q, Element(p, i)), o, p, i)
<1> DEFINE w == Element(p, i)
           f == Attach(e, q, w)
<1>1. w \in WaitersOf(o) /\ w.kind = "aggregate" /\ w.p = p /\ w.i = i
  BY ElementIsWaiter
<1> HIDE DEF w
<1>2. /\ Typed(f, o) /\ SameRest(e, f) /\ f.promises = e.promises
      /\ \A x \in Promise :
            /\ Load(f, Settles(x)) = Load(e, Settles(x))
            /\ Load(f, Resolves(x)) = Load(e, Resolves(x))
            /\ \A k \in 1..2 : Load(f, Reports(x, k))
                                 = Load(e, Reports(x, k)) + (IF x = w.p /\ k = w.i THEN 1 ELSE 0)
  BY <1>1, AttachReport
<1> HIDE DEF f
<1>3. Announced(e, f, o, p, i)
  BY <1>1, <1>2 DEF Announced
<1> QED
  BY <1>3 DEF f, w

EnteredIn(e, f, o, p, kind) ==
    LET ags == e.promise_aggregates
    IN  /\ Typed(f, o)
        /\ f.promises = e.promises /\ f.promise_waiters = e.promise_waiters
        /\ f.jobs = e.jobs /\ f.sync_jobs = e.sync_jobs /\ f.operations = e.operations
        /\ f.promise_aggregates = [a \in DOMAIN ags \cup {p} |->
                IF a = p THEN [kind |-> kind, remaining |-> 2] ELSE ags[a]]
        /\ DOMAIN f.promise_aggregates = DOMAIN ags \cup {p}
        /\ f.promise_aggregates[p] = [kind |-> kind, remaining |-> 2]
        /\ \A x \in DOMAIN ags \ {p} : f.promise_aggregates[x] = ags[x]

LEMMA EnteredFields ==
    ASSUME NEW e, NEW o, Typed(e, o), NEW p \in Promise, o[p] = "aggregate", NEW kind \in Kind
    PROVE  EnteredIn(e, Entered(e, p, kind), o, p, kind)
<1> DEFINE ags == e.promise_aggregates
           more == [a \in DOMAIN ags \cup {p} |->
                       IF a = p THEN [kind |-> kind, remaining |-> 2] ELSE ags[a]]
           f == Entered(e, p, kind)
<1>1. /\ DOMAIN more = DOMAIN ags \cup {p}
      /\ more = [a \in DOMAIN more |-> more[a]]
      /\ more[p] = [kind |-> kind, remaining |-> 2]
      /\ \A x \in DOMAIN ags \ {p} : more[x] = ags[x]
  OBVIOUS
<1>2. f = [e EXCEPT !.promise_aggregates = more]
  BY DEF Entered
<1> HIDE DEF more, f
<1>3. /\ f.promise_aggregates = more /\ f.promises = e.promises
      /\ f.promise_waiters = e.promise_waiters /\ f.jobs = e.jobs /\ f.sync_jobs = e.sync_jobs
      /\ f.operations = e.operations
      /\ f = [field \in Fields |-> f[field]]
  BY <1>2 DEF Typed, Execution, Fields
<1>4. \A a \in DOMAIN more :
          a \in Promise /\ o[a] = "aggregate" /\ more[a] \in [kind : Kind, remaining : Nat]
  <2>1. \A a \in DOMAIN ags :
            a \in Promise /\ o[a] = "aggregate" /\ ags[a] \in [kind : Kind, remaining : Nat]
    BY DEF Typed
  <2>2. [kind |-> kind, remaining |-> 2] \in [kind : Kind, remaining : Nat]
    OBVIOUS
  <2> HIDE DEF ags
  <2> QED
    BY <1>1, <2>1, <2>2
<1>5. Typed(f, o)
  <2>1. /\ f.promise_aggregates = [a \in DOMAIN f.promise_aggregates |-> f.promise_aggregates[a]]
        /\ \A a \in DOMAIN f.promise_aggregates :
              /\ a \in Promise /\ o[a] = "aggregate"
              /\ f.promise_aggregates[a] \in [kind : Kind, remaining : Nat]
    BY <1>1, <1>3, <1>4
  <2> QED
    BY <1>3, <2>1 DEF Typed, Execution
<1> QED
  BY <1>1, <1>3, <1>5 DEF more, f, EnteredIn

LEMMA IntoIsAttach ==
    ASSUME NEW e, NEW o, Typed(e, o), NEW p \in Promise, o[p] = "aggregate", NEW kind \in Kind,
           NEW a \in Promise, NEW b \in Promise
    PROVE  AggregateInto(e, p, kind, <<a, b>>) =
               Attach(Attach(Entered(e, p, kind), a, Element(p, 1)), b, Element(p, 2))
<1> DEFINE V == <<a, b>>
           pending(q) == {i \in DOMAIN V : V[i] = q /\ e.promises[q] \in Unsettled}
           settled == {i \in DOMAIN V : e.promises[V[i]] \in Settled}
           more == [x \in DOMAIN e.promise_aggregates \cup {p} |->
                       IF x = p THEN [kind |-> kind, remaining |-> 2] ELSE e.promise_aggregates[x]]
           waiters == [q \in Promise |-> e.promise_waiters[q] \o Listed(p, pending(q))]
           jobs == e.jobs \o Due(p, settled, e, V)
           f == AggregateInto(e, p, kind, V)
           g == Entered(e, p, kind)
           h == Attach(g, a, Element(p, 1))
           n == Attach(h, b, Element(p, 2))
<1>1. f = [e EXCEPT !.promise_aggregates = more, !.promise_waiters = waiters, !.jobs = jobs]
  <2>1. V # <<>> /\ Len(V) = 2
    OBVIOUS
  <2> QED
    BY <2>1 DEF AggregateInto, Listed, Due, Element
<1>2. /\ V[1] = a /\ V[2] = b /\ DOMAIN V = {1, 2}
  OBVIOUS
<1>3. /\ e.promises \in [Promise -> Unsettled \cup Settled] /\ Unsettled \cap Settled = {}
      /\ e.promise_waiters \in [Promise -> Seq(WaitersOf(o))] /\ e.jobs \in Seq(JobsOf(o))
  BY DEF Typed, Unsettled, Settled, Value
<1>4. waiters = [q \in Promise |-> waiters[q]]
  OBVIOUS
<1>5. \A q \in Promise : waiters[q] = e.promise_waiters[q] \o Listed(p, pending(q))
  OBVIOUS
<1> HIDE DEF V, more, waiters, jobs, f
<1>6. /\ f.promise_aggregates = more /\ f.promises = e.promises
      /\ f.promise_waiters = waiters /\ f.jobs = jobs /\ f.sync_jobs = e.sync_jobs
      /\ f.operations = e.operations
      /\ f = [field \in Fields |-> f[field]]
  BY <1>1 DEF Typed, Execution, Fields
<1>7. /\ Typed(g, o)
      /\ g.promises = e.promises /\ g.promise_waiters = e.promise_waiters
      /\ g.jobs = e.jobs /\ g.sync_jobs = e.sync_jobs /\ g.operations = e.operations
      /\ g.promise_aggregates = more
  BY EnteredFields DEF more, EnteredIn
<1> HIDE DEF g
<1>8. /\ Element(p, 1) \in WaitersOf(o) /\ Element(p, 1).kind = "aggregate"
      /\ Element(p, 2) \in WaitersOf(o) /\ Element(p, 2).kind = "aggregate"
  BY ElementIsWaiter
<1>9. Typed(h, o)
  BY <1>7, <1>8, AttachReport
<1>10. AttachedTo(g, h, a, Element(p, 1))
  BY <1>7, AttachFields
<1> HIDE DEF h
<1>11. AttachedTo(h, n, b, Element(p, 2))
  BY <1>9, AttachFields
<1> HIDE DEF n
<1>12. ASSUME NEW q \in Promise
       PROVE  waiters[q] = n.promise_waiters[q]
  <2> DEFINE S == WaitersOf(o)
             ws == e.promise_waiters[q]
             w1 == Element(p, 1)
             w2 == Element(p, 2)
  <2>1. ws \in Seq(S) /\ w1 \in S /\ w2 \in S
    BY <1>3, <1>8
  <2>2. /\ pending(q) = IF e.promises[q] \notin Unsettled THEN {}
                        ELSE IF q = a THEN IF q = b THEN {1, 2} ELSE {1}
                        ELSE IF q = b THEN {2} ELSE {}
    BY <1>2
  <2>3. n.promise_waiters[q] = IF e.promises[q] \notin Unsettled THEN ws
                               ELSE IF q = a THEN IF q = b THEN Append(Append(ws, w1), w2)
                                                           ELSE Append(ws, w1)
                               ELSE IF q = b THEN Append(ws, w2) ELSE ws
    BY <1>7, <1>10, <1>11 DEF AttachedTo
  <2> HIDE DEF S, ws, w1, w2, pending
  <2>4. ws \o <<>> = ws /\ ws \o <<w1>> = Append(ws, w1) /\ ws \o <<w2>> = Append(ws, w2)
        /\ ws \o <<w1, w2>> = Append(Append(ws, w1), w2)
    BY <2>1, OneAfterAnother
  <2>5. /\ Listed(p, {}) = <<>> /\ Listed(p, {1}) = <<w1>> /\ Listed(p, {2}) = <<w2>>
        /\ Listed(p, {1, 2}) = <<w1, w2>>
    BY ListedElements DEF w1, w2
  <2>6. waiters[q] = ws \o Listed(p, pending(q))
    BY <1>5 DEF ws
  <2>7. CASE e.promises[q] \notin Unsettled \/ (q # a /\ q # b)
    BY <2>2, <2>3, <2>4, <2>5, <2>6, <2>7
  <2>8. CASE e.promises[q] \in Unsettled /\ q = a /\ q # b
    BY <2>2, <2>3, <2>4, <2>5, <2>6, <2>8
  <2>9. CASE e.promises[q] \in Unsettled /\ q # a /\ q = b
    BY <2>2, <2>3, <2>4, <2>5, <2>6, <2>9
  <2>10. CASE e.promises[q] \in Unsettled /\ q = a /\ q = b
    BY <2>2, <2>3, <2>4, <2>5, <2>6, <2>10
  <2> QED
    BY <2>7, <2>8, <2>9, <2>10
<1>13. jobs = n.jobs
  <2> DEFINE S == JobsOf(o)
             js == e.jobs
             j1 == JobOf(Element(p, 1), e.promises[a])
             j2 == JobOf(Element(p, 2), e.promises[b])
  <2>1. /\ e.promises[a] \in Settled => j1 \in S
        /\ e.promises[b] \in Settled => j2 \in S
        /\ js \in Seq(S)
    BY <1>3, <1>8, JobsOfWaiters
  <2>2. /\ e.promises[a] \in Settled <=> e.promises[a] \notin Unsettled
        /\ e.promises[b] \in Settled <=> e.promises[b] \notin Unsettled
    BY <1>3
  <2>3. settled = IF e.promises[a] \in Settled
                  THEN IF e.promises[b] \in Settled THEN {1, 2} ELSE {1}
                  ELSE IF e.promises[b] \in Settled THEN {2} ELSE {}
    BY <1>2
  <2>4. n.jobs = IF e.promises[a] \in Settled
                 THEN IF e.promises[b] \in Settled THEN Append(Append(js, j1), j2) ELSE Append(js, j1)
                 ELSE IF e.promises[b] \in Settled THEN Append(js, j2) ELSE js
    BY <1>7, <1>10, <1>11, <2>2 DEF AttachedTo
  <2>5. /\ Due(p, {}, e, V) = <<>> /\ Due(p, {1}, e, V) = <<j1>> /\ Due(p, {2}, e, V) = <<j2>>
        /\ Due(p, {1, 2}, e, V) = <<j1, j2>>
    BY <1>2, ListedElements
  <2> HIDE DEF S, js, j1, j2, settled
  <2>6. jobs = js \o Due(p, settled, e, V)
    BY DEF jobs, js, settled
  <2>7. CASE e.promises[a] \notin Settled /\ e.promises[b] \notin Settled
    <3>1. js \o <<>> = js
      BY <2>1, ConcatSimplifications
    <3> QED
      BY <2>3, <2>4, <2>5, <2>6, <2>7, <3>1
  <2>8. CASE e.promises[a] \in Settled /\ e.promises[b] \notin Settled
    <3>1. js \o <<j1>> = Append(js, j1)
      BY <2>1, <2>8, OneAfterAnother
    <3> QED
      BY <2>3, <2>4, <2>5, <2>6, <2>8, <3>1
  <2>9. CASE e.promises[a] \notin Settled /\ e.promises[b] \in Settled
    <3>1. js \o <<j2>> = Append(js, j2)
      BY <2>1, <2>9, OneAfterAnother
    <3> QED
      BY <2>3, <2>4, <2>5, <2>6, <2>9, <3>1
  <2>10. CASE e.promises[a] \in Settled /\ e.promises[b] \in Settled
    <3>1. js \o <<j1, j2>> = Append(Append(js, j1), j2)
      BY <2>1, <2>10, OneAfterAnother
    <3> QED
      BY <2>3, <2>4, <2>5, <2>6, <2>10, <3>1
  <2> QED
    BY <2>7, <2>8, <2>9, <2>10
<1>14. f = n
  <2>1. f.promise_waiters = n.promise_waiters
    BY <1>4, <1>6, <1>11, <1>12 DEF AttachedTo
  <2>2. /\ f.promises = n.promises /\ f.jobs = n.jobs /\ f.sync_jobs = n.sync_jobs
        /\ f.promise_aggregates = n.promise_aggregates /\ f.operations = n.operations
    BY <1>6, <1>7, <1>10, <1>11, <1>13 DEF SameRest, AttachedTo
  <2>3. \A field \in Fields : f[field] = n[field]
    BY <2>1, <2>2 DEF Fields
  <2> QED
    BY <1>6, <1>11, <2>3 DEF AttachedTo
<1> QED
  BY <1>14 DEF f, n, g, h, V

LEMMA EnterAggregate ==
    ASSUME NEW e, NEW o, NEW t, NEW cs, NEW p, Short(e, o, t, cs, p, 1, 0), o[p] = "aggregate",
           \A i : Load(e, Reports(p, i)) = 0,
           NEW kind \in Kind, NEW a \in Promise, NEW b \in Promise
    PROVE  Book(AggregateInto(e, p, kind, <<a, b>>), o, t, cs)
<1> DEFINE f == AggregateInto(e, p, kind, <<a, b>>)
           g == Entered(e, p, kind)
           h == Attach(g, a, Element(p, 1))
<1>1. /\ Typed(e, o) /\ Handled(o, t, cs) /\ p \in Promise
      /\ BalancedBut(e, o, t, cs, p) /\ BalancedAt(e, o, t, cs, p, 1, 0)
  BY DEF Short
<1>2. /\ Typed(g, o)
      /\ g.promises = e.promises /\ g.promise_waiters = e.promise_waiters
      /\ g.jobs = e.jobs /\ g.sync_jobs = e.sync_jobs /\ g.operations = e.operations
      /\ DOMAIN g.promise_aggregates = DOMAIN e.promise_aggregates \cup {p}
      /\ g.promise_aggregates[p] = [kind |-> kind, remaining |-> 2]
      /\ \A x \in DOMAIN e.promise_aggregates \ {p} :
            g.promise_aggregates[x] = e.promise_aggregates[x]
  <2>1. EnteredIn(e, g, o, p, kind)
    BY <1>1, EnteredFields
  <2> HIDE DEF g
  <2> QED
    BY <2>1 DEF EnteredIn
<1>3. \A X : Load(g, X) = Load(e, X)
  BY <1>2 DEF Load
<1>5. f = Attach(h, b, Element(p, 2))
  BY <1>1, IntoIsAttach
<1> HIDE DEF g, f
<1>6. Announced(g, h, o, p, 1)
  BY <1>1, <1>2, ElementAnnounced
<1> HIDE DEF h
<1>7. Announced(h, f, o, p, 2)
  <2>1. Typed(h, o)
    BY <1>6 DEF Announced
  <2> QED
    BY <1>1, <1>5, <2>1, ElementAnnounced
<1>8. ASSUME NEW x \in Promise
      PROVE  /\ Load(f, Settles(x)) = Load(e, Settles(x))
             /\ Load(f, Resolves(x)) = Load(e, Resolves(x))
             /\ \A i \in 1..2 : Load(f, Reports(x, i))
                                  = IF x = p THEN 1 ELSE Load(e, Reports(x, i))
  <2>1. \A i \in 1..2 : Load(e, Reports(x, i)) \in Nat
    BY <1>1, LoadIsNat
  <2>2. /\ Load(f, Settles(x)) = Load(e, Settles(x)) /\ Load(f, Resolves(x)) = Load(e, Resolves(x))
    BY <1>3, <1>6, <1>7 DEF Announced
  <2>3. \A i \in 1..2 : Load(f, Reports(x, i)) = Load(e, Reports(x, i))
            + (IF x = p /\ i = 1 THEN 1 ELSE 0) + (IF x = p /\ i = 2 THEN 1 ELSE 0)
    BY <1>3, <1>6, <1>7 DEF Announced
  <2> QED
    BY <2>1, <2>2, <2>3
<1>9. /\ f.promises = e.promises /\ f.operations = e.operations
      /\ DOMAIN f.promise_aggregates = DOMAIN e.promise_aggregates \cup {p}
      /\ f.promise_aggregates[p] = [kind |-> kind, remaining |-> 2]
      /\ \A x \in DOMAIN e.promise_aggregates \ {p} :
            f.promise_aggregates[x] = e.promise_aggregates[x]
  BY <1>2, <1>6, <1>7 DEF SameRest, Announced
<1>10. ASSUME NEW x \in Promise \ {p}
       PROVE  BalancedAt(f, o, t, cs, x, 0, 0)
  <2>1. SameAt(e, o, cs, f, o, cs, x)
    BY <1>8, <1>9 DEF SameAt
  <2>2. BalancedAt(e, o, t, cs, x, 0, 0)
    BY <1>1 DEF BalancedBut
  <2> QED
    BY <2>1, <2>2, SameBalance
<1>11. BalancedAt(f, o, t, cs, p, 0, 0)
  <2>1. Bare(e, o, t, cs, p) /\ Owed(e, o, p)
    BY <1>1, ShortIsBare
  <2>2. Load(e, Settles(p)) \in Nat /\ Count(cs, Settles(p).b) \in Nat
    BY <1>1, SettlersAreNat
  <2>3. SettlersIn(e, cs, p) = 0
    BY <2>1 DEF Bare
  <2>4. p \notin e.operations /\ p \notin DOMAIN e.promise_aggregates
    BY <2>2, <2>3 DEF SettlersIn, Bit
  <2>5. SettlersIn(f, cs, p) = 1
    BY <1>1, <1>8, <1>9, <2>2, <2>3, <2>4 DEF SettlersIn, Bit
  <2>6. ResolversIn(f, cs, p) = ResolversIn(e, cs, p)
    BY <1>1, <1>8 DEF ResolversIn
  <2>7. Owed(f, o, p)
    BY <1>9, <2>1 DEF Owed
  <2>8. Exact(f, p)
    <3>1. \A i \in 1..2 : Load(f, Reports(p, i)) = 1
      BY <1>1, <1>8
    <3>2. Unreported(f, p) = {1, 2}
      BY <3>1 DEF Unreported
    <3> QED
      BY <1>9, <3>1, <3>2, OfTwo DEF Exact
  <2> QED
    BY <1>1, <1>9, <2>5, <2>6, <2>7, <2>8 DEF BalancedAt, Bit
<1>12. Book(f, o, t, cs)
  BY <1>1, <1>7, <1>10, <1>11 DEF Book, Balanced, Announced
<1> QED
  BY <1>12 DEF f

LEMMA EmptyAggregate ==
    ASSUME NEW e, NEW o, NEW t, NEW cs, NEW p, Short(e, o, t, cs, p, 1, 0), NEW kind \in Kind \ {"race"}
    PROVE  Book(AggregateInto(e, p, kind, <<>>), o, t, cs)
<1>1. /\ Typed(e, o) /\ Handled(o, t, cs) /\ p \in Promise
      /\ BalancedBut(e, o, t, cs, p) /\ BalancedAt(e, o, t, cs, p, 1, 0)
  BY DEF Short
<1>2. Bare(e, o, t, cs, p)
  BY <1>1, ShortIsBare
<1>3. \E v \in {"rejected", "plain"} : AggregateInto(e, p, kind, <<>>) = SettleResult(e, p, v)
  BY DEF AggregateInto
<1>4. ASSUME NEW v \in {"rejected", "plain"}
      PROVE  Book(SettleResult(e, p, v), o, t, cs)
  <2>1. v \in Settled
    BY DEF Settled, Value
  <2> QED
    BY <1>1, <1>2, <2>1, SettleResultBare DEF Book
<1> QED
  BY <1>3, <1>4
-----------------------------------------------------------------------------
(* The invariant: the books of the evaluation are in order.                   *)
Orderly ==
    /\ Book(execution, origin, assimilated.thenables, callers)
    /\ assimilated \in [thenables : SUBSET Promise, calls : Nat]
    /\ final \in Made \cup {None}

LEMMA NothingLoads == \A X : Load(Nothing, X) = 0
<1> SUFFICES ASSUME NEW X
             PROVE  Load(Nothing, X) = 0
  OBVIOUS
<1> DEFINE ws == Nothing.promise_waiters
<1>1. Nothing.jobs = <<>> /\ Nothing.sync_jobs = <<>> /\ \A q \in Promise : ws[q] = <<>>
  BY DEF Nothing
<1>2. Places(ws, X.w) = {}
  <2>1. \A q \in Promise : Positions(ws[q], X.w) = {}
    BY <1>1, EmptySeq DEF Positions
  <2> HIDE DEF ws
  <2> QED
    BY <2>1 DEF Places, PlacesIn
<1>3. Cardinality(Places(ws, X.w)) = 0 /\ Count(<<>>, X.j) = 0 /\ Count(<<>>, X.s) = 0
  BY <1>2, FS_EmptySet, CountNone
<1> HIDE DEF ws
<1> QED
  BY <1>1, <1>3 DEF Load, ws

LEMMA NothingIsInOrder ==
    ASSUME NEW o, o = [p \in Promise |-> "free"], NEW cs,
           cs = <<>> \/ cs = <<Bound("root", None, "none")>>
    PROVE  Book(Nothing, o, {}, cs)
<1>1. Typed(Nothing, o)
  <2> DEFINE n == Nothing
  <2>1. /\ n.promises = [p \in Promise |-> "pending"] /\ n.promise_waiters = [p \in Promise |-> <<>>]
        /\ n.jobs = <<>> /\ n.sync_jobs = <<>> /\ n.promise_aggregates = <<>> /\ n.operations = {}
        /\ n = [field \in Fields |-> n[field]]
    BY DEF Nothing, Fields
  <2> HIDE DEF n
  <2>2. DOMAIN n.promise_aggregates = {}
    BY <2>1
  <2>3. n.promise_aggregates = [a \in DOMAIN n.promise_aggregates |-> n.promise_aggregates[a]]
    BY <2>1, <2>2
  <2>4. \A S : <<>> \in Seq(S)
    BY EmptySeq
  <2>5. Execution(n)
    BY <2>1 DEF Execution
  <2>6. n.promise_waiters \in [Promise -> Seq(WaitersOf(o))]
    BY <2>1, <2>4
  <2>7. n.promises \in [Promise -> Unsettled \cup Settled]
    BY <2>1 DEF Unsettled
  <2>8. Typed(n, o)
    BY <2>1, <2>2, <2>3, <2>4, <2>5, <2>6, <2>7 DEF Typed
  <2> QED
    BY <2>8 DEF n
<1>2. Bound("root", None, "none") \in BoundariesOf(o)
  BY DEF Bound, Boundary, BoundariesOf, None
<1>3. cs \in Seq(BoundariesOf(o)) /\ \A i \in DOMAIN cs : cs[i].kind = "root"
  <2> DEFINE b == Bound("root", None, "none")
             S == BoundariesOf(o)
  <2>1. b.kind = "root"
    BY DEF Bound
  <2>2. b \in S
    BY <1>2
  <2> HIDE DEF b, S
  <2>3. <<b>> \in Seq(S) /\ \A i \in DOMAIN <<b>> : <<b>>[i] = b
    BY <2>2
  <2>4. <<>> \in Seq(S) /\ DOMAIN <<>> = {}
    BY EmptySeq
  <2> QED
    BY <2>1, <2>3, <2>4 DEF b, S
<1>4. Handled(o, {}, cs)
  BY <1>3 DEF Handled
<1>5. ASSUME NEW p \in Promise
      PROVE  BalancedAt(Nothing, o, {}, cs, p, 0, 0)
  <2>1. Load(Nothing, Settles(p)) = 0 /\ Load(Nothing, Resolves(p)) = 0
    BY NothingLoads
  <2>2. Count(cs, Settles(p).b) = 0 /\ Count(cs, Resolves(p).b) = 0
    <3>1. \A i \in DOMAIN cs : cs[i] \notin Settles(p).b /\ cs[i] \notin Resolves(p).b
      BY <1>3 DEF Settles, Resolves, Class, At
    <3> QED
      BY <1>3, <3>1, CountIsNat
  <2>3. /\ Nothing.promises[p] = "pending" /\ p \notin Nothing.operations
        /\ p \notin DOMAIN Nothing.promise_aggregates
    BY DEF Nothing
  <2>4. ~Owed(Nothing, o, p)
    BY DEF Owed
  <2> QED
    BY <2>1, <2>2, <2>3, <2>4 DEF BalancedAt, SettlersIn, ResolversIn, Bit
<1> QED
  BY <1>1, <1>4, <1>5 DEF Book, Balanced

LEMMA EndIsInOrder == ASSUME NEW with, End(with) PROVE Orderly'
<1>1. Book(execution', origin', assimilated'.thenables, callers')
  BY NothingIsInOrder DEF End
<1> QED
  BY <1>1 DEF Orderly, End, None

LEMMA InitIsInOrder == Init => Orderly
<1> SUFFICES ASSUME Init
             PROVE  Orderly
  OBVIOUS
<1>1. Book(execution, origin, assimilated.thenables, callers)
  BY NothingIsInOrder DEF Init
<1> QED
  BY <1>1 DEF Orderly, Init, None

(* What remains to be shown of a step: that the books are in order after it.  *)
Kept == Book(execution', origin', assimilated'.thenables, callers')

LEMMA Stays ==
    ASSUME Orderly, Kept, UNCHANGED <<origin, final>>, assimilated'.thenables = assimilated.thenables,
           assimilated' \in [thenables : SUBSET Promise, calls : Nat]
    PROVE  Orderly'
BY DEF Orderly, Kept, Made

LEMMA Grows ==
    ASSUME Orderly, Kept, NEW p \in Promise, NEW how \in Origins, Make(p, how),
           UNCHANGED <<assimilated, final>>
    PROVE  Orderly'
<1>1. origin \in [Promise -> Origins \cup {"free"}]
  BY DEF Orderly, Book, Handled
<1>2. Made \subseteq Made'
  BY <1>1 DEF Make, Made, Free, Origins
<1> QED
  BY <1>2 DEF Orderly, Kept

LEMMA MakeMakes ==
    ASSUME NEW p \in Promise, NEW how \in Origins, Make(p, how)
    PROVE  Makes(origin, origin', p, how) /\ origin[p] = "free"
BY DEF Make, Makes, Free, Made

(* The waiters, jobs and boundaries that the operations make.                 *)
LEMMA WellFormed ==
    ASSUME NEW o, NEW p \in Promise
    PROVE  /\ \A kind \in {"then", "finally"} :
                o[p] = "reaction" => Waiter(kind, p, 0, "none") \in WaitersOf(o)
           /\ o[p] = "async" => Waiter("coroutine", p, 0, "none") \in WaitersOf(o)
           /\ \A r \in Settled :
                o[p] = "reaction" => Waiter("finally_adopt", p, 0, r) \in WaitersOf(o)
           /\ o[p] = "async" => Job("resume_coroutine", p, 0, "none") \in JobsOf(o)
           /\ o[p] = "async" => Bound("async", p, "none") \in BoundariesOf(o)
           /\ o[p] \in Origins => /\ Bound("getter", p, "none") \in BoundariesOf(o)
                                  /\ Bound("thenable", p, "none") \in BoundariesOf(o)
           /\ o[p] = "reaction" => /\ Bound("then", p, "none") \in BoundariesOf(o)
                                   /\ \A r \in Settled : Bound("finally", p, r) \in BoundariesOf(o)
<1>1. o[p] = "reaction" =>
        /\ \A kind \in {"then", "finally"} : Waiter(kind, p, 0, "none") \in WaitersOf(o)
        /\ \A r \in Settled : Waiter("finally_adopt", p, 0, r) \in WaitersOf(o)
  BY DEF Waiter, WaitersOf, Item, WaiterKind, Source
<1>2. o[p] = "async" => Waiter("coroutine", p, 0, "none") \in WaitersOf(o)
  BY DEF Waiter, WaitersOf, Item, WaiterKind, Source
<1>3. o[p] = "async" => Job("resume_coroutine", p, 0, "none") \in JobsOf(o)
  BY DEF Job, JobsOf, Item, JobKind, Source
<1>4. /\ o[p] = "async" => Bound("async", p, "none") \in BoundariesOf(o)
      /\ o[p] \in Origins => /\ Bound("getter", p, "none") \in BoundariesOf(o)
                             /\ Bound("thenable", p, "none") \in BoundariesOf(o)
      /\ o[p] = "reaction" => /\ Bound("then", p, "none") \in BoundariesOf(o)
                              /\ \A r \in Settled : Bound("finally", p, r) \in BoundariesOf(o)
  BY DEF Bound, Boundary, BoundariesOf, Source
<1> QED
  BY <1>1, <1>2, <1>3, <1>4
-----------------------------------------------------------------------------
(* The operations of JavaScript.                                              *)
LEMMA ConstructStep == ASSUME Orderly, Construct PROVE Orderly'
<1>1. PICK p \in Promise : Make(p, "constructor")
  BY DEF Construct
<1>2. "constructor" \in Origins /\ "constructor" \notin Owing
  BY DEF Origins, Owing
<1>3. Makes(origin, origin', p, "constructor")
  BY <1>1, <1>2, MakeMakes
<1>4. Book(execution, origin', assimilated.thenables, callers)
  BY <1>2, <1>3, MakePlain DEF Orderly
<1>5. Kept
  BY <1>4 DEF Construct, Kept
<1> QED
  BY <1>1, <1>2, <1>5, Grows DEF Construct

LEMMA CallResolverStep ==
    ASSUME Orderly, NEW p \in Promise, NEW r \in Result, NEW then, CallResolver(p, r, then)
    PROVE  Orderly'
<1>1. /\ Typed(execution, origin) /\ Handled(origin, assimilated.thenables, callers)
      /\ Balanced(execution, origin, assimilated.thenables, callers)
      /\ origin[p] \in {"constructor", "completion"}
  BY DEF Orderly, Book, CallResolver
<1>2. /\ Typed(Settle(execution, p, r, then), origin)
      /\ Balanced(Settle(execution, p, r, then), origin, assimilated.thenables, callers)
  BY <1>1, SettlePlain
<1>3. Kept
  BY <1>1, <1>2 DEF CallResolver, Kept, Book
<1> QED
  BY <1>3, Stays DEF CallResolver, Orderly

LEMMA CallAssimilatedStep ==
    ASSUME Orderly, NEW p \in Promise, NEW r \in Result, NEW then, CallAssimilated(p, r, then)
    PROVE  Orderly'
<1>1. Short(execution, origin, assimilated.thenables, callers, p, 0, 0)
  BY BookIsShort DEF Orderly
<1>2. p \in assimilated.thenables
  BY DEF CallAssimilated
<1>3. Book(SettleAssimilated(execution, p, r, then), origin, assimilated.thenables, callers)
  BY <1>1, <1>2, AssimilateShort
<1>4. /\ assimilated'.thenables = assimilated.thenables
      /\ assimilated' \in [thenables : SUBSET Promise, calls : Nat]
  BY DEF CallAssimilated, Orderly
<1>5. Kept
  BY <1>3, <1>4 DEF CallAssimilated, Kept
<1> QED
  BY <1>4, <1>5, Stays DEF CallAssimilated

LEMMA ReactStep ==
    ASSUME Orderly, NEW q \in Promise, NEW kind \in {"then", "finally"}, React(q, kind)
    PROVE  Orderly'
<1>1. PICK p \in Promise : /\ Make(p, "reaction")
                           /\ execution' = Attach(execution, q, Waiter(kind, p, 0, "none"))
  BY DEF React
<1>2. "reaction" \in Origins /\ "reaction" \in Owing
  BY DEF Origins, Owing
<1>3. Makes(origin, origin', p, "reaction")
  BY <1>1, <1>2, MakeMakes
<1>4. Short(execution, origin', assimilated.thenables, callers, p, 1, 0) /\ origin'[p] = "reaction"
  BY <1>2, <1>3, MakeOwing DEF Orderly
<1>5. Kept
  <2> DEFINE w == Waiter(kind, p, 0, "none")
  <2>1. w \in WaitersOf(origin')
    BY <1>4, WellFormed
  <2>2. w.p = p /\ w.kind \in SettlingWaiter
    BY DEF Waiter, SettlingWaiter
  <2>3. execution' = Attach(execution, q, w)
    BY <1>1
  <2> HIDE DEF w
  <2>4. Book(Attach(execution, q, w), origin', assimilated.thenables, callers)
    BY <1>4, <2>1, <2>2, PutAttach
  <2> QED
    BY <2>3, <2>4 DEF React, Kept
<1> QED
  BY <1>1, <1>2, <1>5, Grows DEF React

LEMMA AggregateStep ==
    ASSUME Orderly, NEW kind \in Kind, NEW values \in {<<>>} \cup (Made \X Made),
           Aggregate(kind, values)
    PROVE  Orderly'
<1> DEFINE how == IF kind = "race" /\ values = <<>> THEN "empty_race" ELSE "aggregate"
<1>1. PICK p \in Promise : /\ Make(p, how)
                           /\ execution' = AggregateInto(execution, p, kind, values)
  BY DEF Aggregate
<1>2. how \in Origins
  BY DEF Origins
<1>3. Makes(origin, origin', p, how)
  BY <1>1, <1>2, MakeMakes
<1>4. CASE kind = "race" /\ values = <<>>
  <2>1. how = "empty_race" /\ how \notin Owing
    BY <1>4 DEF Owing
  <2>2. Book(execution, origin', assimilated.thenables, callers)
    BY <1>3, <2>1, MakePlain DEF Orderly
  <2>3. execution' = execution
    BY <1>1, <1>4 DEF AggregateInto
  <2>4. Kept
    BY <2>2, <2>3 DEF Aggregate, Kept
  <2> QED
    BY <1>1, <1>2, <2>4, Grows DEF Aggregate
<1>5. CASE ~(kind = "race" /\ values = <<>>)
  <2>1. how = "aggregate" /\ how \in Owing
    BY <1>5 DEF Owing
  <2>2. /\ Short(execution, origin', assimilated.thenables, callers, p, 1, 0)
        /\ origin'[p] = "aggregate" /\ \A i : Load(execution, Reports(p, i)) = 0
    BY <1>3, <2>1, MakeOwing DEF Orderly
  <2>3. Book(AggregateInto(execution, p, kind, values), origin', assimilated.thenables, callers)
    <3>1. CASE values = <<>>
      BY <1>5, <2>2, <3>1, EmptyAggregate
    <3>2. CASE values \in Made \X Made
      <4>1. PICK a \in Made, b \in Made : values = <<a, b>>
        BY <3>2
      <4>2. a \in Promise /\ b \in Promise
        BY DEF Made
      <4> QED
        BY <2>2, <4>1, <4>2, EnterAggregate
    <3> QED
      BY <3>1, <3>2
  <2>4. Kept
    BY <1>1, <2>3 DEF Aggregate, Kept
  <2> QED
    BY <1>1, <1>2, <2>4, Grows DEF Aggregate
<1> QED
  BY <1>4, <1>5

LEMMA CallAsyncStep == ASSUME Orderly, CallAsync PROVE Orderly'
<1>1. CASE End("error")
  BY <1>1, EndIsInOrder
<1>2. ASSUME NEW p \in Promise, Make(p, "async"), callers' = <<Bound("async", p, "none")>> \o callers,
             UNCHANGED <<execution, assimilated, final, outcome>>
      PROVE  Orderly'
  <2>1. "async" \in Origins /\ "async" \in Owing
    BY DEF Origins, Owing
  <2>2. Makes(origin, origin', p, "async")
    BY <1>2, <2>1, MakeMakes
  <2>3. Short(execution, origin', assimilated.thenables, callers, p, 1, 0) /\ origin'[p] = "async"
    BY <2>1, <2>2, MakeOwing DEF Orderly
  <2> DEFINE b == Bound("async", p, "none")
  <2>4. b \in BoundariesOf(origin') /\ b.kind = "async" /\ b.p = p
    BY <2>3, WellFormed DEF Bound
  <2> HIDE DEF b
  <2>5. SettlersOf(b) = 1 /\ ResolutionsOf(b) = 0
    BY <2>4 DEF SettlersOf, ResolutionsOf, SettlingBoundary
  <2>6. Book(execution, origin', assimilated.thenables, <<b>> \o callers)
    <3>1. MayEnter(b, assimilated.thenables, assimilated.thenables, 0)
      BY <2>4, <2>5 DEF MayEnter
    <3>2. Short(execution, origin', assimilated.thenables, callers, b.p, SettlersOf(b), 0)
      BY <2>3, <2>4, <2>5
    <3> QED
      BY <2>4, <3>1, <3>2, PushCaller
  <2>7. Kept
    BY <1>2, <2>6 DEF Kept, b
  <2> QED
    BY <1>2, <2>1, <2>7, Grows
<1> QED
  BY <1>1, <1>2 DEF CallAsync

LEMMA HostCallStep == ASSUME Orderly, HostCall PROVE Orderly'
<1>1. CASE End("error")
  BY <1>1, EndIsInOrder
<1>2. ASSUME NEW p \in Promise, Make(p, "host"), UNCHANGED <<assimilated, callers, final, outcome>>,
             \/ execution' = [execution EXCEPT !.operations = @ \cup {p}]
             \/ execution' = Settle(execution, p, "rejected", "none")
      PROVE  Orderly'
  <2>1. "host" \in Origins /\ "host" \in Owing
    BY DEF Origins, Owing
  <2>2. Makes(origin, origin', p, "host")
    BY <1>2, <2>1, MakeMakes
  <2>3. Short(execution, origin', assimilated.thenables, callers, p, 1, 0) /\ origin'[p] = "host"
    BY <2>1, <2>2, MakeOwing DEF Orderly
  <2>4. "rejected" \in Result
    BY DEF Result, Settled
  <2>5. /\ Book([execution EXCEPT !.operations = @ \cup {p}], origin', assimilated.thenables, callers)
        /\ Book(Settle(execution, p, "rejected", "none"), origin', assimilated.thenables, callers)
    BY <2>3, <2>4, AddOperation, SettleShort
  <2>6. Kept
    BY <1>2, <2>5 DEF Kept
  <2> QED
    BY <1>2, <2>1, <2>6, Grows
<1> QED
  BY <1>1, <1>2 DEF HostCall

(* The innermost boundary, taken.                                             *)
LEMMA TopTaken ==
    ASSUME Orderly, Script, Top.kind # "root"
    PROVE  /\ Top \in BoundariesOf(origin) /\ Top.p \in Promise
           /\ Top.kind = "thenable" => Top.p \in assimilated.thenables
           /\ Top.kind \in SettlingBoundary =>
                Short(execution, origin, assimilated.thenables, Tail(callers), Top.p, 1, 0)
           /\ Top.kind = "thenable" =>
                Short(execution, origin, assimilated.thenables, Tail(callers), Top.p, 0, 0)
           /\ Top.kind = "getter" =>
                Short(execution, origin, assimilated.thenables, Tail(callers), Top.p, 0, 1)
<1> DEFINE b == Top
           s == SettlersOf(b)
           r == ResolutionsOf(b)
<1>1. /\ b \in BoundariesOf(origin) /\ (b.kind = "thenable" => b.p \in assimilated.thenables)
      /\ Short(execution, origin, assimilated.thenables, Tail(callers), b.p, s, r)
  BY TakeCaller DEF Orderly, Script, Top
<1> HIDE DEF b
<1>2. /\ b.kind \in SettlingBoundary => s = 1 /\ r = 0
      /\ b.kind = "thenable" => s = 0 /\ r = 0
      /\ b.kind = "getter" => s = 0 /\ r = 1
  BY DEF SettlingBoundary, SettlersOf, ResolutionsOf
<1> HIDE DEF s, r
<1>3. b.p \in Promise
  BY <1>1 DEF Short
<1> QED
  BY <1>1, <1>2, <1>3 DEF b

LEMMA AwaitStep ==
    ASSUME Orderly, NEW q \in Promise, Await(q)
    PROVE  Orderly'
<1>1. Script /\ Top.kind = "async" /\ Top.kind \in SettlingBoundary
  BY DEF Await, SettlingBoundary
<1>2. /\ Top \in BoundariesOf(origin) /\ Top.p \in Promise
      /\ Short(execution, origin, assimilated.thenables, Tail(callers), Top.p, 1, 0)
  BY <1>1, TopTaken
<1>3. origin[Top.p] = "async"
  BY <1>1, <1>2 DEF BoundariesOf, Source
<1> DEFINE p == Top.p
           w == Waiter("coroutine", p, 0, "none")
<1>4. w \in WaitersOf(origin)
  BY <1>2, <1>3, WellFormed
<1>5. w.p = p /\ w.kind \in SettlingWaiter
  BY DEF Waiter, SettlingWaiter
<1>6. execution' = Attach(execution, q, w)
  BY DEF Await
<1> HIDE DEF w
<1>7. Book(Attach(execution, q, w), origin, assimilated.thenables, Tail(callers))
  BY <1>2, <1>4, <1>5, PutAttach
<1>8. Kept
  BY <1>6, <1>7 DEF Kept, Await
<1> QED
  BY <1>8, Stays DEF Await, Orderly

LEMMA AwaitImmediateStep == ASSUME Orderly, AwaitImmediate PROVE Orderly'
<1>1. Script /\ Top.kind = "async" /\ Top.kind \in SettlingBoundary
  BY DEF AwaitImmediate, SettlingBoundary
<1>2. /\ Top \in BoundariesOf(origin) /\ Top.p \in Promise
      /\ Short(execution, origin, assimilated.thenables, Tail(callers), Top.p, 1, 0)
  BY <1>1, TopTaken
<1>3. origin[Top.p] = "async"
  BY <1>1, <1>2 DEF BoundariesOf, Source
<1> DEFINE p == Top.p
           j == Job("resume_coroutine", p, 0, "none")
<1>4. j \in JobsOf(origin)
  BY <1>2, <1>3, WellFormed
<1>5. j.p = p /\ j.kind \in SettlingJob
  BY DEF Job, SettlingJob
<1>6. execution' = Enqueue(execution, j)
  BY DEF AwaitImmediate
<1> HIDE DEF j
<1>7. Book(Enqueue(execution, j), origin, assimilated.thenables, Tail(callers))
  BY <1>2, <1>4, <1>5, PutJob
<1>8. Kept
  BY <1>6, <1>7 DEF Kept, AwaitImmediate
<1> QED
  BY <1>8, Stays DEF AwaitImmediate, Orderly
-----------------------------------------------------------------------------
(* What happens at a boundary.                                                *)
LEMMA AfterFinally ==
    ASSUME NEW e, NEW o, NEW t, NEW cs, NEW p, Short(e, o, t, cs, p, 1, 0), o[p] = "reaction",
           NEW q \in Promise, NEW original \in Settled, NEW then
    PROVE  Book(SettleAfterFinally(e, q, p, original, then), o, t, cs)
<1>1. CASE e.promises[q] \in Unsettled
  <2> DEFINE w == Waiter("finally_adopt", p, 0, original)
  <2>1. p \in Promise
    BY DEF Short
  <2>2. w \in WaitersOf(o)
    BY <2>1, WellFormed
  <2>3. w.p = p /\ w.kind \in SettlingWaiter
    BY DEF Waiter, SettlingWaiter
  <2>4. SettleAfterFinally(e, q, p, original, then) = AddWaiter(e, q, w)
    BY <1>1 DEF SettleAfterFinally, Unsettled
  <2> HIDE DEF w
  <2> QED
    BY <2>2, <2>3, <2>4, PutWaiter
<1>2. CASE e.promises[q] \notin Unsettled
  <2>1. "rejected" \in Result /\ original \in Result
    BY DEF Result, Settled
  <2>2. Book(Settle(e, p, "rejected", then), o, t, cs) /\ Book(Settle(e, p, original, then), o, t, cs)
    BY <2>1, SettleShort
  <2>3. \/ SettleAfterFinally(e, q, p, original, then) = Settle(e, p, "rejected", then)
        \/ SettleAfterFinally(e, q, p, original, then) = Settle(e, p, original, then)
    BY <1>2 DEF SettleAfterFinally
  <2> QED
    BY <2>2, <2>3
<1> QED
  BY <1>1, <1>2

LEMMA ReturnRootStep ==
    ASSUME Orderly, NEW r \in Value \cup Made, Script, ReturnRoot(r)
    PROVE  Orderly'
<1>1. CASE End("value")
  BY <1>1, EndIsInOrder
<1>2. CASE /\ r \in Promise /\ final' = r /\ callers' = Tail(callers)
           /\ UNCHANGED <<execution, origin, assimilated, outcome>>
  <2>1. r \in Made
    BY <1>2, PromisesAssumption DEF Value
  <2>2. Book(execution, origin, assimilated.thenables, Tail(callers))
    BY TakeRoot DEF Orderly, Script, ReturnRoot, Top
  <2> QED
    BY <1>2, <2>1, <2>2 DEF Orderly, Made
<1> QED
  BY <1>1, <1>2 DEF ReturnRoot

LEMMA ReturnSettlesStep ==
    ASSUME Orderly, NEW r \in Result, NEW then, Script, ReturnSettles(r, then),
           callers' = Tail(callers), UNCHANGED assimilated
    PROVE  Orderly'
<1>1. Top.kind # "root" /\ Top.kind \in SettlingBoundary
  BY DEF ReturnSettles, SettlingBoundary
<1>2. Short(execution, origin, assimilated.thenables, Tail(callers), Top.p, 1, 0)
  BY <1>1, TopTaken
<1>3. Book(Settle(execution, Top.p, r, then), origin, assimilated.thenables, Tail(callers))
  BY <1>2, SettleShort
<1>4. Kept
  BY <1>3 DEF ReturnSettles, Kept
<1> QED
  BY <1>4, Stays DEF ReturnSettles, Orderly

(* The value of a `finally` that is no promise gets one.                      *)
LEMMA Completed ==
    ASSUME Orderly, Script, Top.kind = "finally", NEW p \in Promise, Make(p, "completion"),
           NEW r \in Result, NEW then
    PROVE  Book(SettleAfterFinally(Settle(execution, p, r, then), p, Top.p, Top.r, then),
                origin', assimilated.thenables, Tail(callers))
<1>1. "completion" \in Origins /\ "completion" \notin Owing
  BY DEF Origins, Owing
<1>2. Makes(origin, origin', p, "completion")
  BY <1>1, MakeMakes
<1>3. Book(execution, origin', assimilated.thenables, callers) /\ origin'[p] = "completion"
  BY <1>1, <1>2, MakePlain DEF Orderly
<1> DEFINE e == Settle(execution, p, r, then)
           b == Top
<1>4. Book(e, origin', assimilated.thenables, callers)
  <2>1. /\ Typed(execution, origin') /\ Handled(origin', assimilated.thenables, callers)
        /\ Balanced(execution, origin', assimilated.thenables, callers)
        /\ origin'[p] \in {"constructor", "completion"}
    BY <1>3 DEF Book
  <2>2. Typed(e, origin') /\ Balanced(e, origin', assimilated.thenables, callers)
    BY <2>1, SettlePlain
  <2> QED
    BY <2>1, <2>2 DEF Book
<1> HIDE DEF e
<1>5. /\ b \in BoundariesOf(origin')
      /\ Short(e, origin', assimilated.thenables, Tail(callers), b.p, SettlersOf(b), ResolutionsOf(b))
  BY <1>4, TakeCaller DEF Script, Top
<1>6. b.kind = "finally"
  OBVIOUS
<1> HIDE DEF b
<1>7. SettlersOf(b) = 1 /\ ResolutionsOf(b) = 0
  BY <1>6 DEF SettlersOf, ResolutionsOf, SettlingBoundary
<1>8. origin'[b.p] = "reaction" /\ b.r \in Settled
  BY <1>5, <1>6 DEF BoundariesOf, Source
<1>9. Book(SettleAfterFinally(e, p, b.p, b.r, then), origin', assimilated.thenables, Tail(callers))
  BY <1>5, <1>7, <1>8, AfterFinally
<1> QED
  BY <1>9 DEF e, b

LEMMA ReturnFinallyStep ==
    ASSUME Orderly, NEW r \in Result, NEW then, Script, ReturnFinally(r, then),
           callers' = Tail(callers), UNCHANGED assimilated
    PROVE  Orderly'
<1>1. Top.kind = "finally" /\ Top.kind # "root" /\ Top.kind \in SettlingBoundary
  BY DEF ReturnFinally, SettlingBoundary
<1>2. /\ Top \in BoundariesOf(origin)
      /\ Short(execution, origin, assimilated.thenables, Tail(callers), Top.p, 1, 0)
  BY <1>1, TopTaken
<1>3. origin[Top.p] = "reaction" /\ Top.r \in Settled /\ Top.r \in Result
  BY <1>1, <1>2 DEF BoundariesOf, Source, Result
<1>4. CASE /\ r \in Promise /\ UNCHANGED origin
           /\ execution' = SettleAfterFinally(execution, r, Top.p, Top.r, then)
  <2>1. Book(SettleAfterFinally(execution, r, Top.p, Top.r, then), origin, assimilated.thenables, Tail(callers))
    BY <1>2, <1>3, <1>4, AfterFinally
  <2>2. Kept
    BY <1>4, <2>1 DEF Kept
  <2> QED
    BY <1>4, <2>2, Stays DEF ReturnFinally, Orderly
<1>5. CASE UNCHANGED origin /\ execution' = Settle(execution, Top.p, Top.r, then)
  <2>1. Book(Settle(execution, Top.p, Top.r, then), origin, assimilated.thenables, Tail(callers))
    BY <1>2, <1>3, SettleShort
  <2>2. Kept
    BY <1>5, <2>1 DEF Kept
  <2> QED
    BY <1>5, <2>2, Stays DEF ReturnFinally, Orderly
<1>6. ASSUME NEW p \in Promise, Make(p, "completion"),
             execution' = SettleAfterFinally(Settle(execution, p, r, then), p, Top.p, Top.r, then)
      PROVE  Orderly'
  <2>1. Book(SettleAfterFinally(Settle(execution, p, r, then), p, Top.p, Top.r, then),
             origin', assimilated.thenables, Tail(callers))
    BY <1>1, <1>6, Completed
  <2>2. Kept
    BY <1>6, <2>1 DEF Kept
  <2>3. "completion" \in Origins
    BY DEF Origins
  <2> QED
    BY <1>6, <2>2, <2>3, Grows DEF ReturnFinally
<1> QED
  BY <1>4, <1>5, <1>6 DEF ReturnFinally

LEMMA ReturnThenableStep ==
    ASSUME Orderly, Script, ReturnThenable, callers' = Tail(callers), UNCHANGED assimilated
    PROVE  Orderly'
<1>1. /\ Short(execution, origin, assimilated.thenables, Tail(callers), Top.p, 0, 0)
      /\ Top.p \in Promise
  BY TopTaken DEF ReturnThenable
<1>2. Book(execution, origin, assimilated.thenables, Tail(callers))
  BY <1>1, BookIsShort
<1>3. Kept
  BY <1>2 DEF ReturnThenable, Kept
<1> QED
  BY <1>3, Stays DEF ReturnThenable, Orderly

LEMMA ReturnGetterStep ==
    ASSUME Orderly, Script, ReturnGetter, callers' = Tail(callers), UNCHANGED assimilated
    PROVE  Orderly'
<1>1. /\ Short(execution, origin, assimilated.thenables, Tail(callers), Top.p, 0, 1)
      /\ Top \in BoundariesOf(origin)
  BY TopTaken DEF ReturnGetter
<1>2. origin[Top.p] # "free"
  BY <1>1 DEF BoundariesOf, Source, Origins, ReturnGetter
<1>3. Book(Enqueue(execution, Job("assimilate_thenable", Top.p, 0, "none")),
           origin, assimilated.thenables, Tail(callers))
  BY <1>1, <1>2, PutThenable
<1>4. "plain" \in Result
  BY DEF Result, Settled, Value
<1>5. Book(FulfillAssimilated(execution, Top.p), origin, assimilated.thenables, Tail(callers))
  BY <1>1, <1>4, AssimilateShort
<1>6. Kept
  BY <1>3, <1>5 DEF ReturnGetter, Kept
<1> QED
  BY <1>6, Stays DEF ReturnGetter, Orderly

LEMMA ReturnStep ==
    ASSUME Orderly, NEW r \in Value \cup Made, NEW then, Return(r, then)
    PROVE  Orderly'
<1>1. Script /\ r \in Result
  BY DEF Return, Result, Settled, Made
<1> QED
  BY <1>1, ReturnRootStep, ReturnSettlesStep, ReturnFinallyStep, ReturnThenableStep, ReturnGetterStep
  DEF Return

LEMMA ThrowStep == ASSUME Orderly, Throw PROVE Orderly'
<1>1. CASE End("error")
  BY <1>1, EndIsInOrder
<1>2. ASSUME Top.kind # "root", callers' = Tail(callers),
             execution' = IF Top.kind \in {"thenable", "getter"}
                          THEN SettleAssimilated(execution, Top.p, "rejected", "none")
                          ELSE Settle(execution, Top.p, "rejected", "none"),
             UNCHANGED <<origin, assimilated, final, outcome>>
      PROVE  Orderly'
  <2>1. "rejected" \in Result
    BY DEF Result, Settled
  <2>2. /\ Top \in BoundariesOf(origin)
        /\ Top.kind = "thenable" => /\ Top.p \in assimilated.thenables
                                    /\ Short(execution, origin, assimilated.thenables, Tail(callers), Top.p, 0, 0)
        /\ Top.kind \in SettlingBoundary =>
                Short(execution, origin, assimilated.thenables, Tail(callers), Top.p, 1, 0)
        /\ Top.kind = "getter" =>
                Short(execution, origin, assimilated.thenables, Tail(callers), Top.p, 0, 1)
    BY <1>2, TopTaken DEF Throw
  <2>3. CASE Top.kind = "thenable"
    <3>1. Book(SettleAssimilated(execution, Top.p, "rejected", "none"),
               origin, assimilated.thenables, Tail(callers))
      BY <2>1, <2>2, <2>3, AssimilateShort
    <3>2. Kept
      BY <1>2, <2>3, <3>1 DEF Kept
    <3> QED
      BY <1>2, <3>2, Stays DEF Orderly
  <2>4. CASE Top.kind = "getter"
    <3>1. Book(SettleAssimilated(execution, Top.p, "rejected", "none"),
               origin, assimilated.thenables, Tail(callers))
      BY <2>1, <2>2, <2>4, AssimilateShort
    <3>2. Kept
      BY <1>2, <2>4, <3>1 DEF Kept
    <3> QED
      BY <1>2, <3>2, Stays DEF Orderly
  <2>5. CASE Top.kind \in SettlingBoundary
    <3>1. Book(Settle(execution, Top.p, "rejected", "none"),
               origin, assimilated.thenables, Tail(callers))
      BY <2>1, <2>2, <2>5, SettleShort
    <3>2. Kept
      BY <1>2, <2>5, <3>1 DEF Kept, SettlingBoundary
    <3> QED
      BY <1>2, <3>2, Stays DEF Orderly
  <2> QED
    BY <1>2, <2>2, <2>3, <2>4, <2>5 DEF BoundariesOf, Boundary, SettlingBoundary
<1> QED
  BY <1>1, <1>2 DEF Throw
-----------------------------------------------------------------------------
(* The jobs and the event loop.                                               *)
LEMMA RunSynchronousJobStep == ASSUME Orderly, RunSynchronousJob PROVE Orderly'
<1> DEFINE p == Head(execution.sync_jobs)
           b == Bound("getter", p, "none")
           f == [execution EXCEPT !.sync_jobs = Tail(@)]
<1>1. /\ p \in Promise /\ origin[p] # "free"
      /\ Short(f, origin, assimilated.thenables, callers, p, 0, 1)
  BY TakeSync DEF Orderly, RunSynchronousJob
<1>2. execution' = f /\ callers' = <<b>> \o callers
  BY DEF RunSynchronousJob
<1> HIDE DEF p, f
<1>3. origin[p] \in Origins
  BY <1>1 DEF Orderly, Book, Handled
<1>4. b \in BoundariesOf(origin) /\ b.kind = "getter" /\ b.p = p
  BY <1>1, <1>3, WellFormed DEF Bound
<1> HIDE DEF b
<1>5. SettlersOf(b) = 0 /\ ResolutionsOf(b) = 1
  BY <1>4 DEF SettlersOf, ResolutionsOf, SettlingBoundary
<1>6. MayEnter(b, assimilated.thenables, assimilated.thenables, 1)
  BY <1>4, <1>5 DEF MayEnter
<1>7. Short(f, origin, assimilated.thenables, callers, b.p, SettlersOf(b), 1)
  BY <1>1, <1>4, <1>5
<1>8. Book(f, origin, assimilated.thenables, <<b>> \o callers)
  BY <1>4, <1>6, <1>7, PushCaller
<1>9. Kept
  BY <1>2, <1>8 DEF RunSynchronousJob, Kept
<1> QED
  BY <1>9, Stays DEF RunSynchronousJob, Orderly

SettlesOf(j) == IF j.kind \in SettlingJob THEN 1 ELSE 0
ResolvesOf(j) == IF j.kind \in ResolvingJob THEN 1 ELSE 0
Taken(e, o, t, cs, j) ==
    j \in JobsOf(o) /\ Short(e, o, t, cs, j.p, SettlesOf(j), ResolvesOf(j))

LEMMA JobTaken ==
    ASSUME Orderly, execution.jobs # <<>>, Head(execution.jobs).kind # "aggregate_settle"
    PROVE  Taken(Took(Head(execution.jobs)), origin, assimilated.thenables, callers,
                 Head(execution.jobs))
<1> DEFINE j == Head(execution.jobs)
           f == [execution EXCEPT !.jobs = Tail(@)]
<1>1. /\ j \in JobsOf(origin)
      /\ Short(f, origin, assimilated.thenables, callers, j.p,
               Bit(j.kind \in SettlingJob), Bit(j.kind \in ResolvingJob))
  BY TakeJob DEF Orderly
<1>2. Took(j) = f
  BY DEF Took
<1> HIDE DEF j, f
<1>3. Bit(j.kind \in SettlingJob) = SettlesOf(j) /\ Bit(j.kind \in ResolvingJob) = ResolvesOf(j)
  BY DEF Bit, SettlesOf, ResolvesOf
<1>4. Taken(Took(j), origin, assimilated.thenables, callers, j)
  BY <1>1, <1>2, <1>3 DEF Taken
<1> QED
  BY <1>4 DEF j

(* A job enters JavaScript: its boundary has what the job had.                *)
Boards(j, b, t, u) ==
    /\ b.p = j.p /\ SettlersOf(b) = SettlesOf(j)
    /\ MayEnter(b, t, u, ResolvesOf(j))

LEMMA Entry ==
    ASSUME NEW e, NEW o, NEW t, NEW j, Taken(e, o, t, <<>>, j),
           NEW b \in BoundariesOf(o), NEW u, Boards(j, b, t, u)
    PROVE  Book(e, o, u, <<b>>)
<1>1. Short(e, o, t, <<>>, b.p, SettlersOf(b), ResolvesOf(j)) /\ MayEnter(b, t, u, ResolvesOf(j))
  BY DEF Taken, Boards
<1>2. ResolvesOf(j) \in Int
  BY DEF ResolvesOf
<1>3. Book(e, o, u, <<b>> \o <<>>)
  BY <1>1, <1>2, PushCaller
<1>4. <<b>> \o <<>> = <<b>>
  OBVIOUS
<1> QED
  BY <1>3, <1>4

LEMMA EnterStep ==
    ASSUME Orderly, NEW then, RunJob(then), Enter(Head(execution.jobs))
    PROVE  Orderly'
<1> DEFINE j == Head(execution.jobs)
           t == assimilated.thenables
<1>1. j.kind # "aggregate_settle"
  BY DEF Enter
<1>2. callers = <<>> /\ execution.jobs # <<>> /\ UNCHANGED <<origin, final>>
  BY DEF RunJob, Loop
<1>3. Taken(Took(j), origin, t, <<>>, j)
  BY <1>1, <1>2, JobTaken
<1>4. execution' = Took(j)
  BY DEF Enter
<1>5. \/ /\ j.kind = "resume_coroutine"
         /\ callers' = <<Bound("async", j.p, "none")>>
         /\ UNCHANGED assimilated
      \/ /\ j.kind = "assimilate_thenable"
         /\ callers' = <<Bound("thenable", j.p, "none")>>
         /\ assimilated' = [assimilated EXCEPT !.thenables = @ \cup {j.p}]
      \/ /\ j.kind \in {"then", "finally"}
         /\ callers' = <<Bound(j.kind, j.p, IF j.kind = "finally" THEN j.r ELSE "none")>>
         /\ UNCHANGED assimilated
  BY DEF Enter
<1> HIDE DEF j
<1>6. j.p \in Promise /\ origin[j.p] \in Source(j.kind)
  BY <1>3 DEF Taken, JobsOf, Item
<1>7. CASE /\ j.kind = "resume_coroutine"
           /\ callers' = <<Bound("async", j.p, "none")>>
           /\ UNCHANGED assimilated
  <2> DEFINE b == Bound("async", j.p, "none")
  <2>1. origin[j.p] = "async"
    BY <1>6, <1>7 DEF Source
  <2>2. b \in BoundariesOf(origin)
    BY <1>6, <2>1, WellFormed
  <2>3. b.kind = "async" /\ b.p = j.p
    BY DEF Bound
  <2>4. callers' = <<b>>
    BY <1>7
  <2> HIDE DEF b
  <2>5. Boards(j, b, t, t)
    BY <1>7, <2>3 DEF Boards, MayEnter, SettlersOf, ResolutionsOf, SettlesOf, ResolvesOf,
       SettlingBoundary, SettlingJob, ResolvingJob
  <2>6. Book(Took(j), origin, t, <<b>>)
    BY <1>3, <2>2, <2>5, Entry
  <2>7. Kept
    BY <1>2, <1>4, <1>7, <2>4, <2>6 DEF Kept
  <2> QED
    BY <1>2, <1>7, <2>7, Stays DEF Orderly
<1>8. CASE /\ j.kind = "assimilate_thenable"
           /\ callers' = <<Bound("thenable", j.p, "none")>>
           /\ assimilated' = [assimilated EXCEPT !.thenables = @ \cup {j.p}]
  <2> DEFINE b == Bound("thenable", j.p, "none")
             u == t \cup {j.p}
  <2>1. origin[j.p] \in Origins
    BY <1>6, <1>8 DEF Source
  <2>2. b \in BoundariesOf(origin)
    BY <1>6, <2>1, WellFormed
  <2>3. b.kind = "thenable" /\ b.p = j.p
    BY DEF Bound
  <2>4. callers' = <<b>>
    BY <1>8
  <2>5. assimilated' \in [thenables : SUBSET Promise, calls : Nat] /\ assimilated'.thenables = u
    BY <1>6, <1>8 DEF Orderly
  <2> HIDE DEF b
  <2>6. Boards(j, b, t, u)
    BY <1>8, <2>3 DEF Boards, MayEnter, SettlersOf, ResolutionsOf, SettlesOf, ResolvesOf,
       SettlingBoundary, SettlingJob, ResolvingJob
  <2> HIDE DEF u
  <2>7. Book(Took(j), origin, u, <<b>>)
    BY <1>3, <2>2, <2>6, Entry
  <2>8. Book(execution', origin', assimilated'.thenables, callers')
    BY <1>2, <1>4, <2>4, <2>5, <2>7
  <2> QED
    BY <1>2, <2>5, <2>8 DEF Orderly, Made
<1>9. CASE /\ j.kind \in {"then", "finally"}
           /\ callers' = <<Bound(j.kind, j.p, IF j.kind = "finally" THEN j.r ELSE "none")>>
           /\ UNCHANGED assimilated
  <2> DEFINE b == Bound(j.kind, j.p, IF j.kind = "finally" THEN j.r ELSE "none")
  <2>1. origin[j.p] = "reaction" /\ j.r \in Settled
    BY <1>3, <1>6, <1>9 DEF Source, Taken, JobsOf
  <2>2. b \in BoundariesOf(origin)
    BY <1>6, <1>9, <2>1, WellFormed
  <2>3. b.kind = j.kind /\ b.p = j.p
    BY DEF Bound
  <2>4. callers' = <<b>>
    BY <1>9
  <2> HIDE DEF b
  <2>5. Boards(j, b, t, t)
    BY <1>9, <2>3 DEF Boards, MayEnter, SettlersOf, ResolutionsOf, SettlesOf, ResolvesOf,
       SettlingBoundary, SettlingJob, ResolvingJob
  <2>6. Book(Took(j), origin, t, <<b>>)
    BY <1>3, <2>2, <2>5, Entry
  <2>7. Kept
    BY <1>2, <1>4, <1>9, <2>4, <2>6 DEF Kept
  <2> QED
    BY <1>2, <1>9, <2>7, Stays DEF Orderly
<1> QED
  BY <1>5, <1>7, <1>8, <1>9

LEMMA PropagateStep ==
    ASSUME Orderly, NEW then, RunJob(then), Propagate(Head(execution.jobs), then)
    PROVE  Orderly'
<1> DEFINE j == Head(execution.jobs)
           t == assimilated.thenables
<1>1. /\ execution.jobs # <<>> /\ UNCHANGED <<origin, final, assimilated, callers>>
      /\ assimilated' \in [thenables : SUBSET Promise, calls : Nat]
  BY DEF RunJob, Loop, Propagate, Orderly
<1>2. \/ /\ j.kind \in {"then", "finally", "settle_promise"}
         /\ execution' = Settle(Took(j), j.p, j.r, then)
      \/ /\ j.kind = "settle_assimilated"
         /\ execution' = SettleAssimilated(Took(j), j.p, j.r, then)
      \/ /\ j.kind = "aggregate_settle"
         /\ execution' = SettleAggregate(Took(j), j.p, j.r, then)
  BY DEF Propagate
<1>3. j.kind # "aggregate_settle" => Taken(Took(j), origin, t, callers, j)
  BY <1>1, JobTaken
<1>4. j.kind = "aggregate_settle" =>
        j.r \in Settled /\ Reported(Took(j), origin, t, callers, j.p, j.i)
  BY <1>1, TakeReport DEF Orderly, Took
<1> HIDE DEF j
<1>5. Book(execution', origin, t, callers)
  <2>1. CASE /\ j.kind \in {"then", "finally", "settle_promise"}
             /\ execution' = Settle(Took(j), j.p, j.r, then)
    <3>1. SettlesOf(j) = 1 /\ ResolvesOf(j) = 0
      BY <2>1 DEF SettlesOf, ResolvesOf, SettlingJob, ResolvingJob
    <3>2. j.r \in Result /\ Short(Took(j), origin, t, callers, j.p, 1, 0)
      BY <1>3, <2>1, <3>1 DEF Taken, JobsOf, Result
    <3> QED
      BY <2>1, <3>2, SettleShort
  <2>2. CASE /\ j.kind = "settle_assimilated"
             /\ execution' = SettleAssimilated(Took(j), j.p, j.r, then)
    <3>1. SettlesOf(j) = 0 /\ ResolvesOf(j) = 1
      BY <2>2 DEF SettlesOf, ResolvesOf, SettlingJob, ResolvingJob
    <3>2. j.r \in Result /\ Short(Took(j), origin, t, callers, j.p, 0, 1)
      BY <1>3, <2>2, <3>1 DEF Taken, JobsOf, Result
    <3> QED
      BY <2>2, <3>2, AssimilateShort
  <2>3. CASE /\ j.kind = "aggregate_settle"
             /\ execution' = SettleAggregate(Took(j), j.p, j.r, then)
    BY <1>4, <2>3, SettleReport
  <2> QED
    BY <1>2, <2>1, <2>2, <2>3
<1>6. Kept
  BY <1>1, <1>5 DEF Kept
<1> QED
  BY <1>1, <1>6, Stays

LEMMA ReceiveHostReplyStep ==
    ASSUME Orderly, NEW p \in Promise, NEW r \in Result, NEW then, ReceiveHostReply(p, r, then)
    PROVE  Orderly'
<1> DEFINE f == [execution EXCEPT !.operations = @ \ {p}]
<1>1. Short(f, origin, assimilated.thenables, callers, p, 1, 0)
  BY TakeOperation DEF Orderly, ReceiveHostReply
<1>2. execution' = Settle(f, p, r, then)
  BY DEF ReceiveHostReply
<1> HIDE DEF f
<1>3. Book(Settle(f, p, r, then), origin, assimilated.thenables, callers)
  BY <1>1, SettleShort
<1>4. Kept
  BY <1>2, <1>3 DEF ReceiveHostReply, Kept
<1> QED
  BY <1>4, Stays DEF ReceiveHostReply, Orderly

LEMMA NothingHappens == ASSUME Orderly, UNCHANGED vars PROVE Orderly'
BY DEF Orderly, vars, Made

LEMMA OrderlyStep == Orderly /\ [Next]_vars => Orderly'
<1> SUFFICES ASSUME Orderly, [Next]_vars
             PROVE  Orderly'
  OBVIOUS
<1>1. CASE Construct \/ CallAsync \/ AwaitImmediate \/ HostCall \/ Throw \/ RunSynchronousJob
  BY <1>1, ConstructStep, CallAsyncStep, AwaitImmediateStep, HostCallStep, ThrowStep,
     RunSynchronousJobStep
<1>2. CASE LimitExceeded \/ FinalSettled \/ PromiseDeadlock
  BY <1>2, EndIsInOrder DEF LimitExceeded, FinalSettled, PromiseDeadlock
<1>3. ASSUME NEW p \in Promise, NEW r \in Result, NEW then \in Then,
             CallResolver(p, r, then) \/ CallAssimilated(p, r, then)
      PROVE  Orderly'
  BY <1>3, CallResolverStep, CallAssimilatedStep
<1>4. ASSUME NEW q \in Promise, React(q, "then") \/ React(q, "finally") \/ Await(q)
      PROVE  Orderly'
  BY <1>4, ReactStep, AwaitStep
<1>5. ASSUME NEW kind \in Kind, NEW values \in {<<>>} \cup (Made \X Made), Aggregate(kind, values)
      PROVE  Orderly'
  BY <1>5, AggregateStep
<1>6. ASSUME NEW r \in Value \cup Made, NEW then \in Then, Return(r, then)
      PROVE  Orderly'
  BY <1>6, ReturnStep
<1>7. ASSUME NEW then \in Then, RunJob(then)
      PROVE  Orderly'
  <2>1. Enter(Head(execution.jobs)) \/ Propagate(Head(execution.jobs), then)
    BY <1>7 DEF RunJob
  <2> QED
    BY <1>7, <2>1, EnterStep, PropagateStep
<1>8. ASSUME NEW p \in Promise, NEW r \in {"plain", "rejected"}, ReceiveHostReply(p, r, "none")
      PROVE  Orderly'
  <2>1. r \in Result
    BY DEF Result, Settled, Value
  <2> QED
    BY <1>8, <2>1, ReceiveHostReplyStep
<1>9. CASE UNCHANGED vars
  BY <1>9, NothingHappens
<1> QED
  BY <1>1, <1>2, <1>3, <1>4, <1>5, <1>6, <1>7, <1>8, <1>9 DEF Next

LEMMA OrderlyThroughout == Spec => []Orderly
BY InitIsInOrder, OrderlyStep, PTL DEF Spec
-----------------------------------------------------------------------------
(* What the books say of the things that settle a promise: the sets that the  *)
(* properties count are the ones the books do.                                *)
AllWaits(kinds, p) == UNION {Waits(kind, p) : kind \in kinds}
AllQueued(kinds, p) == UNION {Queued(kind, p) : kind \in kinds}

LEMMA PlacesAreWaits ==
    ASSUME NEW X, NEW kinds, NEW p, Typed(execution, origin),
           \A w \in WaitersOf(origin) : w \in X <=> w.kind \in kinds /\ w.p = p
    PROVE  Places(execution.promise_waiters, X) = AllWaits(kinds, p)
<1> DEFINE ws == execution.promise_waiters
           S == WaitersOf(origin)
<1>1. ws \in [Promise -> Seq(S)]
  BY DEF Typed
<1>2. \A w \in S : w \in X <=> w.kind \in kinds /\ w.p = p
  OBVIOUS
<1> HIDE DEF S
<1>3. ASSUME NEW q \in Promise, NEW i \in DOMAIN ws[q]
      PROVE  ws[q][i] \in X <=> ws[q][i].kind \in kinds /\ ws[q][i].p = p
  <2>1. ws[q] \in Seq(S)
    BY <1>1
  <2> HIDE DEF ws
  <2>2. ws[q][i] \in S
    BY <2>1, LenProperties, ElementOfSeq
  <2> QED
    BY <1>2, <2>2
<1>4. \A x : x \in Places(ws, X) <=>
        \E q \in Promise : \E i \in DOMAIN ws[q] : x = <<q, i>> /\ ws[q][i] \in X
  BY DEF Places, PlacesIn, Positions
<1>5. \A kind, x : x \in Waits(kind, p) <=>
        \E q \in Promise : \E i \in DOMAIN ws[q] :
            x = <<q, i>> /\ ws[q][i].kind = kind /\ ws[q][i].p = p
  BY DEF Waits, Waiting
<1> HIDE DEF ws
<1>6. \A x : x \in Places(ws, X) <=> \E kind \in kinds : x \in Waits(kind, p)
  BY <1>3, <1>4, <1>5
<1>7. Places(ws, X) = AllWaits(kinds, p)
  BY <1>6 DEF AllWaits
<1> QED
  BY <1>7 DEF ws

LEMMA WaitsCounted ==
    ASSUME NEW p, Typed(execution, origin)
    PROVE  /\ \A kind : IsFiniteSet(Waits(kind, p)) /\ Cardinality(Waits(kind, p)) \in Nat
           /\ \A k, l : k # l => Waits(k, p) \cap Waits(l, p) = {}
<1> DEFINE ws == execution.promise_waiters
           S == WaitersOf(origin)
<1>1. ws \in [Promise -> Seq(S)]
  BY DEF Typed
<1>2. ASSUME NEW kind
      PROVE  IsFiniteSet(Waits(kind, p))
  <2> DEFINE X == {w \in S : w.kind \in {kind} /\ w.p = p}
  <2>1. \A w \in S : w \in X <=> w.kind \in {kind} /\ w.p = p
    OBVIOUS
  <2> HIDE DEF X
  <2>2. Places(ws, X) = AllWaits({kind}, p)
    BY <2>1, PlacesAreWaits
  <2>3. Places(ws, X) = Waits(kind, p)
    BY <2>2 DEF AllWaits
  <2> HIDE DEF ws, S
  <2>4. IsFiniteSet(PlacesIn(Promise, ws, X))
    BY <1>1, PlacesFinite
  <2> QED
    BY <2>3, <2>4 DEF Places
<1>3. ASSUME NEW k, NEW l, k # l
      PROVE  Waits(k, p) \cap Waits(l, p) = {}
  <2>1. ASSUME NEW x, x \in Waits(k, p), x \in Waits(l, p)
        PROVE  FALSE
    <3>1. PICK q \in Promise : \E i \in DOMAIN ws[q] : x = <<q, i>> /\ ws[q][i].kind = k
      BY <2>1 DEF Waits, Waiting
    <3>2. PICK r \in Promise : \E j \in DOMAIN ws[r] : x = <<r, j>> /\ ws[r][j].kind = l
      BY <2>1 DEF Waits, Waiting
    <3> HIDE DEF ws
    <3> QED
      BY <1>3, <3>1, <3>2
  <2> QED
    BY <2>1
<1> QED
  BY <1>2, <1>3, FS_CardinalityType

LEMMA PositionsAreQueued ==
    ASSUME NEW X, NEW kinds, NEW p, Typed(execution, origin),
           \A j \in JobsOf(origin) : j \in X <=> j.kind \in kinds /\ j.p = p
    PROVE  Positions(execution.jobs, X) = AllQueued(kinds, p)
<1> DEFINE jobs == execution.jobs
           S == JobsOf(origin)
<1>1. jobs \in Seq(S)
  BY DEF Typed
<1>2. \A j \in S : j \in X <=> j.kind \in kinds /\ j.p = p
  OBVIOUS
<1>3. \A kind : Queued(kind, p) = {i \in DOMAIN jobs : jobs[i].kind = kind /\ jobs[i].p = p}
  BY DEF Queued
<1> HIDE DEF S, jobs
<1>4. \A i \in DOMAIN jobs : jobs[i] \in S
  BY <1>1, LenProperties, ElementOfSeq
<1>5. \A i : i \in Positions(jobs, X) <=> \E kind \in kinds : i \in Queued(kind, p)
  BY <1>2, <1>3, <1>4 DEF Positions
<1>6. Positions(jobs, X) = AllQueued(kinds, p)
  BY <1>5 DEF AllQueued
<1> QED
  BY <1>6 DEF jobs

LEMMA QueuedCounted ==
    ASSUME NEW p, Typed(execution, origin)
    PROVE  /\ \A kind : IsFiniteSet(Queued(kind, p)) /\ Cardinality(Queued(kind, p)) \in Nat
           /\ \A k, l : k # l => Queued(k, p) \cap Queued(l, p) = {}
<1>1. execution.jobs \in Seq(JobsOf(origin))
  BY DEF Typed
<1>2. IsFiniteSet(DOMAIN execution.jobs)
  <2>1. DOMAIN execution.jobs = 1..Len(execution.jobs) /\ Len(execution.jobs) \in Nat
    BY <1>1, LenProperties
  <2> QED
    BY <2>1, FS_Interval
<1>3. \A kind : Queued(kind, p) \subseteq DOMAIN execution.jobs
  BY DEF Queued
<1>4. \A kind : IsFiniteSet(Queued(kind, p))
  BY <1>2, <1>3, FS_Subset
<1>5. \A k, l : k # l => Queued(k, p) \cap Queued(l, p) = {}
  BY DEF Queued
<1> QED
  BY <1>4, <1>5, FS_CardinalityType

LEMMA PositionsAreRunning ==
    ASSUME NEW kinds, NEW X, NEW p, Handled(origin, assimilated.thenables, callers),
           \A b \in BoundariesOf(origin) : b \in X <=> b.kind \in kinds /\ b.p = p
    PROVE  Positions(callers, X) = Running(kinds, p)
<1> DEFINE S == BoundariesOf(origin)
<1>1. callers \in Seq(S) /\ \A b \in S : b \in X <=> b.kind \in kinds /\ b.p = p
  BY DEF Handled
<1> HIDE DEF S
<1>2. \A i \in DOMAIN callers : callers[i] \in S
  BY <1>1, LenProperties, ElementOfSeq
<1> QED
  BY <1>1, <1>2 DEF Positions, Running

(* Adding up.                                                                 *)
LEMMA OfBoth ==
    ASSUME NEW A, NEW B, IsFiniteSet(A), IsFiniteSet(B), A \cap B = {}
    PROVE  /\ IsFiniteSet(A \cup B)
           /\ Cardinality(A \cup B) = Cardinality(A) + Cardinality(B)
<1>1. /\ IsFiniteSet(A \cup B)
      /\ Cardinality(A \cup B) = Cardinality(A) + Cardinality(B) - Cardinality(A \cap B)
  BY FS_Union
<1>2. Cardinality(A) \in Nat /\ Cardinality(B) \in Nat
  BY FS_CardinalityType
<1>3. Cardinality(A \cap B) = 0
  BY FS_EmptySet
<1> QED
  BY <1>1, <1>2, <1>3

LEMMA WaitsAddUp ==
    ASSUME NEW p, Typed(execution, origin)
    PROVE  /\ AllWaits({}, p) = {} /\ Cardinality(AllWaits({}, p)) = 0
           /\ \A k : AllWaits({k}, p) = Waits(k, p)
           /\ Cardinality(AllWaits({"then", "finally", "finally_adopt"}, p))
                = Cardinality(Waits("then", p)) + Cardinality(Waits("finally", p))
                  + Cardinality(Waits("finally_adopt", p))
<1>1. /\ AllWaits({}, p) = {} /\ \A k : AllWaits({k}, p) = Waits(k, p)
      /\ AllWaits({"then", "finally", "finally_adopt"}, p)
            = Waits("then", p) \cup Waits("finally", p) \cup Waits("finally_adopt", p)
  BY DEF AllWaits
<1>2. /\ \A kind : IsFiniteSet(Waits(kind, p))
      /\ \A k, l : k # l => Waits(k, p) \cap Waits(l, p) = {}
  BY WaitsCounted
<1> DEFINE A == Waits("then", p)
           B == Waits("finally", p)
           C == Waits("finally_adopt", p)
<1>3. /\ IsFiniteSet(A) /\ IsFiniteSet(B) /\ IsFiniteSet(C)
      /\ A \cap B = {} /\ A \cap C = {} /\ B \cap C = {}
  BY <1>2
<1> HIDE DEF A, B, C
<1>4. Cardinality(A \cup B \cup C) = Cardinality(A) + Cardinality(B) + Cardinality(C)
  <2> DEFINE AB == A \cup B
  <2>1. IsFiniteSet(AB) /\ Cardinality(AB) = Cardinality(A) + Cardinality(B)
    BY <1>3, OfBoth
  <2>2. AB \cap C = {}
    BY <1>3
  <2> HIDE DEF AB
  <2>3. Cardinality(AB \cup C) = Cardinality(AB) + Cardinality(C)
    BY <1>3, <2>1, <2>2, OfBoth
  <2> QED
    BY <2>1, <2>3 DEF AB
<1>5. Cardinality({}) = 0
  BY FS_EmptySet
<1> QED
  BY <1>1, <1>4, <1>5 DEF A, B, C

LEMMA QueuedAddUp ==
    ASSUME NEW p, Typed(execution, origin)
    PROVE  /\ AllQueued({}, p) = {} /\ Cardinality(AllQueued({}, p)) = 0
           /\ \A k : AllQueued({k}, p) = Queued(k, p)
           /\ Cardinality(AllQueued({"then", "finally", "settle_promise"}, p))
                = Cardinality(Queued("then", p)) + Cardinality(Queued("finally", p))
                  + Cardinality(Queued("settle_promise", p))
           /\ Cardinality(AllQueued({"settle_assimilated", "assimilate_thenable"}, p))
                = Cardinality(Queued("settle_assimilated", p))
                  + Cardinality(Queued("assimilate_thenable", p))
<1>1. /\ AllQueued({}, p) = {} /\ \A k : AllQueued({k}, p) = Queued(k, p)
      /\ AllQueued({"then", "finally", "settle_promise"}, p)
            = Queued("then", p) \cup Queued("finally", p) \cup Queued("settle_promise", p)
      /\ AllQueued({"settle_assimilated", "assimilate_thenable"}, p)
            = Queued("settle_assimilated", p) \cup Queued("assimilate_thenable", p)
  BY DEF AllQueued
<1>2. /\ \A kind : IsFiniteSet(Queued(kind, p))
      /\ \A k, l : k # l => Queued(k, p) \cap Queued(l, p) = {}
  BY QueuedCounted
<1> DEFINE A == Queued("then", p)
           B == Queued("finally", p)
           C == Queued("settle_promise", p)
           D == Queued("settle_assimilated", p)
           E == Queued("assimilate_thenable", p)
<1>3. /\ IsFiniteSet(A) /\ IsFiniteSet(B) /\ IsFiniteSet(C) /\ IsFiniteSet(D) /\ IsFiniteSet(E)
      /\ A \cap B = {} /\ A \cap C = {} /\ B \cap C = {} /\ D \cap E = {}
  BY <1>2
<1> HIDE DEF A, B, C, D, E
<1>4. Cardinality(A \cup B \cup C) = Cardinality(A) + Cardinality(B) + Cardinality(C)
  <2> DEFINE AB == A \cup B
  <2>1. IsFiniteSet(AB) /\ Cardinality(AB) = Cardinality(A) + Cardinality(B)
    BY <1>3, OfBoth
  <2>2. AB \cap C = {}
    BY <1>3
  <2> HIDE DEF AB
  <2>3. Cardinality(AB \cup C) = Cardinality(AB) + Cardinality(C)
    BY <1>3, <2>1, <2>2, OfBoth
  <2> QED
    BY <2>1, <2>3 DEF AB
<1>5. Cardinality(D \cup E) = Cardinality(D) + Cardinality(E)
  BY <1>3, OfBoth
<1>6. Cardinality({}) = 0
  BY FS_EmptySet
<1> QED
  BY <1>1, <1>4, <1>5, <1>6 DEF A, B, C, D, E

(* What settles p is of the kinds that go with its origin.                    *)
KindsOf(how) ==
    CASE how = "async" -> [w |-> {"coroutine"}, j |-> {"resume_coroutine"}, b |-> {"async"}]
      [] how = "reaction" -> [w |-> {"then", "finally", "finally_adopt"},
                              j |-> {"then", "finally", "settle_promise"},
                              b |-> {"then", "finally"}]
      [] OTHER -> [w |-> {}, j |-> {}, b |-> {}]

LEMMA SettlesByKind ==
    ASSUME Orderly, NEW p \in Promise
    PROVE  LET kinds == KindsOf(origin[p])
           IN  Load(execution, Settles(p)) + Count(callers, Settles(p).b)
                = Cardinality(AllWaits(kinds.w, p)) + Cardinality(AllQueued(kinds.j, p))
                  + Cardinality(Running(kinds.b, p))
<1> DEFINE kinds == KindsOf(origin[p])
           X == Settles(p)
<1>1. Typed(execution, origin) /\ Handled(origin, assimilated.thenables, callers)
  BY DEF Orderly, Book
<1>2. /\ origin[p] = "async" =>
            kinds.w = {"coroutine"} /\ kinds.j = {"resume_coroutine"} /\ kinds.b = {"async"}
      /\ origin[p] = "reaction" =>
            /\ kinds.w = {"then", "finally", "finally_adopt"}
            /\ kinds.j = {"then", "finally", "settle_promise"} /\ kinds.b = {"then", "finally"}
      /\ origin[p] \notin {"async", "reaction"} =>
            kinds.w = {} /\ kinds.j = {} /\ kinds.b = {}
  BY DEF KindsOf
<1> HIDE DEF kinds
<1>3. ASSUME NEW w \in WaitersOf(origin)
      PROVE  w \in X.w <=> w.kind \in kinds.w /\ w.p = p
  <2>1. w \in X.w <=> w.p = p /\ w.kind \in {"coroutine", "then", "finally", "finally_adopt"}
    BY WaiterClass
  <2>2. origin[w.p] \in Source(w.kind)
    BY DEF WaitersOf
  <2> QED
    BY <1>2, <2>1, <2>2 DEF Source
<1>4. ASSUME NEW j \in JobsOf(origin)
      PROVE  j \in X.j <=> j.kind \in kinds.j /\ j.p = p
  <2>1. j \in X.j <=>
            j.p = p /\ j.kind \in {"resume_coroutine", "then", "finally", "settle_promise"}
    BY JobClass
  <2>2. origin[j.p] \in Source(j.kind)
    BY DEF JobsOf
  <2> QED
    BY <1>2, <2>1, <2>2 DEF Source
<1>5. ASSUME NEW b \in BoundariesOf(origin)
      PROVE  b \in X.b <=> b.kind \in kinds.b /\ b.p = p
  <2>1. b \in X.b <=> b.kind \in SettlingBoundary /\ b.p = p
    BY BoundaryClass DEF BoundariesOf
  <2>2. b.kind # "root" => origin[b.p] \in Source(b.kind)
    BY DEF BoundariesOf
  <2> QED
    BY <1>2, <2>1, <2>2 DEF Source, SettlingBoundary
<1>6. X.s = {} /\ Positions(execution.sync_jobs, {}) = {}
  BY DEF Settles, Class, Positions
<1> HIDE DEF X
<1>7. Places(execution.promise_waiters, X.w) = AllWaits(kinds.w, p)
  BY <1>1, <1>3, PlacesAreWaits
<1>8. Positions(execution.jobs, X.j) = AllQueued(kinds.j, p)
  BY <1>1, <1>4, PositionsAreQueued
<1>9. Positions(callers, X.b) = Running(kinds.b, p)
  BY <1>1, <1>5, PositionsAreRunning
<1>10. /\ Load(execution, X) \in Nat /\ Count(execution.jobs, X.j) \in Nat
       /\ Cardinality(Places(execution.promise_waiters, X.w)) \in Nat
  BY <1>1, LoadIsNat
<1>11. Count(execution.sync_jobs, X.s) = 0
  BY <1>6, FS_EmptySet DEF Count
<1>12. Load(execution, X) + Count(callers, X.b)
        = Cardinality(AllWaits(kinds.w, p)) + Cardinality(AllQueued(kinds.j, p))
          + Cardinality(Running(kinds.b, p))
  BY <1>7, <1>8, <1>9, <1>10, <1>11 DEF Load, Count
<1> QED
  BY <1>12 DEF X, kinds

LEMMA SettlersMatch ==
    ASSUME Orderly, NEW p \in Promise, origin[p] \in {"async", "reaction", "aggregate", "host"}
    PROVE  Settlers(p) = SettlersIn(execution, callers, p)
<1> DEFINE kinds == KindsOf(origin[p])
           load == Load(execution, Settles(p)) + Count(callers, Settles(p).b)
<1>1. Typed(execution, origin) /\ Handled(origin, assimilated.thenables, callers)
  BY DEF Orderly, Book
<1>2. load = Cardinality(AllWaits(kinds.w, p)) + Cardinality(AllQueued(kinds.j, p))
             + Cardinality(Running(kinds.b, p))
  BY SettlesByKind
<1>3. /\ p \in DOMAIN execution.promise_aggregates => origin[p] = "aggregate"
      /\ p \in execution.operations => origin[p] = "host"
  BY <1>1 DEF Typed
<1>4. SettlersIn(execution, callers, p)
        = load + Bit(p \in DOMAIN execution.promise_aggregates) + Bit(p \in execution.operations)
      /\ load \in Nat
  BY <1>1, SettlersAreNat DEF SettlersIn
<1>5. \A K : Cardinality(Running(K, p)) \in Nat /\ Running({}, p) = {}
  <2>1. IsFiniteSet(DOMAIN callers)
    <3>1. callers \in Seq(BoundariesOf(origin))
      BY <1>1 DEF Handled
    <3>2. DOMAIN callers = 1..Len(callers) /\ Len(callers) \in Nat
      BY <3>1, LenProperties
    <3> QED
      BY <3>2, FS_Interval
  <2>2. \A K : Running(K, p) \subseteq DOMAIN callers /\ Running({}, p) = {}
    BY DEF Running
  <2> QED
    BY <2>1, <2>2, FS_Subset, FS_CardinalityType
<1>6. /\ \A k : Cardinality(Waits(k, p)) \in Nat /\ AllWaits({k}, p) = Waits(k, p)
      /\ \A k : Cardinality(Queued(k, p)) \in Nat /\ AllQueued({k}, p) = Queued(k, p)
      /\ Cardinality(AllWaits({}, p)) = 0 /\ Cardinality(AllQueued({}, p)) = 0
  BY <1>1, WaitsAddUp, QueuedAddUp, WaitsCounted, QueuedCounted
<1> HIDE DEF load
<1>7. CASE origin[p] = "async"
  <2>1. kinds.w = {"coroutine"} /\ kinds.j = {"resume_coroutine"} /\ kinds.b = {"async"}
    BY <1>7 DEF KindsOf
  <2>2. SettlersIn(execution, callers, p) = load
    BY <1>3, <1>4, <1>7 DEF Bit
  <2>3. Settlers(p) = Cardinality(Running({"async"}, p)) + Cardinality(Waits("coroutine", p))
                      + Cardinality(Queued("resume_coroutine", p))
    BY <1>7 DEF Settlers
  <2>4. load = Cardinality(Waits("coroutine", p)) + Cardinality(Queued("resume_coroutine", p))
               + Cardinality(Running({"async"}, p))
    BY <1>2, <1>6, <2>1
  <2> QED
    BY <1>5, <1>6, <2>2, <2>3, <2>4
<1>8. CASE origin[p] = "reaction"
  <2>1. /\ kinds.w = {"then", "finally", "finally_adopt"}
        /\ kinds.j = {"then", "finally", "settle_promise"} /\ kinds.b = {"then", "finally"}
    BY <1>8 DEF KindsOf
  <2>2. SettlersIn(execution, callers, p) = load
    BY <1>3, <1>4, <1>8 DEF Bit
  <2>3. Settlers(p) =
            Cardinality(Running({"then", "finally"}, p)) + Cardinality(Waits("then", p))
            + Cardinality(Waits("finally", p)) + Cardinality(Waits("finally_adopt", p))
            + Cardinality(Queued("then", p)) + Cardinality(Queued("finally", p))
            + Cardinality(Queued("settle_promise", p))
    BY <1>8 DEF Settlers
  <2>4. load = (Cardinality(Waits("then", p)) + Cardinality(Waits("finally", p))
                  + Cardinality(Waits("finally_adopt", p)))
               + (Cardinality(Queued("then", p)) + Cardinality(Queued("finally", p))
                  + Cardinality(Queued("settle_promise", p)))
               + Cardinality(Running({"then", "finally"}, p))
    BY <1>1, <1>2, <2>1, WaitsAddUp, QueuedAddUp
  <2> QED
    BY <1>5, <1>6, <2>2, <2>3, <2>4
<1>9. CASE origin[p] \in {"aggregate", "host"}
  <2>1. kinds.w = {} /\ kinds.j = {} /\ kinds.b = {}
    BY <1>9 DEF KindsOf
  <2>2. load = 0
    <3>1. Cardinality(Running({}, p)) = 0
      BY <1>5, FS_EmptySet
    <3> QED
      BY <1>2, <1>6, <2>1, <3>1
  <2>3. SettlersIn(execution, callers, p)
          = Bit(p \in DOMAIN execution.promise_aggregates) + Bit(p \in execution.operations)
    BY <1>4, <2>2 DEF Bit
  <2> QED
    BY <1>3, <1>9, <2>3 DEF Settlers, Bit
<1> QED
  BY <1>7, <1>8, <1>9

LEMMA ResolversMatch ==
    ASSUME Orderly, NEW p \in Promise
    PROVE  Resolvers(p) = ResolversIn(execution, callers, p)
<1> DEFINE X == Resolves(p)
<1>1. Typed(execution, origin) /\ Handled(origin, assimilated.thenables, callers)
  BY DEF Orderly, Book
<1>2. \A w \in WaitersOf(origin) : w \in X.w <=> w.kind \in {"adopt"} /\ w.p = p
  BY WaiterClass
<1>3. \A j \in JobsOf(origin) :
        j \in X.j <=> j.kind \in {"settle_assimilated", "assimilate_thenable"} /\ j.p = p
  BY JobClass
<1>4. \A b \in BoundariesOf(origin) : b \in X.b <=> b.kind \in {"getter"} /\ b.p = p
  BY BoundaryClass DEF BoundariesOf
<1>5. X.s = {p}
  BY DEF Resolves, Class
<1> HIDE DEF X
<1>6. Places(execution.promise_waiters, X.w) = Waits("adopt", p)
  <2>1. Places(execution.promise_waiters, X.w) = AllWaits({"adopt"}, p)
    BY <1>1, <1>2, PlacesAreWaits
  <2> QED
    BY <1>1, <2>1, WaitsAddUp
<1>7. Positions(execution.jobs, X.j) = AllQueued({"settle_assimilated", "assimilate_thenable"}, p)
  BY <1>1, <1>3, PositionsAreQueued
<1>8. Count(execution.jobs, X.j)
        = Cardinality(Queued("settle_assimilated", p)) + Cardinality(Queued("assimilate_thenable", p))
  BY <1>1, <1>7, QueuedAddUp DEF Count
<1>9. Positions(callers, X.b) = Running({"getter"}, p)
  BY <1>1, <1>4, PositionsAreRunning
<1>10. Positions(execution.sync_jobs, X.s)
        = {i \in DOMAIN execution.sync_jobs : execution.sync_jobs[i] = p}
  BY <1>5 DEF Positions
<1>11. /\ Cardinality(Waits("adopt", p)) \in Nat /\ Cardinality(Queued("settle_assimilated", p)) \in Nat
       /\ Cardinality(Queued("assimilate_thenable", p)) \in Nat
  BY <1>1, WaitsCounted, QueuedCounted
<1>12. Count(execution.sync_jobs, X.s) \in Nat /\ Count(callers, X.b) \in Nat
  BY <1>1, LoadIsNat, SettlersAreNat DEF X
<1>13. ResolversIn(execution, callers, p)
        = Cardinality(Waits("adopt", p))
          + (Cardinality(Queued("settle_assimilated", p)) + Cardinality(Queued("assimilate_thenable", p)))
          + Count(execution.sync_jobs, X.s) + Count(callers, X.b)
  BY <1>6, <1>8 DEF ResolversIn, Load, X
<1>14. Resolvers(p) = Cardinality(Waits("adopt", p)) + Cardinality(Queued("settle_assimilated", p))
        + Cardinality(Queued("assimilate_thenable", p)) + Count(callers, X.b)
        + Count(execution.sync_jobs, X.s)
  BY <1>9, <1>10 DEF Resolvers, Count
<1> QED
  BY <1>11, <1>12, <1>13, <1>14

(* The reports of an aggregate that are out, and the aggregate itself.        *)
LEMMA ReportsMatch ==
    ASSUME Orderly, NEW a \in Promise, NEW i
    PROVE  Cardinality({x \in Waits("aggregate", a) :
                            execution.promise_waiters[x[1]][x[2]].i = i})
           + Cardinality({j \in Queued("aggregate_settle", a) : execution.jobs[j].i = i})
           = Load(execution, Reports(a, i))
<1> DEFINE ws == execution.promise_waiters
           jobs == execution.jobs
           S == WaitersOf(origin)
           J == JobsOf(origin)
           X == Reports(a, i)
<1>1. Typed(execution, origin)
  BY DEF Orderly, Book
<1>2. ws \in [Promise -> Seq(S)] /\ jobs \in Seq(J)
  BY <1>1 DEF Typed
<1>3. /\ \A w \in S : w \in X.w <=> w.p = a /\ w.kind = "aggregate" /\ w.i = i
      /\ \A j \in J : j \in X.j <=> j.p = a /\ j.kind = "aggregate_settle" /\ j.i = i
  BY WaiterClass, JobClass
<1>4. X.s = {} /\ Positions(execution.sync_jobs, {}) = {}
  BY DEF Reports, Class, Positions
<1>5. Waits("aggregate", a)
        = UNION {{<<q, k>> : k \in {l \in DOMAIN ws[q] : ws[q][l].kind = "aggregate" /\ ws[q][l].p = a}} :
                   q \in Promise}
  BY DEF Waits, Waiting
<1>6. Queued("aggregate_settle", a) = {k \in DOMAIN jobs : jobs[k].kind = "aggregate_settle" /\ jobs[k].p = a}
  BY DEF Queued
<1> HIDE DEF ws, jobs, S, J, X
<1>7. {x \in Waits("aggregate", a) : ws[x[1]][x[2]].i = i} = Places(ws, X.w)
  <2>1. ASSUME NEW q \in Promise, NEW k \in DOMAIN ws[q]
        PROVE  ws[q][k] \in X.w <=>
                 ws[q][k].p = a /\ ws[q][k].kind = "aggregate" /\ ws[q][k].i = i
    <3>1. ws[q] \in Seq(S)
      BY <1>2
    <3>2. ws[q][k] \in S
      BY <3>1, LenProperties, ElementOfSeq
    <3> QED
      BY <1>3, <3>2
  <2>2. \A x : x \in Places(ws, X.w) <=>
          \E q \in Promise : \E k \in DOMAIN ws[q] : x = <<q, k>> /\ ws[q][k] \in X.w
    BY DEF Places, PlacesIn, Positions
  <2>3. \A x : x \in Waits("aggregate", a) <=>
          \E q \in Promise : \E k \in DOMAIN ws[q] :
              x = <<q, k>> /\ ws[q][k].kind = "aggregate" /\ ws[q][k].p = a
    BY <1>5
  <2>4. ASSUME NEW x
        PROVE  x \in Places(ws, X.w) <=> x \in Waits("aggregate", a) /\ ws[x[1]][x[2]].i = i
    <3>1. ASSUME x \in Places(ws, X.w)
          PROVE  x \in Waits("aggregate", a) /\ ws[x[1]][x[2]].i = i
      <4>1. PICK q \in Promise : \E k \in DOMAIN ws[q] : x = <<q, k>> /\ ws[q][k] \in X.w
        BY <2>2, <3>1
      <4> QED
        BY <2>1, <2>3, <4>1
    <3>2. ASSUME x \in Waits("aggregate", a), ws[x[1]][x[2]].i = i
          PROVE  x \in Places(ws, X.w)
      <4>1. PICK q \in Promise : \E k \in DOMAIN ws[q] :
                x = <<q, k>> /\ ws[q][k].kind = "aggregate" /\ ws[q][k].p = a
        BY <2>3, <3>2
      <4> QED
        BY <2>1, <2>2, <3>2, <4>1
    <3> QED
      BY <3>1, <3>2
  <2> QED
    BY <2>4
<1>8. {j \in Queued("aggregate_settle", a) : jobs[j].i = i} = Positions(jobs, X.j)
  <2>1. \A k \in DOMAIN jobs : jobs[k] \in J
    BY <1>2, LenProperties, ElementOfSeq
  <2> QED
    BY <1>3, <1>6, <2>1 DEF Positions
<1>9. Count(execution.sync_jobs, X.s) = 0
  BY <1>4, FS_EmptySet DEF Count
<1>10. Count(jobs, X.j) \in Nat /\ Cardinality(Places(ws, X.w)) \in Nat
  BY <1>1, LoadIsNat DEF ws, jobs
<1>11. Load(execution, X) = Cardinality(Places(ws, X.w)) + Count(jobs, X.j)
  BY <1>9, <1>10 DEF Load, ws, jobs
<1> QED
  BY <1>7, <1>8, <1>11 DEF Count, ws, jobs, X

LEMMA OrderlyCounts == Orderly => SettledByOne
<1> SUFFICES ASSUME Orderly
             PROVE  SettledByOne
  OBVIOUS
<1>1. /\ Typed(execution, origin) /\ Handled(origin, assimilated.thenables, callers)
      /\ Balanced(execution, origin, assimilated.thenables, callers)
      /\ final \in Made \cup {None}
  BY DEF Orderly, Book
<1>2. TypeOK
  <2>1. /\ execution.promises \in [Promise -> Unsettled \cup Settled]
        /\ DOMAIN execution.promise_aggregates \subseteq Made
        /\ execution.operations \subseteq Made
    BY <1>1 DEF Typed, Made
  <2>2. \A i \in DOMAIN callers : callers[i] \in Boundary
    <3> DEFINE S == BoundariesOf(origin)
    <3>1. callers \in Seq(S) /\ S \subseteq Boundary
      BY <1>1 DEF Handled, BoundariesOf
    <3> HIDE DEF S
    <3> QED
      BY <3>1, LenProperties, ElementOfSeq
  <2> QED
    BY <1>1, <2>1, <2>2 DEF TypeOK
<1>3. OneSettler
  <2> SUFFICES ASSUME NEW p \in Made, origin[p] \notin {"constructor", "completion"}
               PROVE  Settlers(p) = IF execution.promises[p] = "pending" /\ origin[p] # "empty_race"
                                        THEN 1 ELSE 0
    BY DEF OneSettler
  <2>1. p \in Promise /\ origin[p] \in {"async", "reaction", "aggregate", "host", "empty_race"}
    BY <1>1 DEF Made, Handled, Origins
  <2>2. CASE origin[p] = "empty_race"
    BY <2>2 DEF Settlers
  <2>3. CASE origin[p] \in {"async", "reaction", "aggregate", "host"}
    <3>1. Settlers(p) = SettlersIn(execution, callers, p)
      BY <2>1, <2>3, SettlersMatch
    <3>2. BalancedAt(execution, origin, assimilated.thenables, callers, p, 0, 0)
      BY <1>1, <2>1 DEF Balanced
    <3>3. SettlersIn(execution, callers, p) = Bit(Owed(execution, origin, p))
      BY <3>2 DEF BalancedAt, Bit
    <3> QED
      BY <2>3, <3>1, <3>3 DEF Owed, Bit
  <2> QED
    BY <2>1, <2>2, <2>3
<1>4. OneResolution
  <2> SUFFICES ASSUME NEW p \in Made \ assimilated.thenables
               PROVE  Resolvers(p) = IF execution.promises[p] = "resolving" THEN 1 ELSE 0
    BY DEF OneResolution
  <2>1. p \in Promise
    BY DEF Made
  <2>2. Resolvers(p) = ResolversIn(execution, callers, p)
    BY <2>1, ResolversMatch
  <2>3. BalancedAt(execution, origin, assimilated.thenables, callers, p, 0, 0)
    BY <1>1, <2>1 DEF Balanced
  <2> QED
    BY <2>2, <2>3 DEF BalancedAt, Bit
<1> QED
  BY <1>2, <1>3, <1>4 DEF SettledByOne

LEMMA OrderlyAggregates == Orderly => AggregateExact
<1> SUFFICES ASSUME Orderly
             PROVE  AggregateExact
  OBVIOUS
<1>1. /\ Typed(execution, origin) /\ Handled(origin, assimilated.thenables, callers)
      /\ Balanced(execution, origin, assimilated.thenables, callers)
  BY DEF Orderly, Book
<1> DEFINE index(a, i) ==
             Cardinality({x \in Waits("aggregate", a) :
                             execution.promise_waiters[x[1]][x[2]].i = i})
             + Cardinality({j \in Queued("aggregate_settle", a) : execution.jobs[j].i = i})
           out(a) == {i \in 1..2 : index(a, i) = 1}
<1>2. ASSUME NEW a \in DOMAIN execution.promise_aggregates
      PROVE  /\ execution.promises[a] = "pending"
             /\ \A i \in 1..2 : index(a, i) <= 1
             /\ out(a) # {}
             /\ \/ execution.promise_aggregates[a].remaining = Cardinality(out(a))
                \/ execution.promise_aggregates[a].kind = "race"
  <2>1. a \in Promise
    BY <1>1 DEF Typed
  <2>2. \A i : index(a, i) = Load(execution, Reports(a, i))
    BY <2>1, ReportsMatch
  <2> HIDE DEF index
  <2>3. BalancedAt(execution, origin, assimilated.thenables, callers, a, 0, 0)
    BY <1>1, <2>1 DEF Balanced
  <2>4. execution.promises[a] = "pending"
    <3>1. SettlersIn(execution, callers, a) = Bit(Owed(execution, origin, a))
      BY <2>3 DEF BalancedAt, Bit
    <3>2. SettlersIn(execution, callers, a) >= 1
      <4>1. /\ Load(execution, Settles(a)) \in Nat /\ Count(callers, Settles(a).b) \in Nat
        BY <1>1, SettlersAreNat
      <4> QED
        BY <4>1 DEF SettlersIn, Bit
    <3> QED
      BY <3>1, <3>2 DEF Bit, Owed
  <2>5. Exact(execution, a)
    BY <2>3 DEF BalancedAt
  <2>6. out(a) = Unreported(execution, a)
    BY <2>2 DEF Unreported
  <2> QED
    BY <2>2, <2>4, <2>5, <2>6 DEF Exact
<1> QED
  BY <1>2 DEF AggregateExact

(* Every promise that JavaScript does not settle itself has exactly one thing *)
(* that will: the coroutine of an async function, a reaction, a finally's     *)
(* adoption, an aggregate or an operation of the host, running, waiting or    *)
(* queued (await, attach_reaction, aggregate_into, start_host_call), until    *)
(* Promise.settle takes it.  One that is resolving has exactly one resolution *)
(* under way, unless a thenable has been given its resolvers.                 *)
THEOREM OneSettlerEach == Spec => []SettledByOne
<1>1. Orderly => SettledByOne
  BY OrderlyCounts
<1> QED
  BY <1>1, OrderlyThroughout, PTL

(* An aggregate counts exactly the elements that have not reported yet, each  *)
(* of them waits or is queued once, and its promise is pending                *)
(* (update_aggregate and finish_or_store_aggregate).                          *)
THEOREM AggregatesCount == Spec => []AggregateExact
<1>1. Orderly => AggregateExact
  BY OrderlyAggregates
<1> QED
  BY <1>1, OrderlyThroughout, PTL
=============================================================================
