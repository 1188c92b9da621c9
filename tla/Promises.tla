------------------------------- MODULE Promises -------------------------------
(***************************************************************************)
(* Promises of an evaluation on the BEAM (vm/runtime/promise.ex, async.ex  *)
(* and the event loop of vm/runtime.ex).                                   *)
(*                                                                         *)
(* One Elixir process runs the JavaScript of an evaluation and owns its    *)
(* promises, their waiters and the queue of jobs.  JavaScript is any       *)
(* sequence of the operations that touch promises; `callers` are the       *)
(* boundaries its frames stand on, so that an await can detach an async    *)
(* function from what called it.  Handlers of Beam.call run in other       *)
(* processes (module HostOperations); here their replies arrive in any     *)
(* order, when the event loop receives.                                    *)
(*                                                                         *)
(* Data: a value is a promise, an object that may have a `then`, anything  *)
(* else ("plain"), or what was thrown ("rejected").  A settled promise     *)
(* records which it holds.                                                 *)
(***************************************************************************)
EXTENDS Naturals, Sequences, FiniteSets, SequencesExt

CONSTANTS Promise,       \* bound: the promises one evaluation can make
          MaxDepth,      \* max_stack_depth
          MaxOperations, \* @max_host_operations
          MaxCalls       \* bound: calls of the resolvers of thenables

ASSUME PromisesAssumption ==
    /\ IsFiniteSet(Promise) /\ MaxDepth \in Nat /\ MaxOperations \in Nat
    /\ MaxCalls \in Nat
    /\ Promise \cap {"none", "plain", "object", "rejected"} = {}

None == "none"                     \* no promise
Value == {"plain", "object"}       \* what a promise is fulfilled with
Settled == Value \cup {"rejected"}
Unsettled == {"pending", "resolving"}
Result == Settled \cup Promise     \* what a promise is resolved with

(* What then_callable finds when an object resolves a promise.  JavaScript  *)
(* gives an object without a `then` as "plain"; an "object" has one, but a  *)
(* promise can be fulfilled with it when its getter returned no function.   *)
Then == {"callable", "getter", "none"}
Given(r, then) == r \in Promise \/ (r = "object" <=> then # "none")

(* Waiters of a promise: coroutines of async functions, reactions of then   *)
(* and finally, adoptions, elements of an aggregate.  p is the promise that *)
(* the waiter will settle, i its index in an aggregate, r the completion a  *)
(* finally has to restore.                                                  *)
Waiter(kind, p, i, r) == [kind |-> kind, p |-> p, i |-> i, r |-> r]
Job(kind, p, i, r) == [kind |-> kind, p |-> p, i |-> i, r |-> r]

VARIABLES execution,  \* promises, promise_waiters, jobs, sync_jobs, promise_aggregates, operations
          origin,     \* what made each promise; "free" is one not made yet
          assimilated,\* promises whose resolvers a thenable has been given, and their calls
          callers,    \* boundaries of the running JavaScript, innermost first
          final,      \* the promise the evaluation returned
          outcome     \* what the evaluation ended with, or "none"

Nothing == [promises |-> [p \in Promise |-> "pending"],
            promise_waiters |-> [p \in Promise |-> <<>>],
            jobs |-> <<>>, sync_jobs |-> <<>>,
            promise_aggregates |-> <<>>, operations |-> {}]

vars == <<execution, origin, assimilated, callers, final, outcome>>

Boundary == [kind : {"root", "async", "then", "finally", "thenable", "getter"},
             p : Promise \cup {None}, r : Settled \cup {"none"}]
Bound(kind, p, r) == [kind |-> kind, p |-> p, r |-> r]

Made == {p \in Promise : origin[p] # "free"}
Free == Promise \ Made
-----------------------------------------------------------------------------
(* Promise.enqueue and enqueue_waiter: the job a waiter becomes when what   *)
(* it waits for is settled with v.                                          *)
JobOf(w, v) ==
    CASE w.kind = "coroutine" -> Job("resume_coroutine", w.p, 0, "none")
      [] w.kind = "adopt"     -> Job("settle_assimilated", w.p, 0, v)
      [] w.kind \in {"then", "finally"} -> Job(w.kind, w.p, 0, v)
      [] w.kind = "finally_adopt" ->
            Job("settle_promise", w.p, 0, IF v = "rejected" THEN v ELSE w.r)
      [] w.kind = "aggregate" ->
            Job("aggregate_settle", w.p, w.i, v)

AddWaiter(e, q, w) == [e EXCEPT !.promise_waiters[q] = Append(@, w)]
Enqueue(e, job) == [e EXCEPT !.jobs = Append(@, job)]

(* settle_result: only a pending promise is settled; its waiters become     *)
(* jobs in the order in which they came.                                    *)
SettleResult(e, p, v) ==
    IF e.promises[p] # "pending" THEN e
    ELSE [e EXCEPT !.promises[p] = v,
                   !.promise_waiters[p] = <<>>,
                   !.jobs = @ \o [i \in DOMAIN e.promise_waiters[p] |->
                                     JobOf(e.promise_waiters[p][i], v)]]

(* Promise.settle: resolution.  A promise is adopted, now if it is settled  *)
(* and by waiting if not; an object may be a thenable.  While either goes   *)
(* on the promise is `resolving`.                                           *)
Resolving_Unmarked(e, p) == e
Resolving(e, p) == [e EXCEPT !.promises[p] = "resolving"]
Settle(e, p, r, then) ==
    LET v == CASE r \notin Promise -> r
               [] r = p -> "rejected"
               [] OTHER -> e.promises[r]
    IN  CASE e.promises[p] # "pending" -> e
          [] e.promises[p] = "pending" /\ v \in Unsettled ->
                AddWaiter(Resolving(e, p), r, Waiter("adopt", p, 0, "none"))
          [] e.promises[p] = "pending" /\ v = "object" /\ then = "callable" ->
                Enqueue(Resolving(e, p), Job("assimilate_thenable", p, 0, "none"))
          [] e.promises[p] = "pending" /\ v = "object" /\ then = "getter" ->
                [Resolving(e, p) EXCEPT !.sync_jobs = Append(@, p)]
          [] OTHER -> SettleResult(e, p, v)

(* settle_assimilated: what adoption and the resolvers of a thenable call.  *)
SettleAssimilated_Unlocked(e, p, r, then) ==
    Settle([e EXCEPT !.promises[p] = "pending"], p, r, then)
SettleAssimilated(e, p, r, then) ==
    IF e.promises[p] # "resolving" THEN e
    ELSE Settle([e EXCEPT !.promises[p] = "pending"], p, r, then)

FulfillAssimilated(e, p) ==
    IF e.promises[p] # "resolving" THEN e
    ELSE SettleResult([e EXCEPT !.promises[p] = "pending"], p, "object")

(* await, attach_reaction and add_aggregate_waiter: wait for q, or enqueue  *)
(* the job at once if q is settled.                                         *)
Attach_AlwaysWaits(e, q, w) == AddWaiter(e, q, w)
Attach(e, q, w) ==
    IF e.promises[q] \in Unsettled THEN AddWaiter(e, q, w)
    ELSE Enqueue(e, JobOf(w, e.promises[q]))

(* settle_after_finally: p takes the original completion once q is settled. *)
SettleAfterFinally(e, q, p, original, then) ==
    CASE e.promises[q] \in Unsettled ->
            AddWaiter(e, q, Waiter("finally_adopt", p, 0, original))
      [] e.promises[q] = "rejected" -> Settle(e, p, "rejected", then)
      [] OTHER -> Settle(e, p, original, then)
-----------------------------------------------------------------------------
(* Aggregates, named after the promise they settle.                         *)
Kind == {"all", "all_settled", "any", "race"}

Finish(e, p, r, then) ==
    Settle([e EXCEPT !.promise_aggregates =
                 [a \in DOMAIN @ \ {p} |-> @[a]]], p, r, then)

(* finish_or_store_aggregate, and the same test in the clause of `any`.     *)
FinishOrStore_OneMore(e, p, r) ==
    IF e.promise_aggregates[p].remaining = 0 THEN Finish(e, p, r, "none")
    ELSE [e EXCEPT !.promise_aggregates[p].remaining = @ - 1]
FinishOrStore(e, p, r) ==
    IF e.promise_aggregates[p].remaining = 1 THEN Finish(e, p, r, "none")
    ELSE [e EXCEPT !.promise_aggregates[p].remaining = @ - 1]

(* update_aggregate.  An aggregate that is finished ignores its elements.   *)
SettleAggregate(e, p, r, then) ==
    IF p \notin DOMAIN e.promise_aggregates THEN e
    ELSE LET kind == e.promise_aggregates[p].kind
         IN  CASE \/ kind = "race"
                  \/ kind = "all" /\ r = "rejected"
                  \/ kind = "any" /\ r # "rejected" -> Finish(e, p, r, then)
               [] kind = "any" /\ r = "rejected" -> FinishOrStore(e, p, "rejected")
               [] OTHER -> FinishOrStore(e, p, "plain")

(* The numbers in S, in their order. *)
InOrder(S) ==
    CHOOSE f \in [1..Cardinality(S) -> S] : \A i, j \in DOMAIN f : i < j => f[i] < f[j]

(* aggregate_into: with no elements an aggregate is settled at once, except *)
(* a race, which stays pending; else each element gets a waiter.            *)
AggregateInto(e, p, kind, values) ==
    IF values = <<>> THEN
        CASE kind = "race" -> e
          [] kind = "any" -> SettleResult(e, p, "rejected")
          [] OTHER -> SettleResult(e, p, "plain")
    ELSE LET waiter(i) == Waiter("aggregate", p, i, "none")
             pending(q) == InOrder({i \in DOMAIN values : values[i] = q
                                                          /\ e.promises[q] \in Unsettled})
             settled == InOrder({i \in DOMAIN values : e.promises[values[i]] \in Settled})
         IN  [e EXCEPT
                !.promise_aggregates = [a \in DOMAIN @ \cup {p} |->
                    IF a = p THEN [kind |-> kind, remaining |-> Len(values)] ELSE @[a]],
                !.promise_waiters = [q \in Promise |-> @[q] \o
                    [k \in DOMAIN pending(q) |-> waiter(pending(q)[k])]],
                !.jobs = @ \o [k \in DOMAIN settled |->
                    JobOf(waiter(settled[k]), e.promises[values[settled[k]]])]]
-----------------------------------------------------------------------------
Init ==
    /\ execution = Nothing
    /\ origin = [p \in Promise |-> "free"]
    /\ assimilated = [thenables |-> {}, calls |-> 0]
    /\ callers = <<Bound("root", None, "none")>>
    /\ final = None
    /\ outcome = "none"

(* An evaluation that ends takes its process and all it has with it. *)
End(with) ==
    /\ outcome' = with
    /\ execution' = Nothing
    /\ origin' = [p \in Promise |-> "free"]
    /\ assimilated' = [thenables |-> {}, calls |-> 0]
    /\ callers' = <<>>
    /\ final' = None

(* JavaScript runs until it returns to the event loop; a `then` getter that *)
(* was found in the meantime is read before its next instruction.           *)
Script == outcome = "none" /\ callers # <<>> /\ execution.sync_jobs = <<>>
Top == Head(callers)

(* Promise.new *)
Make(p, how) == p \in Free /\ origin' = [origin EXCEPT ![p] = how]

(* new Promise(executor): the executor gets both resolvers, and what it     *)
(* throws rejects.  Promise.resolve and reject are a constructor and a call.*)
Construct ==
    /\ Script
    /\ \E p \in Promise : Make(p, "constructor")
    /\ UNCHANGED <<execution, assimilated, callers, final, outcome>>

CallResolver(p, r, then) ==
    /\ Script /\ origin[p] = "constructor"
    /\ execution' = Settle(execution, p, r, then)
    /\ UNCHANGED <<origin, assimilated, callers, final, outcome>>

(* The resolvers that assimilate_thenable hands to a thenable.              *)
CallAssimilated(p, r, then) ==
    /\ Script /\ p \in assimilated.thenables /\ assimilated.calls < MaxCalls
    /\ assimilated' = [assimilated EXCEPT !.calls = @ + 1]
    /\ execution' = SettleAssimilated(execution, p, r, then)
    /\ UNCHANGED <<origin, callers, final, outcome>>

(* then, catch and finally *)
React(q, kind) ==
    /\ Script /\ q \in Made
    /\ \E p \in Promise :
          /\ Make(p, "reaction")
          /\ execution' = Attach(execution, q, Waiter(kind, p, 0, "none"))
    /\ UNCHANGED <<assimilated, callers, final, outcome>>

Aggregate(kind, values) ==
    /\ Script
    /\ \E p \in Promise :
          /\ Make(p, IF kind = "race" /\ values = <<>> THEN "empty_race" ELSE "aggregate")
          /\ execution' = AggregateInto(execution, p, kind, values)
    /\ UNCHANGED <<assimilated, callers, final, outcome>>

(* Async.enter *)
CallAsync ==
    /\ Script
    /\ \/ /\ Len(callers) > MaxDepth
          /\ End("error")
       \/ /\ Len(callers) <= MaxDepth
          /\ \E p \in Promise :
                /\ Make(p, "async")
                /\ callers' = <<Bound("async", p, "none")>> \o callers
          /\ UNCHANGED <<execution, assimilated, final, outcome>>

(* await: the async function is detached, and what called it goes on.       *)
Await(q) ==
    /\ Script /\ Top.kind = "async" /\ q \in Made
    /\ execution' = Attach(execution, q, Waiter("coroutine", Top.p, 0, "none"))
    /\ callers' = Tail(callers)
    /\ UNCHANGED <<origin, assimilated, final, outcome>>

AwaitImmediate ==
    /\ Script /\ Top.kind = "async"
    /\ execution' = Enqueue(execution, Job("resume_coroutine", Top.p, 0, "none"))
    /\ callers' = Tail(callers)
    /\ UNCHANGED <<origin, assimilated, final, outcome>>

(* Async.start_host_call *)
HostCall ==
    /\ Script
    /\ \/ /\ Cardinality(execution.operations) >= MaxOperations
          /\ End("error")
       \/ /\ Cardinality(execution.operations) < MaxOperations
          /\ \E p \in Promise :
                /\ Make(p, "host")
                /\ \/ execution' = [execution EXCEPT !.operations = @ \cup {p}]
                   \/ execution' = Settle(execution, p, "rejected", "none")
          /\ UNCHANGED <<assimilated, callers, final, outcome>>

(* The limits of steps and of memory end an evaluation anywhere in it.      *)
LimitExceeded ==
    /\ Script
    /\ End("error")
-----------------------------------------------------------------------------
(* What happens when the innermost boundary is reached by a return of r.    *)
ReturnRoot(r) ==
    /\ Top.kind = "root"
    /\ \/ /\ r \notin Promise
          /\ End("value")
       \/ /\ r \in Promise
          /\ final' = r
          /\ callers' = Tail(callers)
          /\ UNCHANGED <<execution, origin, assimilated, outcome>>

(* Async.complete, and complete_reaction of a `then`. *)
ReturnSettles(r, then) ==
    /\ Top.kind \in {"async", "then"}
    /\ execution' = Settle(execution, Top.p, r, then)
    /\ UNCHANGED <<origin, final, outcome>>

(* complete_reaction of a `finally`: a value that is not a promise gets one *)
(* (left out when it is settled at once and nobody can refer to it).        *)
ReturnFinally(r, then) ==
    /\ Top.kind = "finally"
    /\ \/ /\ r \in Promise
          /\ execution' = SettleAfterFinally(execution, r, Top.p, Top.r, then)
          /\ UNCHANGED origin
       \/ /\ r = "plain"
          /\ execution' = Settle(execution, Top.p, Top.r, then)
          /\ UNCHANGED origin
       \/ /\ r = "object"
          /\ \E p \in Promise :
                /\ Make(p, "completion")
                /\ execution' = SettleAfterFinally(Settle(execution, p, r, then),
                                                   p, Top.p, Top.r, then)
    /\ UNCHANGED <<final, outcome>>

ReturnThenable ==
    /\ Top.kind = "thenable"
    /\ UNCHANGED <<execution, origin, final, outcome>>

(* complete_then_getter: what the getter returned is callable, or it is not.*)
ReturnGetter ==
    /\ Top.kind = "getter"
    /\ \/ execution' = Enqueue(execution, Job("assimilate_thenable", Top.p, 0, "none"))
       \/ execution' = FulfillAssimilated(execution, Top.p)
    /\ UNCHANGED <<origin, final, outcome>>

Return(r, then) ==
    /\ Script
    /\ \/ ReturnRoot(r)
       \/ /\ ReturnSettles(r, then) \/ ReturnFinally(r, then)
             \/ ReturnThenable \/ ReturnGetter
          /\ callers' = Tail(callers)
          /\ UNCHANGED assimilated

(* An exception that no catch handler takes: throw_from_boundary. *)
Throw ==
    /\ Script
    /\ \/ Top.kind = "root" /\ End("error")
       \/ /\ Top.kind # "root"
          /\ execution' = IF Top.kind \in {"thenable", "getter"}
                          THEN SettleAssimilated(execution, Top.p, "rejected", "none")
                          ELSE Settle(execution, Top.p, "rejected", "none")
          /\ callers' = Tail(callers)
          /\ UNCHANGED <<origin, assimilated, final, outcome>>
-----------------------------------------------------------------------------
(* read_thenable: the `then` getter runs on top of whatever was running.    *)
RunSynchronousJob ==
    /\ outcome = "none" /\ execution.sync_jobs # <<>>
    /\ callers' = <<Bound("getter", Head(execution.sync_jobs), "none")>> \o callers
    /\ execution' = [execution EXCEPT !.sync_jobs = Tail(@)]
    /\ UNCHANGED <<origin, assimilated, final, outcome>>

(* The event loop: await_final_promise and drive_event_loop.                *)
Loop == outcome = "none" /\ callers = <<>> /\ execution.sync_jobs = <<>>

FinalSettled ==
    /\ Loop /\ execution.promises[final] \in Settled
    /\ End(IF execution.promises[final] = "rejected" THEN "error" ELSE "value")

Took(job) == [execution EXCEPT !.jobs = Tail(@)]

(* Jobs that enter JavaScript: a coroutine, a thenable's `then`, a callback.*)
Enter(job) ==
    /\ \/ /\ job.kind = "resume_coroutine"
          /\ callers' = <<Bound("async", job.p, "none")>>
          /\ UNCHANGED assimilated
       \/ /\ job.kind = "assimilate_thenable"
          /\ callers' = <<Bound("thenable", job.p, "none")>>
          /\ assimilated' = [assimilated EXCEPT !.thenables = @ \cup {job.p}]
       \/ /\ job.kind \in {"then", "finally"}
          /\ callers' = <<Bound(job.kind, job.p, IF job.kind = "finally" THEN job.r ELSE "none")>>
          /\ UNCHANGED assimilated
    /\ execution' = Took(job)

(* Jobs that only settle something; a reaction without a callback is one.   *)
Propagate(job, then) ==
    /\ \/ /\ job.kind \in {"then", "finally", "settle_promise"}
          /\ execution' = Settle(Took(job), job.p, job.r, then)
       \/ /\ job.kind = "settle_assimilated"
          /\ execution' = SettleAssimilated(Took(job), job.p, job.r, then)
       \/ /\ job.kind = "aggregate_settle"
          /\ execution' = SettleAggregate(Took(job), job.p, job.r, then)
    /\ UNCHANGED <<assimilated, callers>>

RunJob(then) ==
    /\ Loop /\ execution.promises[final] \in Unsettled /\ execution.jobs # <<>>
    /\ LET job == Head(execution.jobs)
       IN  Enter(job) \/ Propagate(job, then)
    /\ UNCHANGED <<origin, final, outcome>>

Idle == Loop /\ execution.promises[final] \in Unsettled /\ execution.jobs = <<>>

(* receive_host_reply and settle_host_reply *)
ReceiveHostReply(p, r, then) ==
    /\ Idle /\ p \in execution.operations
    /\ execution' = Settle([execution EXCEPT !.operations = @ \ {p}], p, r, then)
    /\ UNCHANGED <<origin, assimilated, callers, final, outcome>>

PromiseDeadlock ==
    /\ Idle /\ execution.operations = {}
    /\ End("deadlock")
-----------------------------------------------------------------------------
Next ==
    \/ Construct
    \/ \E p \in Promise, r \in Result, then \in Then :
          Given(r, then) /\ (CallResolver(p, r, then) \/ CallAssimilated(p, r, then))
    \/ \E q \in Promise : React(q, "then") \/ React(q, "finally") \/ Await(q)
    \/ \E kind \in Kind, values \in {<<>>} \cup (Made \X Made) : Aggregate(kind, values)
    \/ CallAsync
    \/ AwaitImmediate
    \/ HostCall
    \/ LimitExceeded
    \/ \E r \in Value \cup Made, then \in Then : Given(r, then) /\ Return(r, then)
    \/ Throw
    \/ RunSynchronousJob
    \/ FinalSettled
    \/ \E then \in Then : RunJob(then)
    \/ \E p \in Promise, r \in {"plain", "rejected"} : ReceiveHostReply(p, r, "none")
    \/ PromiseDeadlock

Spec == Init /\ [][Next]_vars
-----------------------------------------------------------------------------
TypeOK ==
    /\ execution.promises \in [Promise -> Unsettled \cup Settled]
    /\ DOMAIN execution.promise_aggregates \subseteq Made
    /\ execution.operations \subseteq Made
    /\ final \in Made \cup {None}
    /\ \A i \in DOMAIN callers : callers[i] \in Boundary

Waiting(q, kind, p) ==
    {i \in DOMAIN execution.promise_waiters[q] :
        execution.promise_waiters[q][i].kind = kind /\ execution.promise_waiters[q][i].p = p}
Queued(kind, p) ==
    {i \in DOMAIN execution.jobs : execution.jobs[i].kind = kind /\ execution.jobs[i].p = p}
Running(kinds, p) == {i \in DOMAIN callers : callers[i].kind \in kinds /\ callers[i].p = p}

Waits(kind, p) == UNION {{<<q, i>> : i \in Waiting(q, kind, p)} : q \in Promise}

(* How many things will settle p when they are done.                        *)
Settlers(p) ==
    CASE origin[p] = "async" ->
            Cardinality(Running({"async"}, p)) + Cardinality(Waits("coroutine", p))
            + Cardinality(Queued("resume_coroutine", p))
      [] origin[p] = "reaction" ->
            Cardinality(Running({"then", "finally"}, p)) + Cardinality(Waits("then", p))
            + Cardinality(Waits("finally", p)) + Cardinality(Waits("finally_adopt", p))
            + Cardinality(Queued("then", p)) + Cardinality(Queued("finally", p))
            + Cardinality(Queued("settle_promise", p))
      [] origin[p] = "aggregate" ->
            IF p \in DOMAIN execution.promise_aggregates THEN 1 ELSE 0
      [] origin[p] = "host" -> IF p \in execution.operations THEN 1 ELSE 0
      [] OTHER -> 0

(* How many things will end the resolution of p.                            *)
Resolvers(p) ==
    Cardinality(Waits("adopt", p)) + Cardinality(Queued("settle_assimilated", p))
    + Cardinality(Queued("assimilate_thenable", p)) + Cardinality(Running({"getter"}, p))
    + Cardinality({i \in DOMAIN execution.sync_jobs : execution.sync_jobs[i] = p})

(* Every promise that JavaScript does not settle itself has exactly one     *)
(* thing that will, until it is settled or resolving; a coroutine, reaction *)
(* or host call is never lost and never there twice.  A race of nothing is  *)
(* the one promise that nothing settles.                                    *)
OneSettler ==
    \A p \in Made : origin[p] \notin {"constructor", "completion"} =>
        Settlers(p) = IF execution.promises[p] = "pending" /\ origin[p] # "empty_race"
                          THEN 1 ELSE 0

(* A resolving promise has exactly one resolution under way, and no other   *)
(* has any, as long as no thenable has been given its resolvers.            *)
OneResolution ==
    \A p \in Made \ assimilated.thenables :
        Resolvers(p) = IF execution.promises[p] = "resolving" THEN 1 ELSE 0

(* The promises and their books are in order: nothing is lost, nothing twice. *)
SettledByOne == TypeOK /\ OneSettler /\ OneResolution

(* "callable thenable with idempotent resolver functions": also a promise   *)
(* whose resolvers a thenable has is resolved at most once, and nothing     *)
(* goes on resolving it once it is settled.                                 *)
ResolversIdempotent ==
    \A p \in Made :
        Resolvers(p) <= IF execution.promises[p] = "resolving" THEN 1 ELSE 0

(* Nothing waits for a settled promise: whoever came before it was settled  *)
(* got a job then, and whoever came later got one at once.                  *)
NoStrandedWaiter ==
    \A q \in Promise : execution.promise_waiters[q] # <<>> => execution.promises[q] \in Unsettled

(* An active aggregate counts exactly the elements that have not reported,  *)
(* each of which will and there is one, and its promise is still pending.   *)
AggregateExact ==
    \A a \in DOMAIN execution.promise_aggregates :
            LET index(i) ==
                    Cardinality({x \in Waits("aggregate", a) :
                                    execution.promise_waiters[x[1]][x[2]].i = i})
                    + Cardinality({j \in Queued("aggregate_settle", a) :
                                    execution.jobs[j].i = i})
                out == {i \in 1..2 : index(i) = 1}
            IN  /\ execution.promises[a] = "pending"
                /\ \A i \in 1..2 : index(i) <= 1
                /\ out # {}
                /\ \/ execution.promise_aggregates[a].remaining = Cardinality(out)
                   \/ execution.promise_aggregates[a].kind = "race"

(* What a promise was settled with never changes. *)
SettledForever ==
    [][outcome' = "none" =>
         \A p \in Promise : execution.promises[p] \in Settled =>
            execution'.promises[p] = execution.promises[p]]_vars
=============================================================================
