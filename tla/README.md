# QuickBEAM in TLA+

QuickBEAM runs JavaScript inside the Erlang VM: QuickJS engines on threads of
their own, owned by GenServers, and a second engine that interprets or compiles
QuickJS bytecode on the BEAM itself. This directory holds TLA+ models of the
parts where its concurrency lives, the TLC runs that check them and the proofs
that TLAPS checks. `PROJECT.json` is the index: components, runs, mutations of
the code that each property notices, the source lines behind each definition,
findings, hazards and theorems.

Sections: 1 inventory, 2 modules and their correspondence to the code,
3 runs and bounds, 4 fairness, 5 proofs, 6 divergences, 7 what is not modelled.

To check: `tlc -config LockManager.cfg MCLockManager.tla` and so on (the table
of section 3 names the pairs); `tlapm LockManagerProofs.tla` and so on.

## 1. Inventory

Of the 393,000 lines of the tree most are vendored C (QuickJS, lexbor, WAMR).
The program itself is `lib/` (41,000 lines: 29,000 Elixir, half of it the VM,
and 12,000 Zig) and `priv/ts` (5,300 lines of TypeScript).

### Components with state and concurrency

**Runtime** (`runtime.ex`, `server.ex`, `worker.zig`, `types.zig`,
`quickbeam.zig`, `beam_call.zig`; the threads of `wasm_nif.zig`).
State: the server's `pending` requests and handlers; the shared queue, the
`shutting_down` flag, `sync_slots` and the lifecycle; the worker's JavaScript
context, `pending_calls`, timers, counters. Operations: eval, call, load,
reset, globals, messages, stop; `Beam.call` (promise, answered through the
queue), `Beam.callSync` (the worker parks on a slot), host calls of WebAssembly
threads, `shutdown_runtime` (flag, wake the slots, stop message, join).
Interaction: caller -> GenServer -> queue -> worker -> `{ref, result}` ->
GenServer -> caller; worker -> `{:beam_call, ...}` -> handler Task -> slot or
queue. Hard: `await_promise` takes messages out of the same queue while a
request is in progress; slots are pointers into stacks; shutdown races calls;
handlers exit. Correct: each request is answered once, an answer reaches the
call that it belongs to, nothing waits for ever except what section 6 names.

**Context pool** (`context_pool.ex`, `context.ex`, `context_worker.zig`,
`context_types.zig`, `quickbeam.zig`). State: `next_id` and the threads; per
context a server, an entry on its thread and a pointer in `rd_map`; per thread
a queue and a lifecycle. Operations: create (the pool waits for the thread up
to 30 s), destroy, requests, calls, pool stop, the resource's destructor. Hard:
all contexts share a thread; while one waits, the *pump* serves some messages
and puts the others back at the end of the queue. Correct: no context is
destroyed or reset under its own frames, entries are not mixed up, nothing that
is put back is lost or starves, ended contexts are freed.

**Lock manager** (`lock_manager.ex`, `locks_api.ex`, `priv/ts/locks.ts`).
State: held locks, the queue, monitors. Operations: request (shared, exclusive,
ifAvailable), release, death of a holder. Hard: requests and releases come from
unlinked Tasks, in any order and after their runtime's death or reset. Correct:
exclusion of callbacks, no lost wakeup, order of exclusive requests, cleanup.

**Pinned program store** (`vm/program/store.ex`). State: entries, slots,
pending installations, residency, monitors, and `persistent_term`, which
survives the server. Operations: pin (reserve, write by the *client*, commit or
cancel), checkout, checkin, unpin, owner death, crash and restore. Correct: a
lease always finds its program; slots, bytes and terms do not leak; waiters are
answered.

**Compiler module pool** (`vm/compiler/pool.ex`, `code.ex`, `code/lifecycle.ex`,
`pool/lease.ex`). State: slots of static module names, `key_index`, leases,
waiters, monitors, compilation tasks, skips, drain. Operations: checkout,
checkin, completion, failure, timeout, eviction, remember_skip, drain, crash and
restart with quarantine. Correct: an evaluation runs the code of its lease; the
books agree; drains and waits end.

**VM evaluation** (`vm/runtime/engine.ex`, `async.ex`, `promise.ex`,
`interpreter.ex`, `vm/builtin/promise.ex`). State of an evaluation: frames,
promises with their waiters, jobs, aggregates, at most 64 host operations. Host
handlers run in processes of their own, each behind a coordinator. Operations:
everything JavaScript can do to a promise, jobs, replies; eval with a timeout,
isolation, cancellation, crash. Hard: a promise that adopts another is neither
pending nor settled; replies arrive after a timeout, handlers are killed.
Correct: one settlement, by one thing, for ever; no reaction stranded; no
result or process left behind, and no reply that a later evaluation could take
for its own.

**Timers** (`timers.zig`, `worker.zig` 172-211): a table of timers and a list
of at most 64 numbers that a round collects before it calls any of them. Hard:
a callback clears or sets timers of the list. Correct: a cleared timer is
silent, an expired one is called.

**N-API thread-safe functions** (`napi/tsfn.zig`, `worker.zig`): a bounded
queue of items, a thread count, `closing`, and a message in the runtime's queue
for each item. Hard: `await_promise` and the main loop deliver in two ways;
the last release wakes blocked callers without the lock. Correct: a message
finds its item, nobody blocks on a closing function, nobody uses a freed one.

**WebSocket** (`priv/ts/websocket.ts`, `web_socket.ex`, `server.ex`,
`runtime.ex`): an object of JavaScript, a process per connection, and the owner
with its map of connections. Hard: every `Beam.call` is a Task of its own, the
connection starts before its owner knows it, close() may come in any state.
Correct: no frame is dropped on its way, one close event, close() arrives.

### Components with little or no protocol of their own

**Runtime pool** (`pool.ex`): runtimes checked out with NimblePool, reset at
checkin in the pool's own process. **Application**: starts the services.
**Workers of JavaScript** (`worker_api.ex`, clauses of `runtime.ex` and
`context.ex`): child runtimes, registration, messages both ways, termination.
EventSource and fetch (a task per request), BroadcastChannel (`:pg`), Storage
(ETS), WebAssembly instances, the DOM bridge, conversions of terms (bounded by
depth and nodes), the atom cache, polyfills, host and Node APIs, the bundler,
coverage; in the VM the values, heap and builtins, the bytecode decoder and
verifier, code generation, ABI tables and fuzzing. None of these is modelled;
section 7 says why.

## 2. Modules

| Module | Models | Proofs |
|---|---|---|
| `LockTable` | what the lock server promises: a table that never holds incompatible locks and hands over one name at a time | |
| `LockManager` | the lock server, its mailbox and the sessions of `locks.ts`; refines `LockTable` | `LockManagerProofs` |
| `ProgramStore` | the store, the shared terms, its clients | `ProgramStoreProofs` |
| `CompilerPool` | the pool, its compilations, the loaded code, its evaluations | `CompilerPoolProofs` |
| `RuntimeWorker` | one runtime: server, worker thread, host threads | `RuntimeWorkerProofs` |
| `ContextPool` | one pool thread: pool, context servers, pump | `ContextPoolProofs` |
| `Promises` | the promises of one evaluation on the BEAM | `PromisesProofs` |
| `HostOperations` | the processes around one evaluation | `ServicesProofs` |
| `ThreadSafeFunction` | one thread-safe function and the worker that serves it | `ServicesProofs` |
| `Timers` | the timers of one worker | `ServicesProofs` |
| `WebSocket` | one socket: object, connection, owner | `ServicesProofs` |
| `SequenceLemmas` | nothing: what pushing, popping and unstacking do to a sequence and to how many of a kind are in it, for the proofs | it |
| `MCLockManager` .. `MCPromises` | constants and symmetry for TLC | |
| `Services` | four components that share nothing, an instance of each, and their safety properties | `ServicesProofs` |
| `MCServices` | six components side by side in one run: those of `Services`, and small instances of `ProgramStore` and `RuntimeWorker` for their liveness | |

Definitions whose name has an underscore (`GrantPass_HeadOnly`) are mutations:
what the definition would be with a plausible bug. No specification uses them;
each shows that the property it belongs to notices.

**LockManager.** `pc[s]` is where the JavaScript of a call site is; a request
or release that is "calling" or "releasing" is a message of a Task, so nothing
orders them. `Request`, `Release`, `HolderDown` are the three handlers of the
server, each with `TryGrantPending`, whose set G is what the reduce over the
queue grants. `Die` ends a runtime, `Reset` discards its continuations (`lost`).

**ProgramStore.** `entries`, `slots`, `pending`, `residency` are fields of the
GenServer's state; `terms` is `persistent_term`. A client's position says which
call it is in. The steps of a pin are those between which others can run:
reserve, write, commit, and after a failed call recover, check, erase. `Crash`
loses the books and not the terms, `Restart` is `restore_slots`. A reference is
a small number that is not in use.

**CompilerPool.** `slots`, `recent`, `keyIndex`, `skips`, `leases`, `monitors`,
`tasks`, `drain` are the fields of the server; last_used and the clocks of
skip_index become orders, sets of pairs of an older and a younger. `inbox` has
the results, exits and timers of compilations, unordered; `code` is what the
code server has of each module: the code of an artifact, or old code that is not
purged. `Validate`, `Enter`, `Return` are the steps of an
evaluation that uses its lease. `Retire` is the retirement of
`code/lifecycle.ex`, in an eviction, a drain, `terminate` and a restart: where it
fails (a soft purge spares code that still runs) the module keeps old code and
its slot is quarantined. Installation may fail as well, and a compilation may
hang.

**RuntimeWorker.** `stack` is the call stack of the worker thread: JavaScript,
`await_promise`, `Beam.callSync` before and after its message. A script is any
sequence of calls followed by a value or a promise. The request types are
represented by three: `eval` (run JavaScript), `reset`, and `global`
(`get_global`, which `await_promise` serves); `AwaitDrops` is its `else`.
`lifecycle` has the steps of `shutdown_runtime` one by one. `event` records
whose result woke a slot. `HostBase` is where the process-wide `host_call_id`
stands.

**ContextPool.** The same stack, for a thread with several contexts.
`Pumping` says when `pool_drain_callback` runs: in a wait of the request in
progress, and not in continuations outside a request, because `install_pump`
sets one context's `drain_fn`. `Requeue` is its last two branches. Server
states: new, creating, up, stopped (`terminate` ran), killed (it did not).
`KillContext` is an exit signal, `KillPool` the death of the pool without
`terminate`, `Destructor` the resource's. The pool's queue is one sequence, as
in `pool_enqueue`.

**Promises.** `execution` is the part of the execution record that promises
live in, with the field names of the code, and the helpers of `promise.ex` are
operators on it (`Settle`, `Attach`, `SettleAggregate`, ...). JavaScript is
nondeterministic: `Script` makes promises, calls resolvers, then, combinators,
async functions and `Beam.call`. `callers` are the boundaries that a `return`
or `throw` runs into (a job, an async function, the getter of a thenable, a
finally). `Propagate` is an exception that passes detached frames. A value is a
promise, an object that may have a `then`, a plain value, or a thrown one.

**HostOperations.** The caller of eval, the evaluation (a process of its own,
or the caller itself under `isolation: :caller`), and per operation a
coordinator and a handler process. `killed` are exit signals on their way,
`results` and `host_replies` mailboxes. `Crash` is an exception of the engine,
`OutOfMemory` the kill by `max_heap_size`, `Timeout` the caller's `after`.

**ThreadSafeFunction.** Items of the function's queue and messages in the
runtime's queue are counted. `Call`, `TestAgain`, `Wait` and `SendMessage` are
the parts of `call`; the test and the wait are separate because a release sets
`closing` and broadcasts without the lock (`Close`, `Broadcast`). `TakeItem` is
the main loop's delivery, `AwaitTakesMessage` that of `await_promise`, which
takes the message and leaves the item.

**Timers.** `timer[t]` is its entry: unset, waiting, expired (deadline passed,
still in the table) or gone. `CollectExpired` fills the list, `Fire` calls one
of it after testing that it is still in the table; `BufferSize` is the 64 of
the code.

**WebSocket.** `ready` is the object's `readyState`, with "constructing" while
the constructor is inside `Beam.callSync`; `task` and `tasks` are the Tasks of
`Beam.call`; `known` is the owner's entry for the connection. `socket` has the
fields of the connection's state that steer it; `HandleResponse` folds the
responses of the remote end, up to two at a time, into an `Effect`: the new
state, the events, whether the process stops. Reads that fail after the list
(`handle_info`'s `{:error, ...}`) are part of `HandleInput`. A connection ends
normally or fails (`process`); one that fails takes the constructor's Task, which
is linked to it, with it as long as that runs (`TaskKilled`).

Common abstractions: data of requests, results and wording are left out; a
script does what it likes; time is left out, so a timeout may fire whenever its
wait can. GenServer mailboxes are sets where their senders differ.

**Services** has the instances of `HostOperations`, `Timers` and `WebSocket`
beside the `ThreadSafeFunction` it extends, with the constants of all, so that
the properties TLC checks for a few of their values are those the theorems
state for all. **MCServices** adds `ProgramStore` and `RuntimeWorker`, and
composes the six, which share nothing. In a behaviour only the one named by
`component` moves and the others stay in their initial states, in which none of
their fair actions is enabled; so a property of a component holds
of the sum exactly when it holds of the component, and the numbers of states
add up. It also carries the liveness of `ProgramStore` and `RuntimeWorker`,
whose safety runs are too large for it. One thread (`t1`), one client or caller
(`c1`) and one timer stand for all: the models compare them and nothing else,
so what holds for one holds for each. Its instance of `RuntimeWorker` makes
`eval` requests only; what a `global` request may lose is `LostOnlyInAwait`,
in `worker_safety`.

## 3. Runs

| Run | Files | Instance | Shows |
|---|---|---|---|
| `lock` | `LockManager.cfg`, `MCLockManager` | 2 names, 2 sessions in a runtime that may be reset, 1 in another, both modes | the queue is exact and in order, refinement of `LockTable`, dead holders are cleaned up for good, exclusive waiters are answered |
| `lock_overlap` | `LockManager_overlap.cfg`, `MCLockManager` | 1 name, no resets | **violation**: `CallbackExclusion` with two sessions in one runtime |
| `store_safety` | `ProgramStore_safety.cfg`, `MCProgramStore` | 3 programs, 2 slots, a budget below the sum, 2 clients that may die, 2 crashes | leases find their program and the terms stay within the budget until the first crash; no slot is lost until the second; slots exclusive, residency exact, no implicit eviction through both |
| `pool_safety` | `CompilerPool_safety.cfg`, `MCCompilerPool` | 3 keys, 2 modules, 2 evaluations, 2 tasks, 1 crash | the books agree with each other and with the code server; drained means idle, with code in quarantined slots only; an evaluation runs its lease's code |
| `pool_liveness` | `CompilerPool_liveness.cfg`, `MCCompilerPool` | 1 key, 1 module, 2 evaluations, 2 tasks, 1 crash | waits end although tasks hang, drains end, orphans are released |
| `worker_safety` | `RuntimeWorker_safety.cfg`, `MCRuntimeWorker` | 2 callers, 1 host thread, 2 calls, 1 reset, stop and kill | answered once, slots on stacks, own results, own context, losses only in `await_promise` |
| `worker_concurrent` | `RuntimeWorker_concurrent.cfg`, `MCRuntimeWorker` | 2 callers, 1 call, no stop | **violation**: an eval is dropped while another awaits |
| `context_pump` | `ContextPool_pump.cfg`, `MCContextPool` | 2 contexts, 2 callers, 2 requests, 2 calls, 1 fault | the pump mixes up neither frames, entries nor requests; requests are answered, stopped contexts freed, the pool stops |
| `context_leak` | `ContextPool_leak.cfg`, `MCContextPool` | 2 contexts, 1 exit signal | **violation**: a killed context is never freed |
| `promises` | `Promises.cfg`, `MCPromises` | 3 promises, nested one level deep (`max_stack_depth`), 1 host operation at a time, 1 call of a thenable's resolvers | one settlement by one thing, aggregates, nobody stranded |
| `promises_resolvers` | `Promises_resolvers.cfg`, `MCPromises` | 2 promises, 2 calls of resolvers | **violation**: the resolvers of a thenable are not idempotent |
| `services` | `Services.cfg`, `MCServices` | a thread-safe function with 3 threads and a queue of 1; a store with 2 programs, 1 slot, a crash; a runtime with eval, 1 call, a host thread, stop and kill; an evaluation with 2 operations, 1 at a time; 3 timers, a list of 2; a socket with 2 requests, 2 inputs | loop and function survive their callers, blocked callers return; store and runtime leave nobody waiting; operations are accounted for and end; timers are called or silent; a socket loses no frame |

Why these bounds are enough to be interesting. Locks: two sessions of one
runtime and one of another give a holder, a waiter behind it and one of the
same owner; two names show that a pass over the queue skips. Store: two slots
and three programs make slots and budget run out in different ways, and two
clients give an installer and a waiter, or an unpin against a lease. Pool: two
modules and three keys force eviction; two task references let a late result
meet a slot that compiles something else. Worker: one request awaits and
another is in the queue, two nested calls, a host call inside an await.
Contexts: one waits while the other is created, called, stopped; two calls let
a continuation run, and call, inside another call's wait. Promises: three are a
promise, what it adopts and what reacts to it, or an aggregate and two
elements. Function: a queue of
one blocks the second and the third caller, and the last release meets both a
blocked and a testing one. Timers: a list of two with three timers leaves one
for the next round. Socket: a send and a close in Tasks that overtake each
other, an upgrade and a close of the remote end in one input or in two.

The cuts are `MaxGeneration`, `MaxCalls`, `MaxResets`,
`MaxRequests`, `MaxInputs`, `MaxTimeouts`, `MaxFaults` and `MaxCrashes`; each
is a guard of one kind of action, and no action of the liveness arguments is
cut. `MaxOperations` (64), `MaxDepth`, `MaxQueueSize`, `Capacity`, `Budget` and
`BufferSize` (64) are limits that the code itself has. `MaxSkips` is one too,
and 0 in `pool_safety`: who asks for a skipped key is turned away and touches
nothing the invariants speak of, which `pool_liveness` still has.

`CHECK_DEADLOCK FALSE` everywhere: runtimes, pools, sockets and processes end,
and a bounded run may end with everything done. That nothing else stops is what
the liveness properties are for. Symmetry is used in safety runs only.

`ProgramsPersist` and the budget of the terms are claimed until the first crash
of the store, that every slot has its entry until the second; `RunsLeasedCode`
of leases that the running pool has issued: what else would happen is in
section 6.

The liveness properties of `RuntimeWorker`, `ContextPool` and `HostOperations`
have disjuncts (`Lost`, `StopLost`, `Orphaned`, `Hung`): the ways in which the
code can hang, stated so that any other is a violation.

## 4. Fairness

Weak fairness, per process or thread: a GenServer works off its mailbox, a
supervisor restarts, a monitor or timer fires, a Task that was started runs, a
scheduled thread runs, `await_promise` gives up in the end
(`promise_wait_expired` counts iterations and looks at the deadline). JavaScript
ends: a deadline or a reduction limit interrupts it; without either an endless
script does hold its thread, which no model here contradicts. Handlers of
`Beam.call` end, but may end without an answer (`Outcome`). A callback under a
lock ends, and so does a callback of a timer or a thread-safe function.

Strong fairness twice, where an action is disabled again and again by others of
the same thread. `TakeItem`: between two of its items the worker may enter
`await_promise` any number of times, but the runtime's queue is first in, first
out, and the main loop comes back to it. `CollectExpired`: messages may come
between two rounds, but the loop makes a round after each.

In `HostOperations` the evaluation, its caller, coordinators and exit signals
are fair; a handler need not end, which is what the timeout and the exit signals
are for. In `WebSocket` Tasks, mailboxes and the worker's dispatch are fair, and
a connect ends, with a connection or an error; nothing is expected of the
remote end. In `Promises` no liveness is claimed.

Not assumed anywhere: that a compilation ends, that anyone calls, stops, dies
or resets, that a hung call is woken.

## 5. Proofs

For every value of the constants, under the assumptions the modules name.

**LockManagerProofs** (`LockAssumption`: modes, owners, finitely many sessions).
`LockSafety`, `QueueIsExact`, `ExclusiveInOrder`, `ServerImplementsTable`,
`CallbacksExclude`. `NoGrantableWaits` is not inductive: a release frees the
locks "of a reference", and without knowing that a reference belongs to at most
one request a step could free or grant twice. `IInv` adds `Books`: a queued
record is the request of a session that waits, queued once, and a held record
the lock of a session that runs or releases. The heart is `GrantPassSound`: a
pass over the queue keeps the table compatible and leaves nothing grantable
behind, by taking the first index at which it could go wrong; `FilteredQueue` is
about what is left of the queue and its order. `NoneForgotten` is the converse
of `Books` (who waits is queued, who runs is held), for `QueueIsExact`. For the
refinement every handler frees locks of one holder and one name and grants only
that name (`HandOverStep`). `CallbacksExclude` has one session per runtime as a
hypothesis, without which it is false (`lock_overlap`).

**ProgramStoreProofs.** `EvictionIsExplicit` holds through
crashes and rests on `UnpinsAreWhole`: a deferred unpin marks an entry with a
lease. `ProgramsStay` holds until the first crash; `Calm` is its invariant: the
slots, pending installations and entries exclude each other, an installed entry
has its term, tokens are used once, and a client inside a pin is at the step
its pending entry says (`InStep`). The client that writes in between is why each
of them is needed: a term is erased only by who may know that no entry has it.
`BooksAgree` is about the bytes, through any number of crashes. Its invariant
`Accounted` has four parts: `Ledger` (slots exclusive and of the entries,
residency exact), `TermsBooked` (until a crash every term belongs to a slot or to
an installation), `NoBooks` while the server is down, and `ClaimsApart` (before the
first restart no two slots hold, or are about to be given, one program), without
which a restart could not give back what it finds. Each step leaves the books
as they are, reserves, completes, cancels or removes one key (`StepOfBooks`); a
sum is then changed by one term. The facts about `SumFunction` and about the
recursion of `Restored` rest on minimal counterexamples (`WFMin` on the subsets
of a finite set), since induction theorems are out of reach.

**CompilerPoolProofs** (`PoolAssumption`). `BooksAgree`, `DrainedPoolIsIdle`,
`LeasedCodeRuns`, `WithoutCrashLeasedCodeRuns`. The books are proved as a value:
`BookOf` relates slots, index, recency, leases, monitors, tasks and life, and one
lemma for each thing a handler does with them (`LeaseIssued`, `WaiterAdded`,
`SlotsRetired`, `CompilationStarted`, `LeaseReleased`, `WaiterGone`,
`WaitersServed`, `CompilationsGone`, `KeyUnindexed`) says that it keeps them; a
handler composes these. `BooksExact` alone is not inductive. `IInv` adds to
`BookOf` that the code loaded is that of the ready slots, or was left in
quarantined ones by a retirement that failed (`Loaded`), that a
client waits exactly when it is a waiter and holds what the books say it leases
(`Clients`), that between validation and entry the lease is on the books, or the
pool that issued it is down and its code still there (`Valid`), that a pool that
has drained or crashed has empty books (`Quiet`), and types (`MailTyped`). With
that a `count` above zero is what protects an
evaluation: a slot is retired only when no lease names it. `DrainedPoolIsIdle`
speaks of code as far as the code does: a drain is answered `:ok` when none of
*its* retirements failed, and a slot that was quarantined before may keep code
that nobody leases. Without crashes
there is one life, and the exception in `RunsLeasedCode` is empty.

**PromisesProofs** (`PromisesAssumption`). `NobodyStranded` and `SettledStays`:
each helper of `promise.ex` preserves `Sound` (only unsettled promises have
waiters) and the relation `Preserves` (what was settled keeps its outcome), and
both compose, so each operation of JavaScript needs only the lemmas of the
helpers that it calls.

`OneSettlerEach` and `AggregatesCount` rest on `Orderly`. Its `Book` says that
what waits, is queued or runs is of a kind that goes with the origin of its
promise (`Typed`, `Handled`), and of every promise how many things are to settle
it, to end its resolution and to report each element to it (`Balanced`).
`SettledByOne` is not inductive without it: nothing in it keeps a coroutine from
naming a promise made by `then`, whose one settler it would then be beside, and
a promise not made yet could have been resolved. Hardly any handler keeps the
book at each of its calls: it takes a settler or a resolution from one place
(`TakeJob`, `TakeSync`, `TakeCaller`, `TakeOperation`, `TakeReport`, or a promise
that was just made, `MakeOwing`), and puts it in the next or settles with it
(`PutWaiter`, `PutJob`, `PutAttach`, `PutThenable`, `PushCaller`, `SettleShort`,
`AssimilateShort`, `SettleReport`). In between the book is `Short` of it, and a
handler is a pair of these. A promise whose resolvers a thenable was given is
exempt from the count of resolutions, and only such a promise is
(`AnyResolutions`): that is the divergence of `promises_resolvers`. A waiter that
becomes a job stays in its class, so `settle_result` changes no count
(`SettleResultLoad`); an aggregate that is finished leaves reports behind that
nobody awaits (`IgnoreReport`). What is counted are waiters of all promises
together (`Places`) and positions in sequences (`Count`), as cardinalities of
finite sets, so that no induction over data is needed.

**ServicesProofs** (`ThreadAssumption`, `ServicesAssumption`: finitely many
threads, a queue that holds something, bounds that are numbers). The four
components of `Services`, for every value of their constants.
`HostOperations`: `OperationsKept` from `Accounts`: an
operation in the map has its coordinator or its reply, or a handler that was
killed. `MailboxClean` from `Replies`: only an evaluation in a process of its
own is waited for, and it sends its reply as the last thing it does; and from
`HostMail`: under `isolation: :caller` the replies in the mailbox are of
operations in the map or of none that runs, and once the operations are
cancelled every coordinator that lives is being killed. So the caller's mailbox
need not be empty after such an evaluation: what is left are replies of
operations it gave up, which a later one skips.
`EvaluationIsSound` adds the types, and is what `services` checks.

`ThreadSafeFunction`: `LoopGoesOn`:
`MessagesHaveItems` counts threads between their item and their message.
`FreedAfterRelease`: `LastReleaseCloses`, unless a thread aborts the function
whoever closes it is the last one that has it. With an abort the function is
freed under those who have it, and the thread of the last release may still be
at its broadcast when the worker frees it: neither is claimed.

`Timers`: `ClearedStaysSilent` from `ListIsDue`: what
the list of a round names had expired when it was collected.

`WebSocket`: `FramesFound`, from `Consistent`. The announcement
of the connection is in the owner's mailbox before the constructor ends, and
only an object whose constructor has ended makes requests (`Constructed`); a
send is made by an object that was told "open", and the connection says so once
it is established and is never taken back (`Opened`, `Forth`). `OneCloseEvent`
counts: the close events on their way to the object, and the one it has had, are
at most those its connection has sent (`ClosedOnce`), and an effect sends one
exactly when it ends the connection, which it does once (`Ended`, a part of
`Forth`). `SocketIsSound` adds the type invariant, from `Bounded`: there are
never more Tasks than requests were made, because a Task forwards once.

**RuntimeWorkerProofs.** `ContextOwned` from `CallsSound`: a number that is in
use is below `nextId`, a call and its resolve message carry the context of their
promise, and the number of a `Beam.callSync` belongs to no promise.
`SlotsOwned` adds `HostsSound` (the host call the worker answers is the one its
thread has made, and host numbers are used once): the slot the worker signals is
then that thread's. Its hypothesis `Apart` says that `host_call_id` is past the
numbers of the runtime's own calls; the code does not see to it (section 6), and
without it a host thread can be woken by the answer to a `Beam.call`.
`RequestsAnsweredOnce` and `LossesInAwait` follow a caller's request through the
queue, the frames and the server's mailbox: `Alone` says that it is in one of
them at most and only if its caller waits, `Follows` that a step leaves it in
one, and the one step for which `Follows` cannot be shown is `AwaitDrops`. Once
the server is gone nobody waits for it (`GoneIdle`), which is when answers are
thrown away. The stop message is followed the same way (`StopFollows`).

**ContextPoolProofs** (`PoolAssumption`: finitely many contexts, `None` is none
of them). `PumpIsSound`. `PumpSound` says nothing of messages and of contexts
that are being created, on which it depends. `Structure` adds: numbers are
handed out one by one (`Numbered`), by a pool that creates one context at a time
and none once its thread stops (`Starting`); an entry or a create message under
the number i is that of a context with this number, of the one being created, or
of one that was killed (`Belongs`: a creation that was given up may still arrive,
and after the context that took over its number); a destroy message is for a
context that was stopped, a request or a resolve message for a context that was
created (`Addressed`); a frame is in a context that was created, which only the
main loop, with no frame, destroys (`Placed`). `Kept` follows one caller's request
to one context: in one place at most, somewhere while the caller waits, and left
over only if the context has ended. The pump's `Requeue` keeps it because it puts
the head back as it is; `GetGlobal`, which does not answer for an unknown
context, because a context somebody waits for is up and has its entry.

Every invariant and every action property that a passing run checks is stated by
a theorem. Only model-checked: liveness under fairness and ENABLED, which the
prover does not reach.

## 6. Divergences

Confirmed by a run:

- `worker_concurrent`: an eval, call or reset that arrives while another
  request of the runtime awaits a promise is dropped by `await_promise`
  (`worker.zig:728`); its caller waits for ever.
- `context_leak`: exit signals end a context's process without `terminate`
  (`context.ex:453`, nobody traps exits), so its JavaScript context stays.
- `lock_overlap`: locks are released by holder and name, so one of two
  sessions of a runtime frees the other's lock.
- `promises_resolvers`: a thenable that calls its resolvers twice, first with
  something unsettled, resolves its promise twice (`promise.ex:256`).

Met while modelling, reachable in a model here with the bound given, but not
kept as a run:

- Store: after a crash `ProgramsPersist` fails. An installer whose commit met
  the crash tests and erases in two steps (`store.ex:420`), and the restarted
  server restores the slot in between; and a restart forgets leases, so an
  unpin erases under one. A client of the previous life still writes, so the
  terms can exceed the budget.
- Store: a second crash can lose a slot. Installers of two lives of the server
  then leave one program in two slots; `restore_slots` keeps both, counts both
  and makes one entry of them (`Map.put`, `store.ex:327`). The other slot stays
  occupied after an unpin, and its bytes count against the budget. Met when
  the proof of `BooksAgree` failed without a condition on crashes; `store_safety`
  finds it if `SlotsMirrored` is asked without `crashes <= 1`.
- Compiler pool: a lease is validated, the pool crashes, restarts and reuses the
  module, the evaluation enters other code than it leased. `RunsLeasedCode`
  without its second disjunct finds this in `pool_safety`.
- Worker: a `stop` that `await_promise` takes ends the await only; the main
  loop goes on and `shutdown_runtime` joins a thread that never stops
  (`worker.zig:723`). `StopLost` is this state.
- Worker: after a handler's exit or throw (`runtime.ex:627` rescues exceptions
  only) nobody resolves the call; `Beam.callSync` parks with no deadline
  (`Orphaned`).
- Worker: `host_call_id` and `next_call_id` are separate counters that both
  start at 1 and both key `sync_slots`. `HostBase` keeps them apart.
- Locks: a reset between grant and release leaves a lock that only the death
  of its runtime frees (`worker.zig:606` does not tell the server).
- Contexts: a creation that takes over 30 s does not advance `next_id`; the
  next one replaces its entry on the thread. `build_state` matches
  `{:error, :timeout}` as `{pool_resource, context_id}` and fails later.
- Contexts: `Context.terminate` does not answer outstanding calls. A
  `Beam.callSync` whose server has ended, or whose handler exited, parks the
  thread for ever with all its contexts, and `pool_stop` with it:
  `shutdown_pool` raises the pool's flag, the wait looks at the context's
  (`Hung`).
- Contexts: the pump runs continuations of a context in the middle of its own
  `Beam.callSync`; requests put back overtake each other; `ctx_get_global` for
  an unknown context is not answered (`context_worker.zig:413`);
  `pool_stop` leaves the requests of its contexts unanswered.
- Contexts: one `deadline` per thread also interrupts continuations of other
  contexts, and `await_promise` looks at a deadline of the context that
  `handle_ctx_eval` never sets.
- WebSocket: after close() in CONNECTING, an `__ws_open` that is already on its
  way sets `readyState` back to OPEN and fires `onopen` (`websocket.ts`,
  `_onOpen`), although `test/wpt/wpt_websocket_test.exs:532` is named "close
  during CONNECTING does not fire open". The connection is asked to close all
  the same (`CloseArrives`).
- WebSocket: each send and close is a Task of its own, so frames can arrive in
  another order, or after the close; the test of twenty messages (:603 there)
  looks at their number.
- WebSocket: in a context the pump may dispatch an event of the connection
  inside the constructor, before the object is registered: the event is lost
  (`missed`), and an object that lost its "open" or "close" stays where it is.
- WebSocket: `GenServer.start_link` links the connection to the Task of the
  constructor (`web_socket.ex:33`). A connection that fails at once (refused, a
  host that does not resolve) stops with its reason (:78), and if the Task has
  not ended yet it dies, before its `resolve_call_term` (`runtime.ex:616`): the
  constructor's `Beam.callSync` is not answered, and the runtime's thread waits
  until it is stopped (`TaskKilled`).
- WebSocket: neither the upgrade nor the close handshake has a deadline of its
  own, and a reset leaves the connection running until its owner ends.

Read beside the models: `EventSource.close` sends exit reason `:normal`, which
the task ignores; the worker's loop is left by a `break` of `napi_tsfn_call`
when the function's queue is empty (`worker.zig:1206`; `LoopUnbroken` says it is
not reached); the broadcast of the last releaser may come after the worker has
destroyed the function (`napi/tsfn.zig:93`, `worker.zig:1229`); `do_reset`
destroys the N-API environment of a living function (`worker.zig:626`); a delay
that is not a number reaches `@intFromFloat` (`timers.zig:41`, `:67`);
`region_hot` of the compiler pool never shrinks (`compiler/pool.ex:642`).

## 7. Not modelled

`PROJECT.json` lists every component with its reason. Inside the modelled ones:

- Runtimes and contexts: process messages, add-ons, DOM requests, memory
  queries, promises not made by `Beam.call`; stops of one pool thread among
  several and the choice of a thread; child workers, whose own runtimes are
  what `RuntimeWorker` describes and whose messages, sent by separate Tasks,
  can overtake each other as those of a socket do.
- Store: processes that trap exits (a client that survives its exit signal).
- Compiler pool: the admission of regions, whose counters only grow; code
  generation.
- Evaluations: generators, the continuation of an await outside an async
  function (no caller reaches it), the interpreter's instructions, measurement;
  that `await_down` gives up after a second; handlers that trap exits; under
  `isolation: :caller`, the handlers that an exception of the engine leaves
  behind and messages of the caller's mailbox that look like a host reply.
- Thread-safe functions: acquire, a `max_queue_size` of 0, and asynchronous
  work. Timers: the conversion of a delay, the clock.
- The runtime pool (`pool.ex:90` resets and stops in the pool's own process,
  without a deadline), the router of child workers, EventSource, fetch,
  BroadcastChannel and Storage: each is one call, or one Task, over a service
  that is not this program's.
- Sequential code: values, heap and builtins of the VM, decoder, verifier and
  compiler, conversions, DOM bridge, polyfills, toolchain, coverage.
- Failures of allocation. Vendored C is external; the mutexes around
  `sync_slots` and `rd_map` make lookup and publication one step.
