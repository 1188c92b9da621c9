----------------------------- MODULE CompilerPool -----------------------------
(***************************************************************************)
(* The pool of generated modules (vm/compiler/pool.ex): a GenServer that   *)
(* compiles artifacts into a fixed set of module slots and leases them to  *)
(* evaluation processes, which run the code of the module they were given. *)
(*                                                                         *)
(* The server's state is slots .. drain.  `code` is what the Erlang code   *)
(* server has loaded; it survives the pool.  `inbox` holds the messages    *)
(* about compilations (task results, exits, timers), in any order: they    *)
(* come from different senders.  A client's request is its position, and a *)
(* client has one request, lease or monitor at a time: it returns a lease  *)
(* before it asks for the next, and its messages arrive in order.          *)
(***************************************************************************)
EXTENDS Naturals, FiniteSets

CONSTANTS Key,           \* artifact keys
          Client,        \* evaluation processes
          Module,        \* the static module names, capacity of them
          Ref,           \* references of compilation tasks
          NoKey,         \* the key of a slot without artifact, absent code
          OldCode,       \* code deleted or of before, that is not purged yet
          MaxSkips,      \* @max_skip_entries
          MaxGeneration, \* bound: compilations into one slot
          MaxCrashes     \* bound: crashes of the pool

ASSUME PoolAssumption ==
    /\ NoKey \notin Key /\ OldCode \notin Key \cup {NoKey}
    /\ IsFiniteSet(Client) /\ IsFiniteSet(Module)
    /\ MaxSkips \in Nat /\ MaxGeneration \in Nat /\ MaxCrashes \in Nat

VARIABLES mode,     \* running, draining or drained; down between two lives
          slots,    \* module |-> slot
          recent,   \* the order of the ready modules by last_used
          keyIndex, \* key |-> module
          skips,    \* the order of the keys of skip_index by clock
          leases,   \* client |-> its lease on the books
          monitors, \* client |-> what the monitor on it is for (monitor_index)
          tasks,    \* reference |-> module being compiled
          drain,    \* the pending drain call, or how it was answered
          epoch,    \* the life of the pool
          inbox,    \* messages about compilations
          code,     \* module |-> key of the code loaded, or old code
          client,   \* what each client is doing
          alive     \* clients whose process is alive

books == <<slots, recent, keyIndex, leases, monitors>>
pool == <<mode, books, skips, tasks, drain, epoch>>
vars == <<pool, inbox, code, client, alive>>

Slot == [status : {"free", "compiling", "ready", "quarantined"},
         key : Key \cup {NoKey}, generation : Nat,
         waiters : SUBSET Client, count : Nat]
Lease == [module : Module, key : Key, epoch : Nat, generation : Nat]

Blank(status, generation) ==
    [status |-> status, key |-> NoKey, generation |-> generation,
     waiters |-> {}, count |-> 0]

Without(f, ks) == [k \in DOMAIN f \ ks |-> f[k]]
Put(f, k, v) == [j \in DOMAIN f \cup {k} |-> IF j = k THEN v ELSE f[j]]

(* What the clock orders: pairs of an older and a younger, each its own pair. *)
Listed(order) == {pair[1] : pair \in order}
Except(order, xs) == {pair \in order : pair[1] \notin xs /\ pair[2] \notin xs}
Last(order, x) == Except(order, {x}) \cup ((Listed(order) \cup {x}) \X {x})
Oldest(order) == {x \in Listed(order) : \A y \in Listed(order) : <<x, y>> \in order}

Idle == [pc |-> "idle"]
Asking(pc, k) == [pc |-> pc, key |-> k]
Holding(pc, lease) == [pc |-> pc, lease |-> lease]
At(c, pcs) == client[c].pc \in pcs
Become(c, state) == client' = [client EXCEPT ![c] = state]
Requests == {"checkout", "cached", "skip"}

-----------------------------------------------------------------------------
(* The lease that issue_lease makes for a client of m, given the slots.       *)
LeaseOn(m, sl) == [module |-> m, key |-> sl[m].key, epoch |-> epoch,
                   generation |-> sl[m].generation]

Waiting(m) == [for |-> "waiter", module |-> m]
Leasing(m) == [for |-> "lease", module |-> m]

(* issue_lease, for a client that finds its artifact ready. *)
IssueLease(c, m) ==
    /\ leases' = Put(leases, c, LeaseOn(m, slots))
    /\ monitors' = Put(monitors, c, Leasing(m))
    /\ slots' = [slots EXCEPT ![m].count = @ + 1]
    /\ recent' = Last(recent, m)
    /\ Become(c, Holding("leased", LeaseOn(m, slots)))

AddWaiter_Unmonitored(c, m) ==
    /\ slots' = [slots EXCEPT ![m].waiters = @ \cup {c}]
    /\ Become(c, Asking("waiting", client[c].key))
    /\ UNCHANGED <<recent, leases, monitors>>

(* add_waiter and monitor_waiter *)
AddWaiter(c, m) ==
    /\ monitors' = Put(monitors, c, Waiting(m))
    /\ slots' = [slots EXCEPT ![m].waiters = @ \cup {c}]
    /\ Become(c, Asking("waiting", client[c].key))
    /\ UNCHANGED <<recent, leases>>

(* The key is indexed to a slot that has it or is compiling it. *)
Ready(k) == k \in DOMAIN keyIndex /\ slots[keyIndex[k]].status = "ready"
            /\ slots[keyIndex[k]].key = k
Compiling(k) == k \in DOMAIN keyIndex /\ slots[keyIndex[k]].status = "compiling"
                /\ slots[keyIndex[k]].key = k

(* The hit of checkout and checkout_cached: lease the artifact or join the    *)
(* compilation.                                                               *)
Hit(c) ==
    LET k == client[c].key
    IN  /\ \/ Ready(k) /\ IssueLease(c, keyIndex[k])
           \/ Compiling(k) /\ AddWaiter(c, keyIndex[k])
        /\ UNCHANGED <<keyIndex, skips, tasks, inbox, code>>

Fresh(r) == r \in Ref \ (DOMAIN tasks \cup {msg.ref : msg \in inbox})

Free == {m \in Module : slots[m].status = "free"}
Evictable_Leased == {m \in Module : slots[m].status = "ready"}
Evictable == {m \in Module : slots[m].status = "ready" /\ slots[m].count = 0}

(* m was used before n. *)
Older(m, n) == m # n /\ <<m, n>> \in recent

(* checkout_miss with select_slot and retire_slot: the first free slot, or    *)
(* the idle one least recently used.  Slots whose retirement fails are        *)
(* quarantined and the next is tried: `failed` are those, m the one chosen.   *)
Chosen(m, failed) ==
    \/ failed = {} /\ m \in Free
    \/ /\ Free = {}
       /\ failed \subseteq Evictable /\ m \in Evictable \ failed
       /\ \A n \in Evictable \ {m} : n \in failed <=> Older(n, m)

(* The slots after the modules `gone` were retired or cancelled: free, except *)
(* those that are quarantined.                                                *)
Vacated(sl, gone, quarantined) ==
    [m \in Module |->
        IF m \in quarantined THEN Blank("quarantined", sl[m].generation)
        ELSE IF m \in gone THEN Blank("free", sl[m].generation) ELSE sl[m]]

KeysOf(ms) == {slots[m].key : m \in ms}

(* The modules whose code somebody runs: a soft purge does not kill them. *)
Entered == {client[c].lease.module :
               c \in {d \in alive : At(d, {"running"}) /\ client[d].runs # NoKey}}

Retire_OldOnly(ms, failed) ==
    /\ failed \subseteq ms /\ Entered \cap ms \subseteq failed
    /\ UNCHANGED code

(* Lifecycle.retire of each module of ms.  A module never has old and current *)
(* code at once, so that only the purge at the end fails: when the code is    *)
(* being run, or anything else still refers to it.                            *)
Retire(ms, failed) ==
    /\ failed \subseteq {m \in ms : code[m] # NoKey}
    /\ Entered \cap ms \subseteq failed
    /\ code' = [m \in Module |-> IF m \in failed THEN OldCode
                                 ELSE IF m \in ms THEN NoKey ELSE code[m]]

(* start_compilation, after the retirements of checkout_miss *)
StartCompilation(c, m, failed) ==
    LET k == client[c].key
        gone == failed \cup {m}
        vacated == Vacated(slots, gone, failed)
    IN  /\ slots' = [vacated EXCEPT ![m].status = "compiling", ![m].key = k,
                                    ![m].waiters = {c}]
        /\ recent' = Except(recent, gone)
        /\ keyIndex' = Put(Without(keyIndex, KeysOf(gone)), k, m)
        /\ skips' = Except(skips, {k})
        /\ monitors' = Put(monitors, c, Waiting(m))
        /\ \E r \in Ref : Fresh(r) /\ tasks' = Put(tasks, r, m)
        /\ Retire(gone \ Free, failed)
        /\ Become(c, Asking("waiting", k))
        /\ UNCHANGED <<leases, inbox>>

(* checkout_miss finds no slot that it may use. *)
Busy(c) ==
    /\ Free = {}
    /\ slots' = Vacated(slots, {}, Evictable)
    /\ recent' = Except(recent, Evictable)
    /\ keyIndex' = Without(keyIndex, KeysOf(Evictable) \cup {client[c].key})
    /\ Retire(Evictable, Evictable)
    /\ Become(c, Idle)
    /\ UNCHANGED <<skips, leases, monitors, tasks, inbox>>

(* handle_call {:checkout, key, input} *)
Checkout(c) ==
    /\ mode = "running" /\ At(c, {"checkout"})
    /\ \/ Hit(c)
       \/ /\ ~Ready(client[c].key) /\ ~Compiling(client[c].key)
          /\ \/ \E m \in Module, failed \in SUBSET Module :
                    Chosen(m, failed) /\ StartCompilation(c, m, failed)
             \/ Busy(c)
    /\ UNCHANGED <<mode, drain, epoch, alive>>

(* put_skip with trim_skips: the key is the youngest, the oldest may go.      *)
RememberSkip(k) ==
    LET touched == Last(skips, k)
    IN  skips' = IF Cardinality(Listed(touched)) > MaxSkips
                  THEN Except(touched, Oldest(touched)) ELSE touched

(* handle_call {:checkout_cached, key} *)
CheckoutCached(c) ==
    /\ mode = "running" /\ At(c, {"cached"})
    /\ LET k == client[c].key
       IN  \/ Hit(c)
           \/ /\ ~Ready(k) /\ ~Compiling(k)
              /\ keyIndex' = Without(keyIndex, {k})
              /\ IF k \in Listed(skips) \ DOMAIN keyIndex
                 THEN RememberSkip(k) ELSE UNCHANGED skips
              /\ Become(c, Idle)
              /\ UNCHANGED <<slots, recent, leases, monitors, tasks, inbox, code>>
    /\ UNCHANGED <<mode, drain, epoch, alive>>

(* handle_call {:remember_skip, key} *)
Skip(c) ==
    /\ mode = "running" /\ At(c, {"skip"})
    /\ RememberSkip(client[c].key)
    /\ Become(c, Idle)
    /\ UNCHANGED <<mode, books, tasks, drain, epoch, inbox, code, alive>>

(* The three calls when the pool drains or has drained. *)
Refuse(c) ==
    /\ mode \in {"draining", "drained"} /\ At(c, Requests)
    /\ Become(c, Idle)
    /\ UNCHANGED <<pool, inbox, code, alive>>

-----------------------------------------------------------------------------
(* maybe_complete_drain, of the given slots, key index, leases and recency:   *)
(* once nothing is leased or compiled, ready slots are retired (`failed` are  *)
(* those that cannot be) and the drain call is answered.                      *)
Settle(md, call, sl, index, ls, rec) ==
    \/ /\ md = "running" \/ DOMAIN ls # {} \/ DOMAIN tasks' # {}
       /\ slots' = sl /\ keyIndex' = index /\ recent' = rec
       /\ mode' = md /\ drain' = call
       /\ UNCHANGED code
    \/ /\ md # "running" /\ DOMAIN ls = {} /\ DOMAIN tasks' = {}
       /\ LET ready == {m \in Module : sl[m].status = "ready" /\ sl[m].count = 0}
          IN  \E failed \in SUBSET ready :
                /\ slots' = Vacated(sl, ready, failed)
                /\ keyIndex' = Without(index, {sl[m].key : m \in ready})
                /\ recent' = Except(rec, ready)
                /\ Retire(ready, failed)
                /\ drain' = IF call # "waiting" THEN call
                            ELSE IF failed = {} THEN "ok" ELSE "quarantined"
       /\ mode' = "drained"

(* fetch_lease: the lease that c presents is the one on the books. *)
OnBooks(c) == c \in DOMAIN leases /\ leases[c] = client[c].lease

(* release_lease and maybe_complete_drain *)
Release(c) ==
    LET m == leases[c].module
    IN  /\ leases' = Without(leases, {c})
        /\ monitors' = Without(monitors, {c})
        /\ Settle(mode, drain, [slots EXCEPT ![m].count = @ - 1], keyIndex,
                  Without(leases, {c}), Last(recent, m))

(* handle_cast {:checkin_active, lease, caller} *)
CheckIn(c) ==
    /\ mode # "down" /\ At(c, {"returning"})
    /\ \/ OnBooks(c) /\ UNCHANGED tasks /\ Release(c)
       \/ /\ ~OnBooks(c)
          /\ UNCHANGED <<leases, monitors, tasks>>
          /\ Settle(mode, drain, slots, keyIndex, leases, recent)
    /\ Become(c, Idle)
    /\ UNCHANGED <<skips, epoch, inbox, alive>>

OwnerDown_WaiterOnly(c) ==
    /\ mode # "down" /\ c \notin alive /\ c \in DOMAIN monitors
    /\ monitors[c].for = "waiter"
    /\ monitors' = Without(monitors, {c})
    /\ UNCHANGED <<tasks, leases>>
    /\ Settle(mode, drain, [slots EXCEPT ![monitors[c].module].waiters = @ \ {c}],
              keyIndex, leases, recent)
    /\ Become(c, Idle)
    /\ UNCHANGED <<skips, epoch, inbox, alive>>

(* handle_info {:DOWN, ...} of a waiter or lease owner; what it sent before   *)
(* it died came in earlier.                                                   *)
OwnerDown(c) ==
    /\ mode # "down" /\ c \notin alive /\ c \in DOMAIN monitors
    /\ ~At(c, Requests \cup {"returning"})
    /\ UNCHANGED tasks
    /\ \/ monitors[c].for = "lease" /\ Release(c)
       \/ /\ monitors[c].for = "waiter"
          /\ monitors' = Without(monitors, {c})
          /\ UNCHANGED leases
          /\ Settle(mode, drain, [slots EXCEPT ![monitors[c].module].waiters = @ \ {c}],
                    keyIndex, leases, recent)
    /\ Become(c, Idle)
    /\ UNCHANGED <<skips, epoch, inbox, alive>>

-----------------------------------------------------------------------------
(* The compilation of r ends in its own process: with a result or an exit.    *)
TaskEnds(r) ==
    /\ r \in DOMAIN tasks
    /\ \A msg \in inbox : msg.ref = r => msg.kind = "timeout"
    /\ \E kind \in {"artifact", "error", "down"} :
           inbox' = inbox \cup {[kind |-> kind, ref |-> r]}
    /\ UNCHANGED <<pool, code, client, alive>>

TimerFires_Never(r) == FALSE

(* The timer of r fires; drop_task would have cancelled it. *)
TimerFires(r) ==
    /\ r \in DOMAIN tasks /\ [kind |-> "timeout", ref |-> r] \notin inbox
    /\ inbox' = inbox \cup {[kind |-> "timeout", ref |-> r]}
    /\ UNCHANGED <<pool, code, client, alive>>

(* Lifecycle.install takes a module that is not loaded, and purges old code. *)
Installable(m) == code[m] = NoKey \/ (code[m] = OldCode /\ m \notin Entered)

(* compilation_ready: every waiter, dead ones as well, is given a lease.      *)
CompilationReady(m) ==
    LET new == [status |-> "ready", key |-> slots[m].key,
                generation |-> slots[m].generation + 1,
                waiters |-> {}, count |-> Cardinality(slots[m].waiters)]
        sl == [slots EXCEPT ![m] = new]
        served == slots[m].waiters
    IN  /\ Installable(m)
        /\ slots' = sl
        /\ recent' = Last(recent, m)
        /\ leases' = [c \in DOMAIN leases \cup served |->
                          IF c \in served THEN LeaseOn(m, sl) ELSE leases[c]]
        /\ monitors' = [c \in DOMAIN monitors \cup served |->
                          IF c \in served THEN Leasing(m) ELSE monitors[c]]
        /\ client' = [c \in Client |-> IF c \in served
                                       THEN Holding("leased", LeaseOn(m, sl))
                                       ELSE client[c]]
        /\ code' = [code EXCEPT ![m] = slots[m].key]
        /\ UNCHANGED keyIndex

(* compilation_failed: the waiters get an error. *)
CompilationFailed(m, quarantine) ==
    LET turnedAway == slots[m].waiters
    IN  /\ slots' = Vacated(slots, {m}, IF quarantine THEN {m} ELSE {})
        /\ keyIndex' = Without(keyIndex, {slots[m].key})
        /\ monitors' = Without(monitors, turnedAway)
        /\ client' = [c \in Client |-> IF c \in turnedAway THEN Idle ELSE client[c]]
        /\ UNCHANGED <<recent, leases, code>>

(* handle_info of a result, an exit or a timeout of task r, with              *)
(* finish_compilation.  Only the monitor's message is flushed: a result that  *)
(* came too late stays in the mailbox and is ignored like any unknown one.    *)
Handle(r) ==
    /\ mode # "down"
    /\ \E msg \in inbox :
         /\ msg.ref = r
         /\ \/ /\ r \notin DOMAIN tasks
               /\ inbox' = inbox \ {msg}
               /\ UNCHANGED <<tasks, books, code, client>>
            \/ /\ r \in DOMAIN tasks
               /\ inbox' = inbox \ {msg, [kind |-> "down", ref |-> r]}
               /\ tasks' = Without(tasks, {r})
               /\ \/ msg.kind = "artifact" /\ CompilationReady(tasks[r])
                  \/ msg.kind = "artifact" /\ CompilationFailed(tasks[r], TRUE)
                  \/ msg.kind # "artifact" /\ CompilationFailed(tasks[r], FALSE)
    /\ UNCHANGED <<mode, skips, drain, epoch, alive>>

-----------------------------------------------------------------------------
Drain_KeepsCompilations ==
    /\ mode = "running"
    /\ UNCHANGED <<tasks, inbox, monitors, client, leases>>
    /\ Settle("draining", "waiting", slots, keyIndex, leases, recent)
    /\ UNCHANGED <<skips, epoch, alive>>

(* handle_call {:drain, timeout} with cancel_compilations *)
Drain ==
    /\ mode = "running"
    /\ LET cancelled == {tasks[r] : r \in DOMAIN tasks}
           turnedAway == UNION {slots[m].waiters : m \in cancelled}
       IN  /\ tasks' = << >>
           /\ inbox' = {msg \in inbox : msg.ref \in DOMAIN tasks => msg.kind # "down"}
           /\ monitors' = Without(monitors, turnedAway)
           /\ client' = [c \in Client |-> IF c \in turnedAway THEN Idle ELSE client[c]]
           /\ UNCHANGED leases
           /\ Settle("draining", "waiting", Vacated(slots, cancelled, {}),
                     Without(keyIndex, KeysOf(cancelled)), leases, recent)
    /\ UNCHANGED <<skips, epoch, alive>>

(* handle_info {:drain_timeout, reference} *)
DrainTimeout ==
    /\ mode # "down" /\ drain = "waiting"
    /\ drain' = "timeout"
    /\ UNCHANGED <<mode, books, skips, tasks, epoch, inbox, code, client, alive>>

-----------------------------------------------------------------------------
(* An evaluation asks for an artifact or reports that there is none to make. *)
Ask(c) ==
    /\ c \in alive /\ At(c, {"idle"}) /\ mode # "down"
    /\ \A m \in Module : slots[m].generation < MaxGeneration
    /\ \E op \in Requests, k \in Key : Become(c, Asking(op, k))
    /\ UNCHANGED <<pool, inbox, code, alive>>

(* invoke_lease: the lease is validated by a call, the module entered in a    *)
(* later step, and the lease returned by a cast whatever came of it.          *)
Validate(c) ==
    /\ c \in alive /\ At(c, {"leased"})
    /\ Become(c, IF mode = "down" THEN Idle
                 ELSE [client[c] EXCEPT !.pc = IF OnBooks(c) THEN "validated"
                                               ELSE "returning"])
    /\ UNCHANGED <<pool, inbox, code, alive>>

(* The call reaches the current code of the module; there may be none. *)
Enter(c) ==
    /\ c \in alive /\ At(c, {"validated"})
    /\ LET lease == client[c].lease
           current == code[lease.module]
       IN  Become(c, [pc |-> "running", lease |-> lease,
                      runs |-> IF current \in Key THEN current ELSE NoKey])
    /\ UNCHANGED <<pool, inbox, code, alive>>

Return(c) ==
    /\ c \in alive /\ At(c, {"running"})
    /\ Become(c, IF mode = "down" THEN Idle ELSE Holding("returning", client[c].lease))
    /\ UNCHANGED <<pool, inbox, code, alive>>

(* The process of an evaluation is killed, by its timeout or its caller. *)
Die(c) ==
    /\ c \in alive
    /\ alive' = alive \ {c}
    /\ UNCHANGED <<pool, inbox, code, client>>

-----------------------------------------------------------------------------
(* init retires every module, and quarantines those whose retirement fails:   *)
(* code may be left from before this pool.                                    *)
Started(failed) == [m \in Module |-> IF m \in failed THEN Blank("quarantined", 0)
                                     ELSE Blank("free", 0)]

Init ==
    /\ mode = "running"
    /\ \E failed \in SUBSET Module :
          /\ slots = Started(failed)
          /\ code = [m \in Module |-> IF m \in failed THEN OldCode ELSE NoKey]
    /\ recent = {} /\ keyIndex = << >> /\ skips = {}
    /\ leases = << >> /\ monitors = << >> /\ tasks = << >>
    /\ drain = "none" /\ epoch = 0 /\ inbox = {}
    /\ client = [c \in Client |-> Idle]
    /\ alive = Client

(* The pool dies: calls to it exit, casts to it are lost, the code stays.     *)
(* When a callback of its own raised, terminate still retires the idle slots. *)
Crash ==
    /\ mode # "down" /\ epoch < MaxCrashes
    /\ mode' = "down"
    /\ slots' = Started({})
    /\ recent' = {} /\ keyIndex' = << >> /\ skips' = {}
    /\ leases' = << >> /\ monitors' = << >> /\ tasks' = << >>
    /\ drain' = "none" /\ inbox' = {}
    /\ client' = [c \in Client |->
                     IF At(c, Requests \cup {"waiting", "returning"}) THEN Idle
                     ELSE client[c]]
    /\ UNCHANGED code \/ \E failed \in SUBSET Evictable : Retire(Evictable, failed)
    /\ UNCHANGED <<epoch, alive>>

Restart ==
    /\ mode = "down"
    /\ mode' = "running"
    /\ \E failed \in SUBSET Module : Retire(Module, failed) /\ slots' = Started(failed)
    /\ epoch' = epoch + 1
    /\ UNCHANGED <<recent, keyIndex, skips, leases, monitors, tasks, drain,
                   inbox, client, alive>>

-----------------------------------------------------------------------------
Serve(c) == \/ Checkout(c) \/ CheckoutCached(c) \/ Skip(c) \/ Refuse(c)
            \/ CheckIn(c) \/ OwnerDown(c)
Evaluate(c) == Validate(c) \/ Enter(c) \/ Return(c)

Next == \/ \E c \in Client : Ask(c) \/ Serve(c) \/ Evaluate(c) \/ Die(c)
        \/ \E r \in Ref : TaskEnds(r) \/ TimerFires(r) \/ Handle(r)
        \/ Drain \/ DrainTimeout \/ Crash \/ Restart

Spec == Init /\ [][Next]_vars

(* The pool works off its mailbox, timers fire, generated code returns (it    *)
(* is charged for every block) and the supervisor restarts the pool.  That a  *)
(* compilation ever ends by itself is not assumed.                            *)
Fairness == /\ \A c \in Client : WF_vars(Serve(c)) /\ WF_vars(Evaluate(c))
            /\ \A r \in Ref : WF_vars(TimerFires(r)) /\ WF_vars(Handle(r))
            /\ WF_vars(DrainTimeout) /\ WF_vars(Restart)
FairSpec == Spec /\ Fairness

-----------------------------------------------------------------------------
ClientState ==
    {Idle} \cup [pc : Requests \cup {"waiting"}, key : Key]
    \cup [pc : {"leased", "validated", "returning"}, lease : Lease]
    \cup [pc : {"running"}, lease : Lease, runs : Key \cup {NoKey}]

TypeOK ==
    /\ mode \in {"running", "draining", "drained", "down"}
    /\ slots \in [Module -> Slot]
    /\ recent \subseteq Module \X Module
    /\ DOMAIN keyIndex \subseteq Key /\ \A k \in DOMAIN keyIndex : keyIndex[k] \in Module
    /\ skips \subseteq Key \X Key
    /\ DOMAIN leases \subseteq Client /\ \A c \in DOMAIN leases : leases[c] \in Lease
    /\ DOMAIN monitors \subseteq Client
    /\ \A c \in DOMAIN monitors :
           monitors[c] \in [for : {"waiter", "lease"}, module : Module]
    /\ DOMAIN tasks \subseteq Ref /\ \A r \in DOMAIN tasks : tasks[r] \in Module
    /\ drain \in {"none", "waiting", "ok", "quarantined", "timeout"}
    /\ epoch \in Nat
    /\ inbox \subseteq [kind : {"artifact", "error", "down", "timeout"}, ref : Ref]
    /\ code \in [Module -> Key \cup {NoKey, OldCode}]
    /\ client \in [Client -> ClientState]
    /\ alive \subseteq Client

(* "reuses only idle slots": a lease on the books pins its slot, which keeps  *)
(* the artifact and generation the lease was issued for, with its code        *)
(* loaded, and the slot counts its leases exactly.                            *)
LeasesPinSlots ==
    /\ \A c \in DOMAIN leases :
          LET slot == slots[leases[c].module]
          IN  /\ slot.status = "ready" /\ slot.key = leases[c].key
              /\ slot.generation = leases[c].generation /\ leases[c].epoch = epoch
              /\ code[leases[c].module] = slot.key
    /\ \A m \in Module :
          slots[m].count = Cardinality({c \in DOMAIN leases : leases[c].module = m})

(* "compiles each cache miss once": key_index and the slots agree, so that a  *)
(* key is never in two slots.                                                 *)
IndexExact ==
    \A k \in Key, m \in Module :
        (k \in DOMAIN keyIndex /\ keyIndex[k] = m) <=>
            (slots[m].status \in {"compiling", "ready"} /\ slots[m].key = k)

(* Every compiling slot has one task, every waiter a compiling slot, and      *)
(* monitor_index says for what an owner is monitored: no waiter is forgotten, *)
(* and the lookups that raise on a missing entry find it.                     *)
WaitersAccounted ==
    /\ \A m \in Module : slots[m].status = "compiling" <=> \E r \in DOMAIN tasks : tasks[r] = m
    /\ \A r, q \in DOMAIN tasks : tasks[r] = tasks[q] => r = q
    /\ \A m \in Module : slots[m].waiters # {} => slots[m].status = "compiling"
    /\ \A c \in Client, m \in Module :
          /\ c \in slots[m].waiters <=> (c \in DOMAIN monitors /\ monitors[c] = Waiting(m))
          /\ (c \in DOMAIN leases /\ leases[c].module = m)
                <=> (c \in DOMAIN monitors /\ monitors[c] = Leasing(m))

(* last_used is a strict order of exactly the ready slots. *)
RecentExact ==
    /\ Listed(recent) = {m \in Module : slots[m].status = "ready"}
    /\ \A m, n \in Listed(recent) :
          /\ <<m, n>> \in recent \/ <<n, m>> \in recent
          /\ <<m, n>> \in recent /\ <<n, m>> \in recent => m = n
    /\ \A l, m, n \in Listed(recent) :
          <<l, m>> \in recent /\ <<m, n>> \in recent => <<l, n>> \in recent

(* A slot is used again only when its code is gone from the code server: code *)
(* that could not be retired, by an eviction, a drain or a restarted pool, is *)
(* in quarantined slots only.                                                 *)
CodeOnBooks ==
    mode # "down" =>
        \A m \in Module : slots[m].status # "quarantined" =>
            code[m] = IF slots[m].status = "ready" THEN slots[m].key ELSE NoKey

(* The books of the pool (slots with their leases and waiters, key_index,     *)
(* monitor_index, last_used) agree with each other and with the code server:  *)
(* a handler that looks an entry of one up in another, which raises when it   *)
(* is missing, finds it, and no slot is reused under code that still runs.    *)
BooksExact == /\ TypeOK /\ LeasesPinSlots /\ IndexExact /\ WaitersAccounted
              /\ RecentExact /\ CodeOnBooks

(* A drained pool is idle, the drain call is answered by then unless it timed *)
(* out, and what is still loaded is the code of quarantined slots.  (:ok says *)
(* that no retirement of that drain failed; slots quarantined before it keep  *)
(* their code.)                                                               *)
DrainedIsIdle ==
    /\ mode = "drained" => /\ DOMAIN leases = {} /\ DOMAIN tasks = {}
                           /\ DOMAIN keyIndex = {}
                           /\ \A m \in Module : slots[m].status \in {"free", "quarantined"}
    /\ drain \in {"ok", "quarantined"} => mode = "drained"
    /\ mode = "drained" => \A m \in Module : code[m] # NoKey => slots[m].status = "quarantined"
    /\ mode = "drained" => drain # "waiting"

(* "A module may be invoked only while its lease is valid": an evaluation     *)
(* that enters its module runs the artifact of its lease, unless the pool was *)
(* started anew since the lease was issued.                                   *)
RunsLeasedCode ==
    \A c \in alive : At(c, {"running"}) =>
        client[c].runs = client[c].lease.key \/ client[c].lease.epoch # epoch

(* Whoever waits for a compilation is answered, also when its task hangs.     *)
WaitersAnswered == \A c \in Client : At(c, {"waiting"}) ~> ~At(c, {"waiting"})

(* A draining pool drains, even after the drain call has timed out.           *)
DrainCompletes == (mode = "draining") ~> (mode # "draining")

(* The leases and waiters of dead owners go away. *)
OrphansReleased ==
    \A c \in Client : (c \notin alive /\ c \in DOMAIN monitors) ~> (c \notin DOMAIN monitors)
=============================================================================
