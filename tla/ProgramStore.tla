----------------------------- MODULE ProgramStore -----------------------------
(***************************************************************************)
(* The pinned-program store (vm/program/store.ex): a GenServer that hands  *)
(* out leases on programs kept in a fixed number of persistent_term slots. *)
(*                                                                         *)
(* The persistent terms are shared memory.  The server erases them, but a  *)
(* new program is written by the client that pins it, between the server's *)
(* reserve and commit; and the terms survive the server, which restores    *)
(* its books from them when its supervisor restarts it.                    *)
(*                                                                         *)
(* A client runs one operation at a time.  Its monitors and its lease are  *)
(* named after it: it has at most one of each kind at a time.              *)
(***************************************************************************)
EXTENDS Naturals, FiniteSets, FiniteSetsExt

CONSTANTS Key,        \* program identities
          Client,     \* processes that pin, unpin and evaluate programs
          Capacity,   \* number of slots
          Size,       \* residency of each program
          Budget,     \* @maximum_total_residency_bytes
          NoTerm,     \* an absent persistent term
          MaxCrashes  \* bound: crashes of the server

ASSUME StoreAssumption ==
    /\ Capacity \in Nat \ {0} /\ Budget \in Nat
    /\ MaxCrashes \in Nat
    /\ IsFiniteSet(Client)
    /\ Size \in [Key -> Nat]
    /\ NoTerm \notin Key \X Nat

Slot == 0..(Capacity - 1)
Token == 1..(Cardinality(Client) + 2 * Capacity)

VARIABLES up,         \* the server process runs
          entries,    \* key |-> installed program
          slots,      \* slot |-> key
          pending,    \* key |-> installation in progress
          residency,  \* residency_bytes
          terms,      \* slot |-> persistent term
          client,     \* what each client is doing
          alive,      \* clients whose process is alive
          crashes     \* crashes so far

server == <<up, entries, slots, pending, residency>>
vars == <<server, terms, client, alive, crashes>>

Entry == [slot : Slot, token : Token, leases : SUBSET Client, unpin : BOOLEAN]
Install == [slot : Slot, token : Token, owner : Client, waiters : SUBSET Client]

Idle == [pc |-> "idle"]
Asking(pc, k) == [pc |-> pc, key |-> k]
With(pc, k, e) == [pc |-> pc, key |-> k, slot |-> e.slot, token |-> e.token]

(* The function f without the keys in ks; f with k mapped to v. *)
Without(f, ks) == [k \in DOMAIN f \ ks |-> f[k]]
Put(f, k, v) == [j \in DOMAIN f \cup {k} |-> IF j = k THEN v ELSE f[j]]

At(c, pcs) == client[c].pc \in pcs
Become(c, state) == client' = [client EXCEPT ![c] = state]

BecomeAll_OwnerOnly(cs, state, c, own) == Become(c, own)

(* Replying to a set of blocked callers as well as to c. *)
BecomeAll(cs, state, c, own) ==
    client' = [d \in Client |-> IF d = c THEN own
                                ELSE IF d \in cs THEN state ELSE client[d]]

Term(k, e) == <<k, e.token>>
Persisted(k, e) == terms[e.slot] = Term(k, e)
EraseTerm(s) == terms' = [terms EXCEPT ![s] = NoTerm]

-----------------------------------------------------------------------------
(* free_slot *)
FreeSlots == Slot \ (DOMAIN slots \cup {pending[k].slot : k \in DOMAIN pending})
LowestFree(s) == s \in FreeSlots /\ \A t \in FreeSlots : s <= t

(* make_ref: a token that no term, book or client still refers to is as good  *)
(* as a new reference; there are always enough of them.                       *)
UsedTokens ==
    {terms[s][2] : s \in {t \in Slot : terms[t] # NoTerm}}
    \cup {entries[k].token : k \in DOMAIN entries}
    \cup {pending[k].token : k \in DOMAIN pending}
    \cup {client[c].token : c \in {d \in Client : "token" \in DOMAIN client[d]}}
FreshToken(t) == /\ t \in Token \ UsedTokens
                 /\ \A u \in Token \ UsedTokens : t <= u

ResidencyAvailable_NotPending(k) == residency + Size[k] <= Budget

(* residency_available? *)
PendingBytes == SumFunction([k \in DOMAIN pending |-> Size[k]])
ResidencyAvailable(k) == residency + PendingBytes + Size[k] <= Budget

(* remove_entry *)
RemoveEntry(k) ==
    /\ entries' = Without(entries, {k})
    /\ slots' = Without(slots, {entries[k].slot})
    /\ residency' = residency - Size[k]

(* grant_lease: the lease is monitored whoever takes it. *)
GrantLease(c, k) == entries' = [entries EXCEPT ![k].leases = @ \cup {c}]

Releasable_StillPinned(k, left) == left = {}
Releasable_Never(k, left) == FALSE

(* maybe_release_entry: an unpinned program is erased with its last lease. *)
Releasable(k, left) == left = {} /\ entries[k].unpin

(* The lease of c on k ends. *)
DropLease(c, k) ==
    LET left == entries[k].leases \ {c}
    IN  \/ /\ Releasable(k, left)
           /\ EraseTerm(entries[k].slot)
           /\ RemoveEntry(k)
        \/ /\ ~Releasable(k, left)
           /\ entries' = [entries EXCEPT ![k].leases = left]
           /\ UNCHANGED <<terms, slots, residency>>

Installed(k) == k \in DOMAIN entries
Available(k) == Installed(k) /\ ~entries[k].unpin

-----------------------------------------------------------------------------
Init ==
    /\ up = TRUE
    /\ entries = << >> /\ slots = << >> /\ pending = << >>
    /\ residency = 0
    /\ terms = [s \in Slot |-> NoTerm]
    /\ client = [c \in Client |-> Idle]
    /\ alive = Client
    /\ crashes = 0

(* A client calls pin, checkout or unpin; all three first look up the server. *)
Start(c) ==
    /\ c \in alive /\ At(c, {"idle"}) /\ up
    /\ \E k \in Key, op \in {"reserve", "checkout", "unpin"} :
           Become(c, Asking(op, k))
    /\ UNCHANGED <<server, terms, alive, crashes>>

(* handle_call {:checkout_existing, key}, asked by checkout and by            *)
(* recover_or_erase_install; pin returns its lease at once.                   *)
CheckoutExisting(c) ==
    /\ up /\ At(c, {"checkout", "recover"})
    /\ LET k == client[c].key
       IN  \/ /\ Available(k)
              /\ GrantLease(c, k)
              /\ Become(c, With(IF At(c, {"checkout"}) THEN "leased" ELSE "checkin",
                                k, entries[k]))
           \/ /\ ~Available(k)
              /\ Become(c, IF At(c, {"checkout"}) THEN Idle
                           ELSE [client[c] EXCEPT !.pc = "check"])
              /\ UNCHANGED entries
    /\ UNCHANGED <<up, slots, pending, residency, terms, alive, crashes>>

(* handle_call {:reserve, ...}: lease, refuse, join or open an installation. *)
ReserveInstalled(c) ==
    /\ up /\ At(c, {"reserve"}) /\ Installed(client[c].key)
    /\ LET k == client[c].key
       IN  \/ /\ entries[k].unpin
              /\ Become(c, Idle)
              /\ UNCHANGED entries
           \/ /\ ~entries[k].unpin
              /\ GrantLease(c, k)
              /\ Become(c, With("checkin", k, entries[k]))
    /\ UNCHANGED <<up, slots, pending, residency, terms, alive, crashes>>

ReserveMissing(c) ==
    /\ up /\ At(c, {"reserve"}) /\ ~Installed(client[c].key)
    /\ LET k == client[c].key
       IN  \/ /\ k \in DOMAIN pending
              /\ pending' = [pending EXCEPT ![k].waiters = @ \cup {c}]
              /\ Become(c, Asking("waiting", k))
           \/ /\ k \notin DOMAIN pending
              /\ FreeSlots = {} \/ ~ResidencyAvailable(k)
              /\ Become(c, Idle)
              /\ UNCHANGED pending
           \/ /\ k \notin DOMAIN pending
              /\ ResidencyAvailable(k)
              /\ \E s \in Slot, t \in Token :
                     LET install == [slot |-> s, token |-> t,
                                     owner |-> c, waiters |-> {}]
                     IN  /\ LowestFree(s) /\ FreshToken(t)
                         /\ pending' = Put(pending, k, install)
                         /\ Become(c, With("install", k, install))
    /\ UNCHANGED <<up, entries, slots, residency, terms, alive, crashes>>

(* persist_program: the client writes the term itself, or the write raises.   *)
Persist(c) ==
    /\ c \in alive /\ At(c, {"install"})
    /\ \/ /\ terms' = [terms EXCEPT ![client[c].slot] = Term(client[c].key, client[c])]
          /\ Become(c, [client[c] EXCEPT !.pc = "commit"])
       \/ /\ Become(c, [client[c] EXCEPT !.pc = "cancel"])
          /\ UNCHANGED terms
    /\ UNCHANGED <<server, alive, crashes>>

(* The installation that a commit or cancel of c refers to. *)
OwnInstall(c) ==
    /\ client[c].key \in DOMAIN pending
    /\ pending[client[c].key].owner = c
    /\ pending[client[c].key].token = client[c].token

(* complete_install: the owner and every waiter get a lease; pin returns it.  *)
CompleteInstall(c) ==
    LET k == client[c].key
        p == pending[k]
        entry == [slot |-> p.slot, token |-> p.token,
                  leases |-> {c} \cup p.waiters, unpin |-> FALSE]
    IN  /\ entries' = Put(entries, k, entry)
        /\ slots' = Put(slots, p.slot, k)
        /\ pending' = Without(pending, {k})
        /\ residency' = residency + Size[k]
        /\ BecomeAll(p.waiters, With("checkin", k, entry), c, With("checkin", k, entry))
        /\ UNCHANGED terms

(* cancel_install: erase the slot and turn everybody away. *)
CancelInstall(c) ==
    LET k == client[c].key
    IN  /\ EraseTerm(pending[k].slot)
        /\ pending' = Without(pending, {k})
        /\ BecomeAll(pending[k].waiters, Idle, c, [client[c] EXCEPT !.pc = "recover"])
        /\ UNCHANGED <<entries, slots, residency>>

(* handle_call {:commit, ...} and {:cancel, ...} *)
Commit(c) ==
    /\ up /\ At(c, {"commit", "cancel"})
    /\ \/ /\ OwnInstall(c) /\ At(c, {"commit"})
          /\ Persisted(client[c].key, pending[client[c].key])
          /\ CompleteInstall(c)
       \/ /\ OwnInstall(c)
          /\ At(c, {"cancel"}) \/ ~Persisted(client[c].key, pending[client[c].key])
          /\ CancelInstall(c)
       \/ /\ ~OwnInstall(c)
          /\ Become(c, [client[c] EXCEPT !.pc = "recover"])
          /\ UNCHANGED <<entries, slots, pending, residency, terms>>
    /\ UNCHANGED <<up, alive, crashes>>

(* erase_if_owned: a test and, in a later step of the same client, an erase.  *)
EraseIfOwned(c) ==
    /\ c \in alive
    /\ \/ /\ At(c, {"check"})
          /\ Become(c, IF Persisted(client[c].key, client[c])
                       THEN [client[c] EXCEPT !.pc = "erase"] ELSE Idle)
          /\ UNCHANGED terms
       \/ /\ At(c, {"erase"})
          /\ EraseTerm(client[c].slot)
          /\ Become(c, Idle)
    /\ UNCHANGED <<server, alive, crashes>>

(* The evaluation under a lease ends; without a server its checkin is dropped *)
Finish(c) ==
    /\ c \in alive /\ At(c, {"leased"})
    /\ Become(c, IF up THEN [client[c] EXCEPT !.pc = "checkin"] ELSE Idle)
    /\ UNCHANGED <<server, terms, alive, crashes>>

(* The lease that client c was given is on the books. *)
Leased(c, k) == Installed(k) /\ c \in entries[k].leases

(* handle_info {:checkin, lease} *)
CheckIn(c) ==
    /\ up /\ At(c, {"checkin"})
    /\ LET k == client[c].key
       IN  \/ /\ Leased(c, k)
              /\ entries[k].slot = client[c].slot /\ entries[k].token = client[c].token
              /\ DropLease(c, k)
           \/ /\ ~( /\ Leased(c, k)
                    /\ entries[k].slot = client[c].slot
                    /\ entries[k].token = client[c].token)
              /\ UNCHANGED <<entries, slots, residency, terms>>
    /\ Become(c, Idle)
    /\ UNCHANGED <<up, pending, alive, crashes>>

Unpin_IgnoresLeases(c) ==
    /\ up /\ At(c, {"unpin"})
    /\ LET k == client[c].key
       IN  \/ /\ Installed(k)
              /\ EraseTerm(entries[k].slot)
              /\ RemoveEntry(k)
           \/ /\ ~Installed(k)
              /\ UNCHANGED <<entries, slots, residency, terms>>
    /\ Become(c, Idle)
    /\ UNCHANGED <<up, pending, alive, crashes>>

(* handle_call {:unpin, key} *)
Unpin(c) ==
    /\ up /\ At(c, {"unpin"})
    /\ LET k == client[c].key
       IN  \/ /\ Installed(k) /\ entries[k].leases = {}
              /\ EraseTerm(entries[k].slot)
              /\ RemoveEntry(k)
           \/ /\ Installed(k) /\ entries[k].leases # {}
              /\ entries' = [entries EXCEPT ![k].unpin = TRUE]
              /\ UNCHANGED <<slots, residency, terms>>
           \/ /\ ~Installed(k)
              /\ UNCHANGED <<entries, slots, residency, terms>>
    /\ Become(c, Idle)
    /\ UNCHANGED <<up, pending, alive, crashes>>

(* A client's process dies. *)
Die(c) ==
    /\ c \in alive
    /\ alive' = alive \ {c}
    /\ UNCHANGED <<server, terms, client, crashes>>

(* handle_info {:DOWN, ...}: what the dead client sent came in before it.     *)
OwnerDown(c) ==
    /\ up /\ c \notin alive /\ ~At(c, {"commit", "cancel", "checkin"})
    /\ \/ \E k \in DOMAIN pending :
             /\ pending[k].owner = c
             /\ EraseTerm(pending[k].slot)
             /\ pending' = Without(pending, {k})
             /\ BecomeAll(pending[k].waiters, Idle, c, Idle)
             /\ UNCHANGED <<entries, slots, residency>>
       \/ \E k \in DOMAIN entries :
             /\ c \in entries[k].leases
             /\ DropLease(c, k)
             /\ UNCHANGED <<client, pending>>
    /\ UNCHANGED <<up, alive, crashes>>

-----------------------------------------------------------------------------
(* The server is killed: calls in its mailbox exit, which safe_store_call     *)
(* turns into :unavailable, and checkins in it are lost.                      *)
Crash ==
    /\ up /\ crashes < MaxCrashes
    /\ up' = FALSE
    /\ crashes' = crashes + 1
    /\ entries' = << >> /\ slots' = << >> /\ pending' = << >>
    /\ residency' = 0
    /\ client' = [c \in Client |->
           IF At(c, {"reserve", "waiting", "checkout", "unpin", "checkin"}) THEN Idle
           ELSE IF At(c, {"commit", "cancel"}) THEN [client[c] EXCEPT !.pc = "recover"]
           ELSE client[c]]
    /\ UNCHANGED <<terms, alive>>

(* A call to a server that is not there exits as well. *)
CallWithoutServer(c) ==
    /\ ~up /\ At(c, {"commit", "cancel", "recover"})
    /\ Become(c, [client[c] EXCEPT !.pc = IF @ = "recover" THEN "check" ELSE "recover"])
    /\ UNCHANGED <<server, terms, alive, crashes>>

(* restore_slots: slots in order, each kept while the budget allows.  The     *)
(* reads are one step: they commute with the clients' writes of other slots.  *)
Restored ==
    LET after[n \in 0..Capacity] ==
            IF n = 0 THEN [kept |-> {}, bytes |-> 0]
            ELSE LET s == n - 1
                     before == after[n - 1]
                 IN  IF terms[s] = NoTerm \/ before.bytes + Size[terms[s][1]] > Budget
                     THEN before
                     ELSE [kept |-> before.kept \cup {s},
                           bytes |-> before.bytes + Size[terms[s][1]]]
    IN  after[Capacity]

(* When two slots hold one key, the entry is the later slot's (Map.put).      *)
Restart ==
    /\ ~up
    /\ up' = TRUE
    /\ terms' = [s \in Slot |-> IF s \in Restored.kept THEN terms[s] ELSE NoTerm]
    /\ slots' = [s \in Restored.kept |-> terms[s][1]]
    /\ entries' = [k \in {terms[s][1] : s \in Restored.kept} |->
           LET s == Max({t \in Restored.kept : terms[t][1] = k})
           IN  [slot |-> s, token |-> terms[s][2], leases |-> {}, unpin |-> FALSE]]
    /\ residency' = Restored.bytes
    /\ UNCHANGED <<pending, client, alive, crashes>>

-----------------------------------------------------------------------------
(* One step of the server on a message of c, or of c by itself. *)
Serve(c) == \/ CheckoutExisting(c) \/ ReserveInstalled(c) \/ ReserveMissing(c)
            \/ Commit(c) \/ CheckIn(c) \/ Unpin(c) \/ OwnerDown(c)
Proceed(c) == Persist(c) \/ EraseIfOwned(c) \/ Finish(c) \/ CallWithoutServer(c)

Next == \/ \E c \in Client : Start(c) \/ Serve(c) \/ Proceed(c) \/ Die(c)
        \/ Crash \/ Restart

Spec == Init /\ [][Next]_vars

(* The server works off its mailbox, a client that runs finishes what it      *)
(* began, and the supervisor restarts the server.                             *)
Fairness == /\ \A c \in Client : WF_vars(Serve(c)) /\ WF_vars(Proceed(c))
            /\ WF_vars(Restart)
FairSpec == Spec /\ Fairness

-----------------------------------------------------------------------------
ClientState ==
    {Idle}
    \cup [pc : {"reserve", "checkout", "unpin", "waiting"}, key : Key]
    \cup [pc : {"install", "commit", "cancel", "recover", "check", "erase",
                "leased", "checkin"},
          key : Key, slot : Slot, token : Token]

(* The types of the server's books, the terms and the clients. *)
TypeOK ==
    /\ up \in BOOLEAN
    /\ DOMAIN entries \subseteq Key /\ \A k \in DOMAIN entries : entries[k] \in Entry
    /\ DOMAIN slots \subseteq Slot /\ \A s \in DOMAIN slots : slots[s] \in Key
    /\ DOMAIN pending \subseteq Key /\ \A k \in DOMAIN pending : pending[k] \in Install
    /\ residency \in Nat
    /\ terms \in [Slot -> (Key \X Token) \cup {NoTerm}]
    /\ client \in [Client -> ClientState]
    /\ alive \subseteq Client
    /\ crashes \in 0..MaxCrashes

(* "active leases defer erasure until their workers finish": whoever          *)
(* evaluates under a lease finds its program in the persistent term.          *)
LeaseCovers ==
    \A c \in alive :
        At(c, {"leased"}) => terms[client[c].slot] = Term(client[c].key, client[c])

(* A slot holds one program: an entry has its slot to itself, and so has an   *)
(* installation in progress, of a key that is not installed.                  *)
SlotsExclusive ==
    /\ \A k \in DOMAIN entries : /\ entries[k].slot \in DOMAIN slots
                                /\ slots[entries[k].slot] = k
    /\ \A k \in DOMAIN pending :
          /\ pending[k].slot \notin DOMAIN slots
          /\ k \notin DOMAIN entries
          /\ \A j \in DOMAIN pending : pending[j].slot = pending[k].slot => j = k

(* A slot on the books is some entry's: none is lost.                         *)
SlotsMirrored ==
    \A s \in DOMAIN slots : slots[s] \in DOMAIN entries /\ entries[slots[s]].slot = s

(* A program on the books can be fetched: a checkout never hands out a lease  *)
(* on a term that is missing or another's.                                    *)
InstalledPersisted == \A k \in DOMAIN entries : Persisted(k, entries[k])

(* Whoever evaluates a program or is about to has it: until the server        *)
(* crashes, when it forgets the leases and restores what a client of its      *)
(* predecessor is about to erase.                                             *)
ProgramsPersist == crashes = 0 => LeaseCovers /\ InstalledPersisted

(* The residency counter is what the programs in the slots weigh. *)
ResidencyExact == residency = SumFunction([s \in DOMAIN slots |-> Size[slots[s]]])

(* "bounds ... total external-term residency": what the persistent terms      *)
(* really hold stays within the budget, not only what the books say.          *)
TermsBounded ==
    SumFunction([s \in {t \in Slot : terms[t] # NoTerm} |-> Size[terms[s][1]]]) <= Budget

(* A term without a slot on the books is one that a client has still to       *)
(* commit or to erase: no program is left behind in shared memory.            *)
NoOrphanTerm ==
    \A s \in Slot : (up /\ terms[s] # NoTerm) =>
        \/ s \in DOMAIN slots
        \/ \E k \in DOMAIN pending : pending[k].slot = s
        \/ \E c \in Client : At(c, {"commit", "recover", "check", "erase"})
                             /\ client[c].slot = s

(* The books of the store (entries, slots, pending, residency_bytes) agree    *)
(* with each other, those that a restart rebuilds too; and until a crash      *)
(* every persistent term is accounted for: no sequence of commits,            *)
(* cancellations and deaths leaks a slot, bytes or a term.  A second crash    *)
(* may leave one program in two slots, written by installers of two lives of  *)
(* the server; restore_slots makes one entry of them, and one slot is lost.   *)
BooksExact ==
    /\ TypeOK /\ SlotsExclusive /\ ResidencyExact
    /\ crashes <= 1 => SlotsMirrored
    /\ crashes = 0 => TermsBounded /\ NoOrphanTerm

(* "does not evict programs implicitly": an entry goes only by an unpin of    *)
(* its key or, unpinned before, with its last lease.                          *)
NoImplicitEviction ==
    [][\A k \in Key :
          (up' /\ Installed(k) /\ ~Installed(k)') =>
              \/ entries[k].unpin
              \/ \E c \in Client : client[c] = Asking("unpin", k) /\ client'[c] = Idle]_vars

(* A pin that waits for another's installation is answered, whatever becomes  *)
(* of the installer.                                                          *)
WaiterAnswered(c) == At(c, {"waiting"}) ~> ~At(c, {"waiting"})
WaitersAnswered == \A c \in Client : WaiterAnswered(c)

(* A deferred erasure happens once the leases end or their owners die. *)
UnpinCompletes ==
    \A k \in Key : (Installed(k) /\ ~Available(k)) ~> ~Installed(k)
=============================================================================
