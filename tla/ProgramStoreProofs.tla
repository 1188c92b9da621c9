--------------------------- MODULE ProgramStoreProofs ---------------------------
(***************************************************************************)
(* Theorems about the pinned-program store, for every set of programs and  *)
(* clients, every number of slots and every budget: no program is evicted  *)
(* implicitly, crashes or not; until a crash every program on the books,   *)
(* and every one that is evaluated under a lease, is in its slot; and the  *)
(* books of slots and bytes agree with one another through crashes, with   *)
(* the terms until the first of them.                                      *)
(***************************************************************************)
EXTENDS ProgramStore, FiniteSetTheorems, TLAPS

-----------------------------------------------------------------------------
(* A client that unpins does nothing else, and a server that is down has no   *)
(* entries.                                                                   *)
UnpinsAreWhole ==
    /\ client = [c \in Client |-> client[c]]
    /\ \A c \in Client : /\ "pc" \in DOMAIN client[c]
                         /\ client[c].pc = "unpin" => client[c] = Asking("unpin", client[c].key)
    /\ ~up => DOMAIN entries = {}

Evicts(k) ==
    up' /\ Installed(k) /\ ~Installed(k)' =>
        \/ entries[k].unpin
        \/ \E c \in Client : client[c] = Asking("unpin", k) /\ client'[c] = Idle

LEMMA UnpinsAreWholeStep ==
    ASSUME UnpinsAreWhole, [Next]_vars
    PROVE  UnpinsAreWhole' /\ \A k \in Key : Evicts(k)
<1> USE DEF UnpinsAreWhole, Evicts, Installed, Become, BecomeAll, At, Asking, With, Idle
<1>1. ASSUME NEW c \in Client, Start(c)
      PROVE  UnpinsAreWhole' /\ \A k \in Key : Evicts(k)
  BY <1>1 DEF Start, server
<1>2. ASSUME NEW c \in Client, CheckoutExisting(c) \/ ReserveInstalled(c)
      PROVE  UnpinsAreWhole' /\ \A k \in Key : Evicts(k)
  BY <1>2 DEF CheckoutExisting, ReserveInstalled, GrantLease
<1>3. ASSUME NEW c \in Client, ReserveMissing(c)
      PROVE  UnpinsAreWhole' /\ \A k \in Key : Evicts(k)
  <2> HIDE DEF Become, Asking, With, Idle
  <2>1. UNCHANGED <<entries, up>>
    BY <1>3 DEF ReserveMissing
  <2>2. \/ Become(c, Asking("waiting", client[c].key))
        \/ Become(c, Idle)
        \/ \E install : Become(c, With("install", client[c].key, install))
    BY <1>3 DEF ReserveMissing
  <2> DEFINE Settled(state) == "pc" \in DOMAIN state /\ state.pc # "unpin"
  <2>3. /\ Settled(Idle)
        /\ \A k : Settled(Asking("waiting", k))
        /\ \A k, e : Settled(With("install", k, e))
    BY DEF Asking, With, Idle
  <2>4. PICK state : Become(c, state) /\ Settled(state)
    <3> HIDE DEF Settled
    <3>1. QED
      BY <2>2, <2>3
  <2>5. /\ client' = [d \in Client |-> client'[d]]
        /\ \A d \in Client : client'[d] = IF d = c THEN state ELSE client[d]
    BY <2>4 DEF Become
  <2>6. QED
    BY <2>1, <2>4, <2>5
<1>4. ASSUME NEW c \in Client, Commit(c)
      PROVE  UnpinsAreWhole' /\ \A k \in Key : Evicts(k)
  <2>1. CASE OwnInstall(c) /\ CompleteInstall(c)
    BY <1>4, <2>1 DEF Commit, CompleteInstall, Put
  <2>2. CASE OwnInstall(c) /\ CancelInstall(c)
    BY <1>4, <2>2 DEF Commit, CancelInstall
  <2>3. CASE UNCHANGED entries /\ Become(c, [client[c] EXCEPT !.pc = "recover"])
    BY <1>4, <2>3 DEF Commit
  <2>4. QED
    BY <1>4, <2>1, <2>2, <2>3 DEF Commit
<1>5. ASSUME NEW c \in Client, CheckIn(c)
      PROVE  UnpinsAreWhole' /\ \A k \in Key : Evicts(k)
  BY <1>5 DEF CheckIn, DropLease, Releasable, RemoveEntry, Without
<1>6. ASSUME NEW c \in Client, Unpin(c)
      PROVE  UnpinsAreWhole' /\ \A k \in Key : Evicts(k)
  BY <1>6 DEF Unpin, RemoveEntry, Without
<1>7. ASSUME NEW c \in Client, OwnerDown(c)
      PROVE  UnpinsAreWhole' /\ \A k \in Key : Evicts(k)
  <2>1. CASE /\ UNCHANGED <<entries, up>>
             /\ \E k \in DOMAIN pending : BecomeAll(pending[k].waiters, Idle, c, Idle)
    BY <2>1
  <2>2. CASE /\ \E k \in DOMAIN entries : DropLease(c, k)
             /\ UNCHANGED <<client, up>>
    BY <2>2 DEF DropLease, Releasable, RemoveEntry, Without
  <2>3. QED
    BY <1>7, <2>1, <2>2 DEF OwnerDown
<1>8. ASSUME NEW c \in Client,
             Persist(c) \/ EraseIfOwned(c) \/ Finish(c) \/ CallWithoutServer(c) \/ Die(c)
      PROVE  UnpinsAreWhole' /\ \A k \in Key : Evicts(k)
  BY <1>8 DEF Persist, EraseIfOwned, Finish, CallWithoutServer, Die, server
<1>9. CASE Crash
  BY <1>9 DEF Crash
<1>10. CASE Restart
  BY <1>10 DEF Restart
<1>11. CASE UNCHANGED vars
  BY <1>11 DEF vars, server
<1>12. QED
  BY <1>1, <1>2, <1>3, <1>4, <1>5, <1>6, <1>7, <1>8, <1>9, <1>10, <1>11
     DEF Next, Serve, Proceed

(* "does not evict programs implicitly": whatever clients ask, however they   *)
(* and the server die, an entry of a running server goes only by an unpin of  *)
(* its key, at once or with its last lease (store.ex:193, 467).               *)
THEOREM EvictionIsExplicit == Spec => NoImplicitEviction
<1>1. Init => UnpinsAreWhole
  BY DEF Init, UnpinsAreWhole, Idle
<1>2. ASSUME UnpinsAreWhole, [Next]_vars
      PROVE  [\A k \in Key : Evicts(k)]_vars
  BY <1>2, UnpinsAreWholeStep
<1>3. ASSUME UnpinsAreWhole, [Next]_vars
      PROVE  UnpinsAreWhole'
  BY <1>3, UnpinsAreWholeStep
<1>4. QED
  BY <1>1, <1>2, <1>3, PTL DEF Spec, NoImplicitEviction, Evicts
-----------------------------------------------------------------------------
(* What holds until the server crashes.  A client that installs owns an       *)
(* installation on the books; one whose installation was cancelled has no     *)
(* term, and nobody is given its token, so that it never comes to erase.      *)
EntriesTyped == DOMAIN entries \subseteq Key /\ \A k \in DOMAIN entries : entries[k] \in Entry
PendingTyped == DOMAIN pending \subseteq Key /\ \A k \in DOMAIN pending : pending[k] \in Install
ClientTyped == client \in [Client -> ClientState]
TermsTyped == terms = [s \in Slot |-> terms[s]]
Types == EntriesTyped /\ PendingTyped /\ ClientTyped /\ TermsTyped

TokensExclusive ==
    \A k, j \in DOMAIN pending : pending[k].token = pending[j].token => k = j

Installs(c) == OwnInstall(c) /\ pending[client[c].key].slot = client[c].slot
Cancelled(c) ==
    /\ terms[client[c].slot] # Term(client[c].key, client[c])
    /\ \A k \in DOMAIN pending : pending[k].token # client[c].token
Covered(c) ==
    /\ Leased(c, client[c].key)
    /\ entries[client[c].key].slot = client[c].slot
    /\ entries[client[c].key].token = client[c].token

InStep(c) ==
    /\ At(c, {"install", "commit", "cancel"}) => Installs(c)
    /\ At(c, {"recover", "check"}) => Cancelled(c)
    /\ ~At(c, {"erase"})
    /\ c \in alive /\ At(c, {"leased"}) => Covered(c)

Books == SlotsExclusive /\ InstalledPersisted /\ TokensExclusive
Calm == up /\ Types /\ Books /\ \A c \in Client : InStep(c)

LEMMA DropLeaseTypes ==
    ASSUME EntriesTyped, TermsTyped, NEW c, NEW k \in DOMAIN entries, DropLease(c, k)
    PROVE  EntriesTyped' /\ TermsTyped'
BY DEF EntriesTyped, TermsTyped, Entry, DropLease, Releasable, RemoveEntry, EraseTerm, Without

LEMMA TypesStep ==
    ASSUME Types, [Next]_vars, ~Crash, ~Restart
    PROVE  Types'
<1> USE DEF Types
<1>1. ASSUME NEW c \in Client, Start(c)
      PROVE  Types'
  <2>1. ClientTyped'
    BY <1>1 DEF Start, ClientTyped, ClientState, Become, Asking
  <2>2. QED
    BY <1>1, <2>1 DEF Start, server, EntriesTyped, PendingTyped, TermsTyped
<1>2. ASSUME NEW c \in Client, CheckoutExisting(c) \/ ReserveInstalled(c)
      PROVE  Types'
  <2>1. client[c].key \in Key
    BY <1>2 DEF CheckoutExisting, ReserveInstalled, At, ClientTyped, ClientState, Idle
  <2>2. EntriesTyped'
    BY <1>2, <2>1 DEF CheckoutExisting, ReserveInstalled, GrantLease, EntriesTyped, Entry
  <2>3. ClientTyped'
    BY <1>2, <2>1 DEF CheckoutExisting, ReserveInstalled, Available, Installed, EntriesTyped, Entry,
                      ClientTyped, ClientState, Become, At, With, Idle
  <2>4. QED
    BY <1>2, <2>2, <2>3 DEF CheckoutExisting, ReserveInstalled, PendingTyped, TermsTyped
<1>3. ASSUME NEW c \in Client, ReserveMissing(c)
      PROVE  Types'
  <2>1. client[c].key \in Key
    BY <1>3 DEF ReserveMissing, At, ClientTyped, ClientState, Idle
  <2>2. CASE \E s \in Slot, t \in Token :
               LET install == [slot |-> s, token |-> t, owner |-> c, waiters |-> {}]
               IN  /\ pending' = Put(pending, client[c].key, install)
                   /\ Become(c, With("install", client[c].key, install))
    <3>1. PendingTyped'
      BY <2>1, <2>2 DEF PendingTyped, Install, Put
    <3>2. ClientTyped'
      BY <2>1, <2>2 DEF ClientTyped, ClientState, Become, With
    <3>3. QED
      BY <1>3, <3>1, <3>2 DEF ReserveMissing, EntriesTyped, TermsTyped
  <2>3. CASE /\ \/ pending' = [pending EXCEPT ![client[c].key].waiters = @ \cup {c}]
                \/ UNCHANGED pending
             /\ Become(c, Asking("waiting", client[c].key)) \/ Become(c, Idle)
    <3>1. PendingTyped'
      BY <2>1, <2>3 DEF PendingTyped, Install
    <3>2. ClientTyped'
      BY <2>1, <2>3 DEF ClientTyped, ClientState, Become, Asking, Idle
    <3>3. QED
      BY <1>3, <3>1, <3>2 DEF ReserveMissing, EntriesTyped, TermsTyped
  <2>4. QED
    BY <1>3, <2>2, <2>3 DEF ReserveMissing
<1>4. ASSUME NEW c \in Client, Commit(c)
      PROVE  Types'
  <2>1. /\ client[c] \in ClientState /\ client[c].pc \in {"commit", "cancel"}
        /\ client[c].key \in Key
    BY <1>4 DEF Commit, At, ClientTyped, ClientState, Idle
  <2>2. CASE OwnInstall(c) /\ CompleteInstall(c)
    <3>1. EntriesTyped'
      BY <2>1, <2>2 DEF OwnInstall, CompleteInstall, EntriesTyped, PendingTyped, Entry, Install, Put
    <3>2. PendingTyped' /\ TermsTyped'
      BY <2>2 DEF CompleteInstall, PendingTyped, TermsTyped, Without
    <3>3. ClientTyped'
      BY <2>1, <2>2 DEF OwnInstall, CompleteInstall, PendingTyped, Install, ClientTyped, ClientState,
                        BecomeAll, With
    <3>4. QED
      BY <3>1, <3>2, <3>3
  <2>3. CASE OwnInstall(c) /\ CancelInstall(c)
    <3>1. PendingTyped' /\ TermsTyped' /\ EntriesTyped'
      BY <2>3 DEF CancelInstall, EraseTerm, PendingTyped, TermsTyped, EntriesTyped, Without
    <3>2. ClientTyped'
      BY <2>1, <2>3 DEF CancelInstall, ClientTyped, ClientState, BecomeAll, Idle
    <3>3. QED
      BY <3>1, <3>2
  <2>4. CASE Become(c, [client[c] EXCEPT !.pc = "recover"]) /\ UNCHANGED <<entries, pending, terms>>
    <3>1. ClientTyped'
      BY <2>1, <2>4 DEF ClientTyped, ClientState, Become, Idle
    <3>2. QED
      BY <2>4, <3>1 DEF EntriesTyped, PendingTyped, TermsTyped
  <2>5. QED
    BY <1>4, <2>2, <2>3, <2>4 DEF Commit
<1>5. ASSUME NEW c \in Client, CheckIn(c)
      PROVE  Types'
  <2>1. EntriesTyped' /\ TermsTyped'
    BY <1>5, DropLeaseTypes DEF CheckIn, Leased, Installed, EntriesTyped, TermsTyped
  <2>2. ClientTyped'
    BY <1>5 DEF CheckIn, ClientTyped, ClientState, Become
  <2>3. QED
    BY <1>5, <2>1, <2>2 DEF CheckIn, PendingTyped
<1>6. ASSUME NEW c \in Client, Unpin(c)
      PROVE  Types'
  <2>1. EntriesTyped'
    <3>1. CASE entries' = Without(entries, {client[c].key})
      BY <3>1 DEF EntriesTyped, Without
    <3>2. CASE /\ client[c].key \in DOMAIN entries
               /\ entries' = [entries EXCEPT ![client[c].key].unpin = TRUE]
      BY <3>2 DEF EntriesTyped, Entry
    <3>3. CASE UNCHANGED entries
      BY <3>3 DEF EntriesTyped
    <3>4. QED
      BY <1>6, <3>1, <3>2, <3>3 DEF Unpin, Installed, RemoveEntry
  <2>2. TermsTyped'
    BY <1>6 DEF Unpin, EraseTerm, TermsTyped
  <2>3. ClientTyped'
    BY <1>6 DEF Unpin, ClientTyped, ClientState, Become
  <2>4. QED
    BY <1>6, <2>1, <2>2, <2>3 DEF Unpin, PendingTyped
<1>7. ASSUME NEW c \in Client, OwnerDown(c)
      PROVE  Types'
  <2>1. CASE \E k \in DOMAIN pending :
               /\ EraseTerm(pending[k].slot)
               /\ pending' = Without(pending, {k})
               /\ BecomeAll(pending[k].waiters, Idle, c, Idle)
               /\ UNCHANGED entries
    <3>1. ClientTyped'
      BY <2>1 DEF ClientTyped, ClientState, BecomeAll
    <3>2. QED
      BY <2>1, <3>1 DEF EraseTerm, Without, PendingTyped, TermsTyped, EntriesTyped
  <2>2. CASE /\ \E k \in DOMAIN entries : DropLease(c, k)
             /\ UNCHANGED <<client, pending>>
    BY <2>2, DropLeaseTypes DEF ClientTyped, PendingTyped
  <2>3. QED
    BY <1>7, <2>1, <2>2 DEF OwnerDown
<1>8. ASSUME NEW c \in Client,
             Persist(c) \/ EraseIfOwned(c) \/ Finish(c) \/ CallWithoutServer(c) \/ Die(c)
      PROVE  Types'
  <2>1. ClientTyped'
    BY <1>8 DEF Persist, EraseIfOwned, Finish, CallWithoutServer, Die, ClientTyped, ClientState,
                Become, At, Idle
  <2>2. TermsTyped'
    BY <1>8 DEF Persist, EraseIfOwned, EraseTerm, Finish, CallWithoutServer, Die, TermsTyped
  <2>3. QED
    BY <1>8, <2>1, <2>2 DEF Persist, EraseIfOwned, Finish, CallWithoutServer, Die, server,
                            EntriesTyped, PendingTyped
<1>9. CASE UNCHANGED vars
  BY <1>9 DEF vars, server, EntriesTyped, PendingTyped, ClientTyped, TermsTyped
<1>10. QED
  BY <1>1, <1>2, <1>3, <1>4, <1>5, <1>6, <1>7, <1>8, <1>9 DEF Next, Serve, Proceed
-----------------------------------------------------------------------------
(* A cleared slot holds nobody's program. *)
LEMMA NoTermIsNoProgram ==
    ASSUME NEW k \in Key, NEW t \in Token
    PROVE  NoTerm # <<k, t>>
BY StoreAssumption DEF Token

(* What a client that is at something has in hand. *)
LEMMA InHand ==
    ASSUME ClientTyped, NEW c \in Client
    PROVE  /\ client[c] # Idle /\ client[c].pc # "idle" => client[c].key \in Key
           /\ At(c, {"install", "commit", "cancel", "recover", "check", "erase", "leased", "checkin"})
                 => client[c] \in [pc : {"install", "commit", "cancel", "recover", "check", "erase",
                                         "leased", "checkin"},
                                   key : Key, slot : Slot, token : Token]
BY DEF ClientTyped, ClientState, Idle, At

(* A client that moves to where nothing is asked of it, while the books and   *)
(* the terms stay.                                                            *)
LEMMA StaysInStep ==
    ASSUME NEW d \in Client, InStep(d), UNCHANGED <<entries, pending, terms>>,
           client'[d] = client[d], alive' \subseteq alive
    PROVE  InStep(d)'
BY DEF InStep, At, Installs, OwnInstall, Cancelled, Term, Covered, Leased, Installed

LEMMA BooksStay ==
    ASSUME Books, UNCHANGED <<entries, slots, pending, terms>>
    PROVE  Books'
BY DEF Books, SlotsExclusive, InstalledPersisted, Persisted, Term, TokensExclusive

(* Taking part k out of the books with its term. *)
LEMMA RemoveKeepsBooks ==
    ASSUME Types, Books, NEW k \in DOMAIN entries, RemoveEntry(k), EraseTerm(entries[k].slot),
           UNCHANGED pending
    PROVE  Books'
<1> USE DEF Types, EntriesTyped, TermsTyped, Entry, RemoveEntry, EraseTerm, Without, Books
<1>1. SlotsExclusive'
  BY DEF SlotsExclusive
<1>2. InstalledPersisted'
  BY DEF InstalledPersisted, Persisted, Term, SlotsExclusive
<1>3. TokensExclusive'
  BY DEF TokensExclusive
<1>4. QED
  BY <1>1, <1>2, <1>3

LEMMA DropLeaseKeepsBooks ==
    ASSUME Types, Books, NEW c, NEW k \in DOMAIN entries, DropLease(c, k), UNCHANGED pending
    PROVE  Books'
<1>1. CASE EraseTerm(entries[k].slot) /\ RemoveEntry(k)
  BY <1>1, RemoveKeepsBooks
<1>2. CASE /\ entries' = [entries EXCEPT ![k].leases = entries[k].leases \ {c}]
           /\ UNCHANGED <<terms, slots>>
  <2>1. /\ DOMAIN entries' = DOMAIN entries
        /\ \A j \in DOMAIN entries : /\ entries'[j].slot = entries[j].slot
                                     /\ entries'[j].token = entries[j].token
    BY <1>2 DEF Types, EntriesTyped, Entry
  <2>2. SlotsExclusive'
    BY <1>2, <2>1 DEF Books, SlotsExclusive
  <2>3. InstalledPersisted'
    BY <1>2, <2>1 DEF Books, InstalledPersisted, Persisted, Term
  <2>4. TokensExclusive'
    BY DEF Books, TokensExclusive
  <2>5. QED
    BY <2>2, <2>3, <2>4 DEF Books
<1>3. QED
  BY <1>1, <1>2 DEF DropLease

(* The lease of another client, or none, is dropped: whoever is alive under a *)
(* lease keeps it, and the entry.                                             *)
LEMMA DropLeaseKeepsOthers ==
    ASSUME Types, Books, NEW c \in Client, NEW k \in DOMAIN entries, DropLease(c, k),
           UNCHANGED <<pending, alive>>,
           NEW d \in Client, InStep(d), client'[d] = client[d],
           d # c \/ ~(d \in alive /\ At(d, {"leased"}))
    PROVE  InStep(d)'
<1>1. At(d, {"recover", "check"}) =>
          terms'[client[d].slot] \in {terms[client[d].slot], NoTerm}
  <2>1. CASE UNCHANGED terms
    BY <2>1
  <2>2. CASE terms' = [terms EXCEPT ![entries[k].slot] = NoTerm]
    <3>1. At(d, {"recover", "check"}) => client[d].slot \in Slot
      BY InHand DEF At, Types
    <3>2. QED
      BY <2>2, <3>1 DEF Types, TermsTyped
  <2>3. QED
    BY <2>1, <2>2 DEF DropLease, EraseTerm
<1>2. At(d, {"recover", "check"})' => Cancelled(d)'
  BY <1>1, InHand, NoTermIsNoProgram DEF InStep, At, Cancelled, Term, Types
<1>3. CASE d \in alive /\ At(d, {"leased"})
  <2>1. Covered(d) /\ d # c
    BY <1>3 DEF InStep
  <2>2. ~(client[d].key = k /\ Releasable(k, entries[k].leases \ {c}))
    BY <2>1 DEF Covered, Leased, Releasable
  <2>3. Covered(d)'
    BY <1>3, <2>1, <2>2 DEF Covered, Leased, Installed, DropLease, RemoveEntry, Without, Types,
                            EntriesTyped, Entry
  <2>4. QED
    BY <1>2, <1>3, <2>3 DEF InStep, At
<1>4. CASE ~(d \in alive /\ At(d, {"leased"}))
  BY <1>2, <1>4 DEF InStep, At, Installs, OwnInstall
<1>5. QED
  BY <1>3, <1>4
-----------------------------------------------------------------------------
(* A step of c by itself: the books stay, and so does every other client. *)
LEMMA OwnStepIsCalm ==
    ASSUME Calm, NEW c \in Client, NEW state, Become(c, state),
           UNCHANGED <<up, entries, slots, pending, terms>>, alive' \subseteq alive,
           Types', InStep(c)'
    PROVE  Calm'
<1>1. ASSUME NEW d \in Client, d # c
      PROVE  InStep(d)'
  <2>1. client'[d] = client[d]
    BY <1>1 DEF Become, Calm, Types, ClientTyped
  <2>2. QED
    BY <2>1, StaysInStep DEF Calm
<1>2. QED
  BY <1>1, BooksStay DEF Calm

(* The lease is added to an entry that stays what it is. *)
LEMMA GrantLeaseIsCalm ==
    ASSUME Calm, NEW c \in Client, NEW k \in DOMAIN entries, NEW pc \in {"leased", "checkin"},
           GrantLease(c, k), Become(c, With(pc, k, entries[k])),
           UNCHANGED <<up, slots, pending, terms, alive>>, Types'
    PROVE  Calm'
<1> USE DEF Calm, Types, EntriesTyped, ClientTyped, Entry
<1>1. /\ DOMAIN entries' = DOMAIN entries
      /\ \A j \in DOMAIN entries : /\ entries'[j].slot = entries[j].slot
                                   /\ entries'[j].token = entries[j].token
                                   /\ entries[j].leases \subseteq entries'[j].leases
      /\ c \in entries'[k].leases
  BY DEF GrantLease
<1>2. Books'
  BY <1>1 DEF Books, SlotsExclusive, InstalledPersisted, Persisted, Term, TokensExclusive
<1>3. client'[c] = With(pc, k, entries[k])
  BY DEF Become
<1>4. InStep(c)'
  BY <1>1, <1>3 DEF InStep, With, At, Covered, Leased, Installed
<1>5. ASSUME NEW d \in Client, d # c
      PROVE  InStep(d)'
  <2>1. client'[d] = client[d] /\ InStep(d)
    BY <1>5 DEF Become
  <2>2. QED
    BY <1>1, <2>1 DEF InStep, At, Installs, OwnInstall, Cancelled, Term, Covered, Leased, Installed
<1>6. QED
  BY <1>2, <1>4, <1>5

(* A client is done, or goes from recover to check with what it has in hand. *)
LEMMA DoneInStep ==
    ASSUME NEW c \in Client, ClientTyped, client'[c] = Idle
    PROVE  InStep(c)'
BY DEF InStep, At, Idle

LEMMA CheckInStep ==
    ASSUME NEW c \in Client, ClientTyped, InStep(c), At(c, {"recover"}),
           client'[c] = [client[c] EXCEPT !.pc = "check"], UNCHANGED <<pending, terms>>
    PROVE  InStep(c)'
<1>1. /\ client'[c].pc = "check" /\ client'[c].key = client[c].key
      /\ client'[c].slot = client[c].slot /\ client'[c].token = client[c].token
  BY InHand DEF At
<1>2. QED
  BY <1>1 DEF InStep, At, Cancelled, Term

LEMMA CheckoutIsCalm ==
    ASSUME Calm, Types', NEW c \in Client, CheckoutExisting(c) \/ ReserveInstalled(c)
    PROVE  Calm'
<1> DEFINE k == client[c].key
<1> USE DEF CheckoutExisting, ReserveInstalled, Available, Installed
<1>1. CASE \E pc \in {"leased", "checkin"} :
             /\ k \in DOMAIN entries /\ GrantLease(c, k)
             /\ Become(c, With(pc, k, entries[k]))
  BY <1>1, GrantLeaseIsCalm
<1>2. CASE Become(c, Idle) /\ UNCHANGED entries
  <2>1. client'[c] = Idle
    BY <1>2 DEF Become, Calm, Types, ClientTyped
  <2>2. QED
    BY <1>2, <2>1, DoneInStep, OwnStepIsCalm DEF Calm, Types
<1>3. CASE /\ At(c, {"recover"}) /\ UNCHANGED entries
           /\ Become(c, [client[c] EXCEPT !.pc = "check"])
  <2>1. client'[c] = [client[c] EXCEPT !.pc = "check"]
    BY <1>3 DEF Become, Calm, Types, ClientTyped
  <2>2. InStep(c)'
    BY <1>3, <2>1, CheckInStep DEF Calm, Types
  <2>3. QED
    BY <1>3, <2>2, OwnStepIsCalm
<1>4. QED
  BY <1>1, <1>2, <1>3 DEF At

(* A token that nobody has, and a slot that is nobody's. *)
LEMMA ReserveIsCalm ==
    ASSUME Calm, Types', NEW c \in Client, ReserveMissing(c)
    PROVE  Calm'
<1> DEFINE k == client[c].key
<1>1. CASE \E s \in Slot, t \in Token :
             LET install == [slot |-> s, token |-> t, owner |-> c, waiters |-> {}]
             IN  /\ k \notin DOMAIN pending
                 /\ LowestFree(s) /\ FreshToken(t)
                 /\ pending' = Put(pending, k, install)
                 /\ Become(c, With("install", k, install))
  <2>1. PICK s \in Slot, t \in Token :
             LET install == [slot |-> s, token |-> t, owner |-> c, waiters |-> {}]
             IN  /\ k \notin DOMAIN pending
                 /\ LowestFree(s) /\ FreshToken(t)
                 /\ pending' = Put(pending, k, install)
                 /\ Become(c, With("install", k, install))
    BY <1>1
  <2>2. /\ DOMAIN pending' = DOMAIN pending \cup {k}
        /\ \A j \in DOMAIN pending : j # k /\ pending'[j] = pending[j]
        /\ pending'[k].slot = s /\ pending'[k].token = t /\ pending'[k].owner = c
    BY <2>1 DEF Put
  <2>3. s \notin DOMAIN slots /\ \A j \in DOMAIN pending : pending[j].slot # s
    BY <2>1 DEF LowestFree, FreeSlots
  <2>4. /\ \A j \in DOMAIN pending : pending[j].token # t
        /\ \A d \in Client : "token" \in DOMAIN client[d] => client[d].token # t
    BY <2>1 DEF FreshToken, UsedTokens
  <2>5. Books'
    <3>1. SlotsExclusive'
      BY <1>1, <2>2, <2>3 DEF ReserveMissing, Installed, Calm, Books, SlotsExclusive
    <3>2. InstalledPersisted' /\ TokensExclusive'
      BY <2>2, <2>4 DEF ReserveMissing, Calm, Books, InstalledPersisted, Persisted, Term,
                        TokensExclusive
    <3>3. QED
      BY <3>1, <3>2 DEF Books
  <2>6. ASSUME NEW d \in Client, d # c
        PROVE  InStep(d)'
    <3>1. client'[d] = client[d] /\ InStep(d)
      BY <2>1, <2>6 DEF Become, Calm, Types, ClientTyped
    <3>2. At(d, {"recover", "check"}) => client[d].token # t
      BY <2>4, InHand DEF Calm, Types, At
    <3>3. QED
      BY <2>2, <3>1, <3>2 DEF ReserveMissing, InStep, At, Installs, OwnInstall, Cancelled, Term,
                              Covered, Leased, Installed
  <2>7. InStep(c)'
    <3>1. client'[c] = [pc |-> "install", key |-> k, slot |-> s, token |-> t]
      BY <2>1 DEF Become, With, Calm, Types, ClientTyped
    <3>2. QED
      BY <2>2, <3>1 DEF InStep, At, Installs, OwnInstall
  <2>8. QED
    BY <2>5, <2>6, <2>7 DEF ReserveMissing, Calm
<1>2. CASE /\ k \in DOMAIN pending
           /\ pending' = [pending EXCEPT ![k].waiters = @ \cup {c}]
           /\ Become(c, Asking("waiting", k))
  <2>1. /\ DOMAIN pending' = DOMAIN pending
        /\ \A j \in DOMAIN pending : /\ pending'[j].slot = pending[j].slot
                                     /\ pending'[j].token = pending[j].token
                                     /\ pending'[j].owner = pending[j].owner
    BY <1>2 DEF Calm, Types, PendingTyped, Install
  <2>2. Books'
    BY <2>1 DEF ReserveMissing, Calm, Books, SlotsExclusive, InstalledPersisted, Persisted, Term,
                TokensExclusive
  <2>3. ASSUME NEW d \in Client, d # c
        PROVE  InStep(d)'
    <3>1. client'[d] = client[d] /\ InStep(d)
      BY <1>2, <2>3 DEF Become, Calm, Types, ClientTyped
    <3>2. QED
      BY <2>1, <3>1 DEF ReserveMissing, InStep, At, Installs, OwnInstall, Cancelled, Term,
                        Covered, Leased, Installed
  <2>4. InStep(c)'
    <3>1. client'[c].pc = "waiting"
      BY <1>2 DEF Become, Asking, Calm, Types, ClientTyped
    <3>2. QED
      BY <3>1 DEF InStep, At
  <2>5. QED
    BY <2>2, <2>3, <2>4 DEF ReserveMissing, Calm
<1>3. CASE Become(c, Idle) /\ UNCHANGED pending
  <2>1. client'[c] = Idle
    BY <1>3 DEF Become, Calm, Types, ClientTyped
  <2>2. QED
    BY <1>3, <2>1, DoneInStep, OwnStepIsCalm DEF ReserveMissing, Calm, Types
<1>4. QED
  BY <1>1, <1>2, <1>3 DEF ReserveMissing

(* The client writes into the slot of its own installation. *)
LEMMA PersistIsCalm ==
    ASSUME Calm, Types', NEW c \in Client, Persist(c)
    PROVE  Calm'
<1> DEFINE k == client[c].key
           s == client[c].slot
<1>1. /\ Installs(c) /\ k \in DOMAIN pending
      /\ pending[k].slot = s /\ pending[k].token = client[c].token
  BY DEF Persist, Calm, InStep, Installs, OwnInstall, At
<1>2. /\ terms' = terms \/ terms' = [terms EXCEPT ![s] = <<k, client[c].token>>]
      /\ UNCHANGED <<up, entries, slots, pending, alive>>
  BY DEF Persist, server, Term
<1>3. Books'
  <2>1. \A j \in DOMAIN entries : entries[j].slot # s
    BY <1>1 DEF Calm, Books, SlotsExclusive
  <2>2. InstalledPersisted'
    BY <1>2, <2>1 DEF Calm, Books, InstalledPersisted, Persisted, Term, Types, TermsTyped,
                      EntriesTyped, Entry
  <2>3. QED
    BY <1>2, <2>2 DEF Calm, Books, SlotsExclusive, TokensExclusive
<1>4. ASSUME NEW d \in Client, d # c
      PROVE  InStep(d)'
  <2>1. client'[d] = client[d] /\ InStep(d)
    BY <1>4 DEF Persist, Become, Calm, Types, ClientTyped
  <2>2. At(d, {"recover", "check"}) => Cancelled(d)'
    <3>1. SUFFICES ASSUME At(d, {"recover", "check"})
                   PROVE  Cancelled(d)'
      OBVIOUS
    <3>2. client[d].token # client[c].token
      BY <1>1, <2>1, <3>1 DEF InStep, Cancelled
    <3>3. terms'[client[d].slot] # <<client[d].key, client[d].token>>
      BY <1>2, <2>1, <3>1, <3>2, InHand
         DEF InStep, Cancelled, Term, At, Calm, Types, TermsTyped
    <3>4. QED
      BY <1>2, <2>1, <3>1, <3>3 DEF InStep, Cancelled, Term
  <2>3. QED
    BY <1>2, <2>1, <2>2 DEF InStep, At, Installs, OwnInstall, Covered, Leased, Installed
<1>5. InStep(c)'
  <2>1. /\ client'[c].pc \in {"commit", "cancel"} /\ client'[c].key = k
        /\ client'[c].slot = s /\ client'[c].token = client[c].token
    BY InHand DEF Persist, At, Become, Calm, Types, ClientTyped
  <2>2. QED
    BY <1>1, <1>2, <2>1 DEF InStep, At, Installs, OwnInstall
<1>6. QED
  BY <1>2, <1>3, <1>4, <1>5 DEF Calm

(* An installation goes off the books, and its clients with it: into an entry *)
(* or nowhere.  The installations of others are left.                         *)
LEMMA OthersInstall ==
    ASSUME NEW k, NEW d \in Client, client[d].key # k, Installs(d),
           pending' = Without(pending, {k}), client'[d] = client[d]
    PROVE  Installs(d)'
BY DEF Installs, OwnInstall, Without

LEMMA CompleteIsCalm ==
    ASSUME Calm, Types', NEW c \in Client, At(c, {"commit"}), OwnInstall(c),
           Persisted(client[c].key, pending[client[c].key]), CompleteInstall(c),
           UNCHANGED <<up, alive>>
    PROVE  Calm'
<1> DEFINE k == client[c].key
           p == pending[k]
<1>1. /\ k \in DOMAIN pending /\ k \notin DOMAIN entries
      /\ p.slot \notin DOMAIN slots
      /\ \A j \in DOMAIN pending : pending[j].slot = p.slot => j = k
  BY DEF OwnInstall, Calm, Books, SlotsExclusive
<1>2. /\ DOMAIN entries' = DOMAIN entries \cup {k}
      /\ \A j \in DOMAIN entries : entries'[j] = entries[j]
      /\ entries'[k].slot = p.slot /\ entries'[k].token = p.token
  BY <1>1 DEF CompleteInstall, Put
<1>3. /\ DOMAIN slots' = DOMAIN slots \cup {p.slot}
      /\ \A s \in DOMAIN slots : slots'[s] = slots[s]
      /\ slots'[p.slot] = k
  BY <1>1 DEF CompleteInstall, Put
<1>4. /\ DOMAIN pending' = DOMAIN pending \ {k}
      /\ \A j \in DOMAIN pending' : pending'[j] = pending[j]
      /\ UNCHANGED terms
  BY DEF CompleteInstall, Without
<1>5. Books'
  <2>1. SlotsExclusive'
    <3>1. SlotsExclusive
      BY DEF Calm, Books
    <3>2. ASSUME NEW j \in DOMAIN entries'
          PROVE  entries'[j].slot \in DOMAIN slots' /\ slots'[entries'[j].slot] = j
      <4>1. CASE j = k
        BY <1>2, <1>3, <4>1
      <4>2. CASE j \in DOMAIN entries
        BY <1>2, <1>3, <3>1, <4>2 DEF SlotsExclusive
      <4>3. QED
        BY <1>2, <3>2, <4>1, <4>2
    <3>3. ASSUME NEW j \in DOMAIN pending'
          PROVE  /\ pending'[j].slot \notin DOMAIN slots'
                 /\ j \notin DOMAIN entries'
                 /\ \A i \in DOMAIN pending' : pending'[i].slot = pending'[j].slot => i = j
      <4>1. j \in DOMAIN pending /\ j # k /\ pending'[j] = pending[j]
        BY <1>4, <3>3
      <4>2. pending[j].slot # p.slot
        BY <1>1, <4>1
      <4>3. QED
        BY <1>2, <1>3, <1>4, <3>1, <4>1, <4>2 DEF SlotsExclusive
    <3>4. QED
      BY <3>2, <3>3 DEF SlotsExclusive
  <2>2. TokensExclusive'
    BY <1>4 DEF Calm, Books, TokensExclusive
  <2>3. ASSUME NEW j \in DOMAIN entries'
        PROVE  Persisted(j, entries[j])'
    <3>1. CASE j = k
      BY <1>2, <1>4, <3>1 DEF Persisted, Term
    <3>2. CASE j \in DOMAIN entries
      BY <1>2, <1>4, <3>2 DEF Calm, Books, InstalledPersisted, Persisted, Term
    <3>3. QED
      BY <1>2, <2>3, <3>1, <3>2
  <2>4. InstalledPersisted'
    BY <2>3 DEF InstalledPersisted
  <2>5. QED
    BY <2>1, <2>2, <2>4 DEF Books
<1>6. ASSUME NEW d \in Client
      PROVE  InStep(d)'
  <2>1. CASE d = c \/ d \in p.waiters
    <3>1. client'[d].pc = "checkin"
      BY <2>1 DEF CompleteInstall, BecomeAll, With
    <3>2. QED
      BY <3>1 DEF InStep, At
  <2>2. CASE d # c /\ d \notin p.waiters
    <3>1. client'[d] = client[d] /\ InStep(d)
      BY <2>2 DEF CompleteInstall, BecomeAll, Calm
    <3>2. Installs(d) => client[d].key # k
      BY <2>2 DEF Installs, OwnInstall
    <3>3. Installs(d) => Installs(d)'
      BY <3>1, <3>2, OthersInstall DEF CompleteInstall
    <3>4. QED
      BY <1>2, <1>4, <3>1, <3>3 DEF InStep, At, Cancelled, Term, Covered, Leased, Installed
  <2>3. QED
    BY <2>1, <2>2
<1>7. QED
  BY <1>5, <1>6 DEF Calm

(* A slot under installation is nobody's, so that erasing it harms no entry,  *)
(* and leaves no term of the installation.                                    *)
LEMMA CancelKeepsBooks ==
    ASSUME Calm, NEW k \in DOMAIN pending, EraseTerm(pending[k].slot),
           pending' = Without(pending, {k}), UNCHANGED <<entries, slots>>
    PROVE  Books'
<1>1. /\ DOMAIN pending' = DOMAIN pending \ {k}
      /\ \A j \in DOMAIN pending' : pending'[j] = pending[j]
  BY DEF Without
<1>2. SlotsExclusive' /\ TokensExclusive'
  <2>1. SlotsExclusive'
    <3>1. entries' = entries /\ slots' = slots
      OBVIOUS
    <3>2. \A j \in DOMAIN pending :
             /\ pending[j].slot \notin DOMAIN slots
             /\ j \notin DOMAIN entries
             /\ \A i \in DOMAIN pending : pending[i].slot = pending[j].slot => i = j
      BY DEF Calm, Books, SlotsExclusive
    <3>3. (\A j \in DOMAIN pending :
             /\ pending[j].slot \notin DOMAIN slots
             /\ j \notin DOMAIN entries
             /\ \A i \in DOMAIN pending : pending[i].slot = pending[j].slot => i = j)'
      BY <1>1, <3>1, <3>2
    <3>4. QED
      BY <3>1, <3>3 DEF Calm, Books, SlotsExclusive
  <2>2. TokensExclusive'
    BY <1>1 DEF Calm, Books, TokensExclusive
  <2>3. QED
    BY <2>1, <2>2
<1>3. \A j \in DOMAIN entries : entries[j].slot # pending[k].slot
  BY DEF Calm, Books, SlotsExclusive
<1>4. InstalledPersisted'
  BY <1>3 DEF EraseTerm, Calm, Books, InstalledPersisted, Persisted, Term, Types, TermsTyped,
              EntriesTyped, Entry
<1>5. QED
  BY <1>2, <1>4 DEF Books

LEMMA CancelKeepsOthers ==
    ASSUME Calm, NEW k \in DOMAIN pending, EraseTerm(pending[k].slot),
           pending' = Without(pending, {k}), UNCHANGED <<entries, alive>>,
           NEW d \in Client, client'[d] = client[d],
           At(d, {"install", "commit", "cancel"}) => pending[k].owner # d
    PROVE  InStep(d)'
<1>1. InStep(d)
  BY DEF Calm
<1>2. At(d, {"install", "commit", "cancel"}) => Installs(d)'
  BY <1>1, OthersInstall DEF InStep, Installs, OwnInstall
<1>3. At(d, {"recover", "check"}) => Cancelled(d)'
  <2>1. At(d, {"recover", "check"}) =>
            /\ client[d].slot \in Slot /\ client[d].key \in Key /\ client[d].token \in Token
    BY InHand DEF Calm, Types, At
  <2>2. At(d, {"recover", "check"}) =>
            terms'[client[d].slot] # <<client[d].key, client[d].token>>
    BY <1>1, <2>1, NoTermIsNoProgram
       DEF InStep, Cancelled, Term, EraseTerm, Calm, Types, TermsTyped
  <2>3. QED
    BY <1>1, <2>2 DEF InStep, Cancelled, Term, Without
<1>4. QED
  BY <1>1, <1>2, <1>3 DEF InStep, At, Covered, Leased, Installed

LEMMA CancelIsCalm ==
    ASSUME Calm, Types', NEW c \in Client, At(c, {"commit", "cancel"}), OwnInstall(c),
           CancelInstall(c), UNCHANGED <<up, alive>>
    PROVE  Calm'
<1> DEFINE k == client[c].key
<1>1. k \in DOMAIN pending /\ pending[k].owner = c
  BY DEF OwnInstall
<1>2. ASSUME NEW d \in Client, d # c
      PROVE  InStep(d)'
  <2>1. CASE d \in pending[k].waiters
    <3>1. client'[d] = Idle
      BY <1>2, <2>1 DEF CancelInstall, BecomeAll
    <3>2. QED
      BY <3>1, DoneInStep DEF Calm, Types
  <2>2. CASE d \notin pending[k].waiters
    <3>1. client'[d] = client[d]
      BY <1>2, <2>2 DEF CancelInstall, BecomeAll
    <3>2. QED
      BY <1>1, <1>2, <3>1, CancelKeepsOthers DEF CancelInstall
  <2>3. QED
    BY <2>1, <2>2
<1>3. InStep(c)'
  <2>1. Installs(c)
    BY DEF Calm, InStep, At
  <2>2. /\ client[c].key \in Key /\ client[c].slot \in Slot /\ client[c].token \in Token
        /\ client'[c].pc = "recover" /\ client'[c].key = k
        /\ client'[c].slot = client[c].slot /\ client'[c].token = client[c].token
    BY InHand DEF CancelInstall, BecomeAll, At, Calm, Types
  <2>3. terms'[client[c].slot] = NoTerm
    BY <2>1, <2>2 DEF CancelInstall, EraseTerm, Installs, Calm, Types, TermsTyped
  <2>4. \A j \in DOMAIN pending' : pending'[j].token # client[c].token
    BY <1>1, <2>1 DEF CancelInstall, Without, Installs, OwnInstall, Calm, Books, TokensExclusive
  <2>5. QED
    BY <2>2, <2>3, <2>4, NoTermIsNoProgram DEF InStep, At, Cancelled, Term
<1>4. Books'
  BY <1>1, CancelKeepsBooks DEF CancelInstall
<1>5. QED
  BY <1>2, <1>3, <1>4 DEF Calm

LEMMA CommitIsCalm ==
    ASSUME Calm, Types', NEW c \in Client, Commit(c)
    PROVE  Calm'
<1>1. OwnInstall(c)
  BY DEF Commit, Calm, InStep, Installs, At
<1>2. QED
  BY <1>1, CompleteIsCalm, CancelIsCalm DEF Commit, At

LEMMA CheckInIsCalm ==
    ASSUME Calm, Types', NEW c \in Client, CheckIn(c)
    PROVE  Calm'
<1>1. client'[c] = Idle /\ \A d \in Client : d # c => client'[d] = client[d]
  BY DEF CheckIn, Become, Calm, Types, ClientTyped
<1>2. InStep(c)'
  BY <1>1, DoneInStep DEF Calm, Types
<1>3. CASE \E k \in DOMAIN entries : DropLease(c, k)
  <2>1. Books'
    BY <1>3, DropLeaseKeepsBooks DEF CheckIn, Calm
  <2>2. \A d \in Client : d # c => InStep(d)'
    BY <1>1, <1>3, DropLeaseKeepsOthers DEF CheckIn, Calm
  <2>3. QED
    BY <1>2, <2>1, <2>2 DEF CheckIn, Calm
<1>4. CASE UNCHANGED <<entries, slots, residency, terms>>
  BY <1>2, <1>4, OwnStepIsCalm DEF CheckIn
<1>5. QED
  BY <1>3, <1>4 DEF CheckIn, Leased, Installed

LEMMA UnpinIsCalm ==
    ASSUME Calm, Types', NEW c \in Client, Unpin(c)
    PROVE  Calm'
<1> DEFINE k == client[c].key
<1>1. client'[c] = Idle /\ \A d \in Client : d # c => client'[d] = client[d]
  BY DEF Unpin, Become, Calm, Types, ClientTyped
<1>2. InStep(c)'
  BY <1>1, DoneInStep DEF Calm, Types
<1>3. CASE /\ k \in DOMAIN entries /\ entries[k].leases = {}
           /\ EraseTerm(entries[k].slot) /\ RemoveEntry(k)
  <2>1. Books'
    BY <1>3, RemoveKeepsBooks DEF Unpin, Calm
  <2>2. DropLease(c, k) \/ ~entries[k].unpin
    BY <1>3 DEF DropLease, Releasable
  <2>3. ASSUME NEW d \in Client, d # c
        PROVE  InStep(d)'
    <3>1. client'[d] = client[d] /\ InStep(d)
      BY <1>1, <2>3 DEF Calm
    <3>2. At(d, {"recover", "check"}) => Cancelled(d)'
      <4>1. At(d, {"recover", "check"}) =>
                /\ client[d].slot \in Slot /\ client[d].key \in Key /\ client[d].token \in Token
        BY InHand DEF Calm, Types, At
      <4>2. At(d, {"recover", "check"}) =>
                terms'[client[d].slot] # <<client[d].key, client[d].token>>
        BY <1>3, <3>1, <4>1, NoTermIsNoProgram
           DEF InStep, Cancelled, Term, EraseTerm, Calm, Types, TermsTyped
      <4>3. QED
        BY <3>1, <4>2 DEF Unpin, InStep, Cancelled, Term
    <3>3. d \in alive /\ At(d, {"leased"}) => client[d].key # k
      BY <1>3, <3>1 DEF InStep, Covered, Leased
    <3>4. QED
      BY <1>3, <3>1, <3>2, <3>3 DEF Unpin, InStep, At, Installs, OwnInstall, Covered, Leased,
                                    Installed, RemoveEntry, Without
  <2>4. QED
    BY <1>2, <2>1, <2>3 DEF Unpin, Calm
<1>4. CASE /\ k \in DOMAIN entries /\ entries' = [entries EXCEPT ![k].unpin = TRUE]
           /\ UNCHANGED <<slots, terms>>
  <2>1. /\ DOMAIN entries' = DOMAIN entries
        /\ \A j \in DOMAIN entries : /\ entries'[j].slot = entries[j].slot
                                     /\ entries'[j].token = entries[j].token
                                     /\ entries'[j].leases = entries[j].leases
    BY <1>4 DEF Calm, Types, EntriesTyped, Entry
  <2>2. pending' = pending /\ terms' = terms /\ slots' = slots /\ Books
    BY <1>4 DEF Unpin, Calm
  <2>3. SlotsExclusive'
    BY <2>1, <2>2 DEF Books, SlotsExclusive
  <2>4. InstalledPersisted'
    BY <2>1, <2>2 DEF Books, InstalledPersisted, Persisted, Term
  <2>5. TokensExclusive'
    BY <2>2 DEF Books, TokensExclusive
  <2>6. ASSUME NEW d \in Client, d # c
        PROVE  InStep(d)'
    <3>1. client'[d] = client[d] /\ InStep(d)
      BY <1>1, <2>6 DEF Calm
    <3>2. QED
      BY <1>4, <2>1, <3>1 DEF Unpin, InStep, At, Installs, OwnInstall, Cancelled, Term, Covered,
                              Leased, Installed
  <2>7. QED
    BY <1>2, <2>3, <2>4, <2>5, <2>6 DEF Unpin, Calm, Books
<1>5. CASE UNCHANGED <<entries, slots, residency, terms>>
  BY <1>2, <1>5, OwnStepIsCalm DEF Unpin
<1>6. QED
  BY <1>3, <1>4, <1>5 DEF Unpin, Installed

LEMMA OwnerDownIsCalm ==
    ASSUME Calm, Types', NEW c \in Client, OwnerDown(c)
    PROVE  Calm'
<1>1. CASE \E k \in DOMAIN pending :
             /\ pending[k].owner = c
             /\ EraseTerm(pending[k].slot)
             /\ pending' = Without(pending, {k})
             /\ BecomeAll(pending[k].waiters, Idle, c, Idle)
             /\ UNCHANGED <<entries, slots, residency>>
  <2>1. PICK k \in DOMAIN pending :
             /\ pending[k].owner = c
             /\ EraseTerm(pending[k].slot)
             /\ pending' = Without(pending, {k})
             /\ BecomeAll(pending[k].waiters, Idle, c, Idle)
             /\ UNCHANGED <<entries, slots, residency>>
    BY <1>1
  <2>2. Books'
    BY <2>1, CancelKeepsBooks
  <2>3. ASSUME NEW d \in Client
        PROVE  InStep(d)'
    <3>1. CASE d = c \/ d \in pending[k].waiters
      <4>1. client'[d] = Idle
        BY <2>1, <3>1 DEF BecomeAll
      <4>2. QED
        BY <4>1, DoneInStep DEF Calm, Types
    <3>2. CASE d # c /\ d \notin pending[k].waiters
      <4>1. client'[d] = client[d]
        BY <2>1, <3>2 DEF BecomeAll
      <4>2. QED
        BY <2>1, <3>2, <4>1, CancelKeepsOthers DEF OwnerDown
    <3>3. QED
      BY <3>1, <3>2
  <2>4. QED
    BY <2>2, <2>3 DEF OwnerDown, Calm
<1>2. CASE /\ \E k \in DOMAIN entries : DropLease(c, k)
           /\ UNCHANGED <<client, pending>>
  <2>1. Books'
    BY <1>2, DropLeaseKeepsBooks DEF Calm
  <2>2. \A d \in Client : InStep(d)'
    BY <1>2, DropLeaseKeepsOthers DEF OwnerDown, Calm
  <2>3. QED
    BY <2>1, <2>2 DEF OwnerDown, Calm
<1>3. QED
  BY <1>1, <1>2 DEF OwnerDown

(* What a client does by itself. *)
LEMMA ClientIsCalm ==
    ASSUME Calm, Types', NEW c \in Client, Start(c) \/ EraseIfOwned(c) \/ Finish(c)
    PROVE  Calm'
<1>1. \E state : /\ Become(c, state)
                 /\ "pc" \in DOMAIN state /\ state.pc \in {"idle", "reserve", "checkout", "unpin", "checkin"}
  <2>1. CASE Start(c)
    BY <2>1 DEF Start, Asking
  <2>2. CASE EraseIfOwned(c)
    BY <2>2 DEF EraseIfOwned, Calm, InStep, Cancelled, Persisted, At, Idle
  <2>3. CASE Finish(c)
    <3>1. "pc" \in DOMAIN client[c]
      BY <2>3, InHand DEF Finish, Calm, Types, At
    <3>2. QED
      BY <2>3, <3>1 DEF Finish, Idle
  <2>4. QED
    BY <2>1, <2>2, <2>3
<1>2. InStep(c)'
  BY <1>1 DEF Become, InStep, At, Calm, Types, ClientTyped
<1>3. UNCHANGED <<up, entries, slots, pending, terms, alive>>
  BY DEF Start, EraseIfOwned, Finish, server, Calm, InStep, At
<1>4. QED
  BY <1>1, <1>2, <1>3, OwnStepIsCalm

LEMMA CalmStep ==
    ASSUME Calm, [Next]_vars, ~Crash
    PROVE  Calm'
<1>1. up'
  BY DEF Calm, Next, Start, Serve, CheckoutExisting, ReserveInstalled, ReserveMissing, Commit,
         CheckIn, Unpin, OwnerDown, Proceed, Persist, EraseIfOwned, Finish, CallWithoutServer,
         Die, Restart, vars, server
<1>2. Types'
  <2>1. ~Restart
    BY DEF Restart, Calm
  <2>2. QED
    BY <2>1, TypesStep DEF Calm
<1>3. ASSUME NEW c \in Client, Die(c)
      PROVE  Calm'
  <2>1. \A d \in Client : InStep(d)'
    BY <1>3, StaysInStep DEF Die, server, Calm
  <2>2. Books'
    BY <1>3, BooksStay DEF Die, server, Calm
  <2>3. QED
    BY <1>1, <1>2, <2>1, <2>2 DEF Calm
<1>4. CASE UNCHANGED vars
  <2>1. \A d \in Client : InStep(d)'
    BY <1>4, StaysInStep DEF vars, server, Calm
  <2>2. Books'
    BY <1>4, BooksStay DEF vars, server, Calm
  <2>3. QED
    BY <1>1, <1>2, <2>1, <2>2 DEF Calm
<1>5. ASSUME NEW c \in Client, Serve(c)
      PROVE  Calm'
  BY <1>2, <1>5, CheckoutIsCalm, ReserveIsCalm, CommitIsCalm, CheckInIsCalm, UnpinIsCalm,
     OwnerDownIsCalm DEF Serve
<1>6. ASSUME NEW c \in Client, Start(c) \/ Proceed(c)
      PROVE  Calm'
  <2>1. ~CallWithoutServer(c)
    BY DEF CallWithoutServer, Calm
  <2>2. QED
    BY <1>2, <1>6, <2>1, PersistIsCalm, ClientIsCalm DEF Proceed
<1>7. ~Restart
  BY DEF Restart, Calm
<1>8. QED
  BY <1>3, <1>4, <1>5, <1>6, <1>7 DEF Next

LEMMA CalmInit ==
    ASSUME Init
    PROVE  Calm
<1>1. Types
  BY DEF Init, Types, EntriesTyped, PendingTyped, ClientTyped, TermsTyped, ClientState
<1>2. Books
  BY DEF Init, Books, SlotsExclusive, InstalledPersisted, TokensExclusive
<1>3. \A c \in Client : InStep(c)
  BY DEF Init, InStep, At, Idle
<1>4. QED
  BY <1>1, <1>2, <1>3 DEF Init, Calm

(* "active leases defer erasure until their workers finish": until the server *)
(* crashes, whoever evaluates under a lease finds the program in its slot, and *)
(* a checkout never hands out a program whose term is missing or another's,    *)
(* whatever clients ask, wherever they die and whatever their writes do.       *)
THEOREM ProgramsStay == Spec => []ProgramsPersist
<1> DEFINE Inv == crashes \in Nat /\ alive \subseteq Client /\ (crashes = 0 => Calm)
<1>1. Init => Inv
  BY CalmInit DEF Init
<1>2. Inv /\ [Next]_vars => Inv'
  <2> SUFFICES ASSUME Inv, [Next]_vars
               PROVE  Inv'
    OBVIOUS
  <2>1. CASE Crash
    BY <2>1 DEF Crash
  <2>2. CASE ~Crash
    <3>1. crashes' = crashes /\ alive' \subseteq alive
      BY <2>2 DEF Next, Start, Serve, CheckoutExisting, ReserveInstalled, ReserveMissing, Commit,
             CheckIn, Unpin, OwnerDown, Proceed, Persist, EraseIfOwned, Finish,
             CallWithoutServer, Die, Restart, vars
    <3>2. crashes = 0 => Calm'
      BY <2>2, CalmStep
    <3>3. QED
      BY <3>1, <3>2
  <2>3. QED
    BY <2>1, <2>2
<1>3. Inv => ProgramsPersist
  <2> SUFFICES ASSUME Calm, alive \subseteq Client
               PROVE  LeaseCovers /\ InstalledPersisted
    BY DEF ProgramsPersist
  <2>1. ASSUME NEW c \in alive, At(c, {"leased"})
        PROVE  terms[client[c].slot] = Term(client[c].key, client[c])
    <3>1. Covered(c)
      BY <2>1 DEF Calm, InStep
    <3>2. QED
      BY <3>1 DEF Covered, Leased, Installed, Calm, Books, InstalledPersisted, Persisted, Term
  <2>2. QED
    BY <2>1 DEF LeaseCovers, Calm, Books
<1>4. QED
  BY <1>1, <1>2, <1>3, PTL DEF Spec
-----------------------------------------------------------------------------
(* SumFunction over finite sets, for any weights.  Additive(G, W, D) says that *)
(* G is the sum of W over every subset of D; one exists, by taking a smallest  *)
(* subset without, and SumFunction is its value on the whole of D.             *)
Additive(G, W, D) ==
    /\ G \in [SUBSET D -> Nat]
    /\ G[{}] = 0
    /\ \A s \in SUBSET D, x \in D : x \notin s => G[s \cup {x}] = W[x] + G[s]

(* The subset order of a finite set has no infinite descent.                  *)
LEMMA SmallestSubset ==
    ASSUME NEW D, IsFiniteSet(D), NEW B \in SUBSET SUBSET D, B # {}
    PROVE  \E T \in B : \A U \in B : U \subseteq T => U = T
<1>1. IsWellFoundedOn(StrictSubsetOrdering(D), SUBSET D)
  BY FS_StrictSubsetOrderingWellFounded, FS_FiniteSubsetsOfFinite
<1>2. PICK T \in B : \A U \in B : <<U, T>> \notin StrictSubsetOrdering(D)
  BY <1>1, WFMin
<1> QED
  BY <1>2 DEF StrictSubsetOrdering

LEMMA AdditiveExists ==
    ASSUME NEW D, IsFiniteSet(D), NEW W \in [D -> Nat]
    PROVE  \E G : Additive(G, W, D)
<1> DEFINE B == {T \in SUBSET D : ~\E G : Additive(G, W, T)}
<1> SUFFICES ASSUME D \in B PROVE FALSE
  OBVIOUS
<1>1. PICK T \in B : \A U \in B : U \subseteq T => U = T
  <2>1. B \in SUBSET SUBSET D /\ B # {}
    OBVIOUS
  <2> HIDE DEF B
  <2> QED
    BY <2>1, SmallestSubset
<1>2. CASE T = {}
  <2>1. Additive([s \in SUBSET T |-> 0], W, T)
    BY <1>2 DEF Additive
  <2> QED
    BY <1>1, <2>1
<1>3. CASE T # {}
  <2>1. PICK a \in T : TRUE
    BY <1>3
  <2>2. T \ {a} \notin B
    BY <1>1, <2>1
  <2>3. PICK G : Additive(G, W, T \ {a})
    BY <2>2, <1>1
  <2> DEFINE H == [s \in SUBSET T |-> IF a \in s THEN W[a] + G[s \ {a}] ELSE G[s]]
  <2>4. H \in [SUBSET T -> Nat]
    <3> SUFFICES ASSUME NEW s \in SUBSET T PROVE H[s] \in Nat
      OBVIOUS
    <3>1. W[a] \in Nat /\ s \ {a} \in SUBSET (T \ {a})
      BY <1>1
    <3>2. G[s \ {a}] \in Nat
      BY <2>3, <3>1 DEF Additive
    <3>3. a \notin s => s \in SUBSET (T \ {a})
      OBVIOUS
    <3>4. a \notin s => G[s] \in Nat
      BY <2>3, <3>3 DEF Additive
    <3> QED
      BY <3>1, <3>2, <3>4
  <2>5. H[{}] = 0
    BY <2>3 DEF Additive
  <2>6. ASSUME NEW s \in SUBSET T, NEW x \in T, x \notin s
        PROVE  H[s \cup {x}] = W[x] + H[s]
    <3>1. W[a] \in Nat /\ W[x] \in Nat
      BY <1>1
    <3>2. CASE x = a
      BY <3>2, <2>6, s = (s \cup {a}) \ {a}
    <3>3. CASE x # a /\ a \in s
      <4>1. G[(s \ {a}) \cup {x}] = W[x] + G[s \ {a}]
        BY <2>3, <2>6, <3>3, s \ {a} \in SUBSET (T \ {a}), x \in T \ {a} DEF Additive
      <4>2. (s \cup {x}) \ {a} = (s \ {a}) \cup {x}
        BY <3>3
      <4>3. H[s \cup {x}] = W[a] + G[(s \ {a}) \cup {x}] /\ H[s] = W[a] + G[s \ {a}]
        BY <3>3, <4>2
      <4>4. G[s \ {a}] \in Nat
        BY <2>3, s \ {a} \in SUBSET (T \ {a}) DEF Additive
      <4> QED
        BY <3>1, <4>1, <4>3, <4>4
    <3>4. CASE x # a /\ a \notin s
      <4>1. G[s \cup {x}] = W[x] + G[s]
        BY <2>3, <2>6, <3>4, s \in SUBSET (T \ {a}), x \in T \ {a} DEF Additive
      <4> QED
        BY <3>4, <4>1
    <3> QED
      BY <3>2, <3>3, <3>4
  <2>7. Additive(H, W, T)
    BY <2>4, <2>5, <2>6 DEF Additive
  <2> QED
    BY <1>1, <2>7
<1> QED
  BY <1>2, <1>3

(* SumFunction adds one element after another, in whichever order.            *)
LEMMA SumIsAdditive ==
    ASSUME NEW D, IsFiniteSet(D), NEW W \in [D -> Nat], NEW G, Additive(G, W, D)
    PROVE  SumFunction(W) = G[D]
<1> DEFINE Iter(g) == [s \in SUBSET D |->
                          IF s = {} THEN 0
                          ELSE W[CHOOSE x \in s : TRUE] + g[s \ {CHOOSE x \in s : TRUE}]]
           iter == CHOOSE g : g = Iter(g)
<1>1. SumFunction(W) = iter[D]
  BY DEF SumFunction, SumFunctionOnSet, FoldFunctionOnSet, MapThenFoldSet
<1>2. G = Iter(G)
  <2>1. G = [s \in SUBSET D |-> G[s]]
    BY DEF Additive
  <2>2. ASSUME NEW s \in SUBSET D, s # {}
        PROVE  G[s] = W[CHOOSE x \in s : TRUE] + G[s \ {CHOOSE x \in s : TRUE}]
    <3> DEFINE y == CHOOSE x \in s : TRUE
    <3>1. y \in s
      BY <2>2
    <3>2. s = (s \ {y}) \cup {y} /\ y \in D /\ s \ {y} \in SUBSET D
      BY <3>1
    <3> QED
      BY <3>2 DEF Additive
  <2> QED
    BY <2>1, <2>2 DEF Additive
<1>3. iter = Iter(iter)
  BY <1>2
<1> HIDE DEF iter
<1>4. \A s \in SUBSET D : iter[s] = G[s]
  <2> DEFINE B == {s \in SUBSET D : iter[s] # G[s]}
  <2> SUFFICES ASSUME B # {} PROVE FALSE
    OBVIOUS
  <2>1. PICK s \in B : \A U \in B : U \subseteq s => U = s
    <3>1. B \in SUBSET SUBSET D
      OBVIOUS
    <3> HIDE DEF B
    <3> QED
      BY <3>1, SmallestSubset
  <2> DEFINE y == CHOOSE x \in s : TRUE
  <2>2. s # {}
    BY <1>2, <1>3, <2>1
  <2>3. y \in s
    BY <2>2
  <2>4. iter[s \ {y}] = G[s \ {y}]
    BY <2>1, <2>3
  <2>5. iter[s] = W[y] + iter[s \ {y}]
    BY <1>3, <2>1, <2>2
  <2>6. G[s] = W[y] + G[s \ {y}]
    BY <1>2, <2>1, <2>2
  <2> QED
    BY <2>1, <2>4, <2>5, <2>6
<1> QED
  BY <1>1, <1>4

LEMMA SumOfNothing ==
    ASSUME NEW W, DOMAIN W = {}
    PROVE  SumFunction(W) = 0
<1>1. W \in [{} -> Nat]
  OBVIOUS
<1>2. PICK G : Additive(G, W, {})
  BY <1>1, FS_EmptySet, AdditiveExists
<1> QED
  BY <1>1, <1>2, FS_EmptySet, SumIsAdditive DEF Additive

LEMMA AdditiveGrows ==
    ASSUME NEW D, IsFiniteSet(D), NEW W \in [D -> Nat], NEW G, Additive(G, W, D),
           NEW s \in SUBSET D, NEW u \in SUBSET s
    PROVE  G[u] <= G[s]
<1> DEFINE B == {t \in SUBSET s : u \subseteq t /\ ~(G[u] <= G[t])}
<1>1. IsFiniteSet(s) /\ s \in SUBSET D /\ u \in SUBSET D /\ G[u] \in Nat
  BY FS_Subset DEF Additive
<1> SUFFICES ASSUME B # {}
             PROVE  FALSE
  OBVIOUS
<1>2. PICK t \in B : \A v \in B : v \subseteq t => v = t
  <2>1. B \in SUBSET SUBSET s
    OBVIOUS
  <2> HIDE DEF B
  <2>2. QED
    BY <1>1, <2>1, SmallestSubset
<1>3. u \subseteq t /\ t \in SUBSET s /\ ~(G[u] <= G[t])
  BY <1>2
<1>4. PICK a \in t : a \notin u
  <2>1. t # u
    BY <1>1, <1>3
  <2>2. QED
    BY <1>3, <2>1
<1>5. G[u] <= G[t \ {a}]
  <2>1. t \ {a} \notin B
    BY <1>2, <1>4
  <2>2. QED
    BY <1>3, <1>4, <2>1
<1>6. G[(t \ {a}) \cup {a}] = W[a] + G[t \ {a}] /\ t = (t \ {a}) \cup {a}
  BY <1>3 DEF Additive
<1>7. W[a] \in Nat /\ G[t \ {a}] \in Nat
  BY <1>3 DEF Additive
<1> HIDE DEF B
<1>8. QED
  BY <1>1, <1>3, <1>5, <1>6, <1>7

LEMMA SumIsNat ==
    ASSUME NEW D, IsFiniteSet(D), NEW W \in [D -> Nat]
    PROVE  SumFunction(W) \in Nat
<1>1. PICK G : Additive(G, W, D)
  BY AdditiveExists
<1>2. G[D] \in Nat
  BY <1>1 DEF Additive
<1>3. QED
  BY <1>1, <1>2, SumIsAdditive

(* What a sum loses with an element of its domain, and gains with a new one.  *)
LEMMA SumWithout ==
    ASSUME NEW D, IsFiniteSet(D), NEW W \in [D -> Nat], NEW a \in D
    PROVE  /\ SumFunction(W) = W[a] + SumFunction([x \in D \ {a} |-> W[x]])
           /\ SumFunction([x \in D \ {a} |-> W[x]]) \in Nat
<1> DEFINE R == [x \in D \ {a} |-> W[x]]
<1>1. PICK G : Additive(G, W, D)
  BY AdditiveExists
<1>2. R \in [D \ {a} -> Nat] /\ IsFiniteSet(D \ {a})
  BY FS_RemoveElement
<1> DEFINE H == [s \in SUBSET (D \ {a}) |-> G[s]]
<1>3. Additive(H, R, D \ {a})
  BY <1>1 DEF Additive
<1>4. SumFunction(W) = G[D]
  BY <1>1, SumIsAdditive
<1>5. SumFunction(R) = H[D \ {a}]
  <2> HIDE DEF H, R
  <2>1. QED
    BY <1>2, <1>3, SumIsAdditive
<1>6. G[(D \ {a}) \cup {a}] = W[a] + G[D \ {a}] /\ D = (D \ {a}) \cup {a}
  BY <1>1 DEF Additive
<1>7. G[D \ {a}] \in Nat
  BY <1>1 DEF Additive
<1>8. QED
  BY <1>4, <1>5, <1>6, <1>7

LEMMA SumWith ==
    ASSUME NEW D, IsFiniteSet(D), NEW a, a \notin D, NEW W \in [D \cup {a} -> Nat]
    PROVE  SumFunction(W) = W[a] + SumFunction([x \in D |-> W[x]])
<1>1. IsFiniteSet(D \cup {a}) /\ (D \cup {a}) \ {a} = D
  BY FS_AddElement
<1>2. QED
  BY <1>1, SumWithout, a \in D \cup {a}

(* What is in S or is held for somebody in P weighs no more than both.        *)
LEMMA SumOfBoth ==
    ASSUME NEW D, IsFiniteSet(D), NEW W \in [D -> Nat],
           NEW S, IsFiniteSet(S), NEW V \in [S -> Nat],
           NEW P, IsFiniteSet(P), NEW U \in [P -> Nat], NEW at,
           \A d \in D : \/ d \in S /\ W[d] = V[d]
                        \/ \E p \in P : at[p] = d /\ W[d] = U[p]
    PROVE  SumFunction(W) <= SumFunction(V) + SumFunction(U)
<1>1. PICK F : Additive(F, W, D)
  BY AdditiveExists
<1>2. PICK G : Additive(G, V, S)
  BY AdditiveExists
<1>3. PICK H : Additive(H, U, P)
  BY AdditiveExists
<1> DEFINE For(t) == {p \in P : at[p] \in t}
           Within(t) == F[t] <= G[t \cap S] + H[For(t)]
           B == {t \in SUBSET D : ~Within(t)}
<1>4. ASSUME NEW t \in SUBSET D
      PROVE  F[t] \in Nat /\ G[t \cap S] \in Nat /\ H[For(t)] \in Nat
  BY <1>1, <1>2, <1>3 DEF Additive
<1>5. ASSUME NEW t \in SUBSET D, NEW a \in t, Within(t \ {a})
      PROVE  Within(t)
  <2> DEFINE r == t \ {a}
  <2>1. F[t] = W[a] + F[r] /\ W[a] \in Nat
    <3>1. t = r \cup {a} /\ a \notin r /\ r \in SUBSET D /\ a \in D
      OBVIOUS
    <3>2. QED
      BY <1>1, <3>1 DEF Additive
  <2>2. G[r \cap S] <= G[t \cap S] /\ H[For(r)] <= H[For(t)]
    <3>1. r \cap S \subseteq t \cap S /\ t \cap S \in SUBSET S
          /\ For(r) \subseteq For(t) /\ For(t) \in SUBSET P
      OBVIOUS
    <3> HIDE DEF For
    <3>2. QED
      BY <1>2, <1>3, <3>1, AdditiveGrows
  <2>3. CASE a \in S /\ W[a] = V[a]
    <3>1. t \cap S = (r \cap S) \cup {a} /\ a \notin r \cap S /\ r \cap S \in SUBSET S
      BY <2>3
    <3>2. G[t \cap S] = W[a] + G[r \cap S]
      BY <1>2, <2>3, <3>1 DEF Additive
    <3>3. r \in SUBSET D
      OBVIOUS
    <3>4. /\ F[t] \in Nat /\ G[t \cap S] \in Nat /\ H[For(t)] \in Nat
          /\ F[r] \in Nat /\ G[r \cap S] \in Nat /\ H[For(r)] \in Nat
      BY <1>4, <3>3
    <3>5. F[r] <= G[r \cap S] + H[For(r)]
      BY <1>5
    <3> HIDE DEF For, r
    <3>6. QED
      BY <2>1, <2>2, <3>2, <3>4, <3>5
  <2>4. CASE \E p \in P : at[p] = a /\ W[a] = U[p]
    <3>1. PICK p \in P : at[p] = a /\ W[a] = U[p]
      BY <2>4
    <3>2. /\ For(r) \cup {p} \subseteq For(t) /\ For(t) \in SUBSET P
          /\ p \notin For(r) /\ For(r) \in SUBSET P
      BY <3>1
    <3>3. r \in SUBSET D
      OBVIOUS
    <3> HIDE DEF For, r
    <3>4. H[For(r) \cup {p}] = W[a] + H[For(r)]
      BY <1>3, <3>1, <3>2 DEF Additive
    <3>5. H[For(r) \cup {p}] <= H[For(t)]
      BY <1>3, <3>2, AdditiveGrows
    <3>6. F[r] <= G[r \cap S] + H[For(r)]
      BY <1>5 DEF r
    <3>7. /\ F[r] \in Nat /\ G[r \cap S] \in Nat /\ H[For(r)] \in Nat
          /\ F[t] \in Nat /\ G[t \cap S] \in Nat /\ H[For(t)] \in Nat
      BY <1>4, <3>3
    <3>8. F[t] = W[a] + F[r] /\ W[a] \in Nat /\ G[r \cap S] <= G[t \cap S]
      BY <2>1, <2>2 DEF r
    <3>9. QED
      BY <3>4, <3>5, <3>6, <3>7, <3>8
  <2>5. QED
    BY <2>3, <2>4
<1>6. Within({})
  <2>1. {} \in SUBSET D /\ F[{}] = 0
    BY <1>1 DEF Additive
  <2>2. G[{} \cap S] \in Nat /\ H[For({})] \in Nat
    BY <1>4, <2>1
  <2> HIDE DEF For
  <2>3. QED
    BY <2>1, <2>2
<1>7. B = {}
  <2> SUFFICES ASSUME B # {}
               PROVE  FALSE
    OBVIOUS
  <2>1. PICK t \in B : \A v \in B : v \subseteq t => v = t
    <3>1. B \in SUBSET SUBSET D
      OBVIOUS
    <3> HIDE DEF B
    <3>2. QED
      BY <3>1, SmallestSubset
  <2>2. t # {}
    BY <1>6, <2>1
  <2>3. PICK a \in t : TRUE
    BY <2>2
  <2>4. t \ {a} \notin B /\ t \ {a} \in SUBSET D /\ t \in SUBSET D /\ ~Within(t)
    BY <2>1, <2>3
  <2>5. Within(t \ {a}) => Within(t)
    BY <1>5, <2>3, <2>4
  <2> HIDE DEF Within
  <2>6. QED
    BY <2>4, <2>5
<1>8. Within(D)
  BY <1>7
<1>9. G[D \cap S] <= G[S] /\ H[For(D)] <= H[P]
  <2>1. D \cap S \subseteq S /\ For(D) \subseteq P
    OBVIOUS
  <2> HIDE DEF For
  <2>2. QED
    BY <1>2, <1>3, <2>1, AdditiveGrows
<1>10. /\ SumFunction(W) = F[D] /\ SumFunction(V) = G[S] /\ SumFunction(U) = H[P]
       /\ G[S] \in Nat /\ H[P] \in Nat
  <2>1. SumFunction(W) = F[D]
    BY <1>1, SumIsAdditive
  <2>2. SumFunction(V) = G[S]
    BY <1>2, SumIsAdditive
  <2>3. SumFunction(U) = H[P]
    BY <1>3, SumIsAdditive
  <2>4. G[S] \in Nat /\ H[P] \in Nat
    BY <1>2, <1>3 DEF Additive
  <2>5. QED
    BY <2>1, <2>2, <2>3, <2>4
<1> HIDE DEF For
<1>11. QED
  BY <1>4, <1>8, <1>9, <1>10

-----------------------------------------------------------------------------
(* What a restart reads from the terms: the bytes of every slot that it keeps, *)
(* although one key may fill two of them.  First, least and greatest numbers.  *)
LEMMA SmallestNumber ==
    ASSUME NEW B \in SUBSET Nat, B # {}
    PROVE  \E n \in B : \A m \in B : n <= m
<1>1. PICK b \in B : TRUE
  OBVIOUS
<1> DEFINE S == {0..m : m \in {n \in B : n <= b}}
<1>2. S \in SUBSET SUBSET (0..b) /\ S # {} /\ IsFiniteSet(0..b)
  <2>1. \A m \in Nat : m <= b => 0..m \in SUBSET (0..b)
    BY <1>1
  <2>2. b \in {n \in B : n <= b}
    BY <1>1
  <2>3. S \in SUBSET SUBSET (0..b) /\ S # {}
    BY <1>1, <2>1, <2>2
  <2>4. 0 \in Int /\ b \in Int
    BY <1>1
  <2>5. QED
    BY <2>3, <2>4, FS_Interval
<1>3. PICK T \in S : \A U \in S : U \subseteq T => U = T
  <2> DEFINE D == 0..b
  <2>1. S \in SUBSET SUBSET D /\ S # {} /\ IsFiniteSet(D)
    BY <1>2
  <2> HIDE DEF S, D
  <2>2. QED
    BY <2>1, SmallestSubset
<1>4. PICK n \in B : n <= b /\ T = 0..n
  BY <1>3
<1>5. ASSUME NEW m \in B, m < n
      PROVE  FALSE
  <2>1. 0..m \in S /\ 0..m \subseteq T
    BY <1>4, <1>5
  <2>2. n \in 0..n /\ n \notin 0..m
    BY <1>5
  <2>3. QED
    BY <1>3, <1>4, <2>1, <2>2
<1>6. QED
  BY <1>5

LEMMA MaxOfSlots ==
    ASSUME NEW S \in SUBSET Slot, S # {}
    PROVE  Max(S) \in S
<1> DEFINE B == {Capacity - s : s \in S}
<1>1. B \in SUBSET Nat /\ B # {}
  BY StoreAssumption DEF Slot
<1>2. PICK n \in B : \A m \in B : n <= m
  <2> HIDE DEF B
  <2>1. QED
    BY <1>1, SmallestNumber
<1>3. \E x \in S : \A y \in S : x >= y
  <2>1. PICK x \in S : n = Capacity - x
    BY <1>2
  <2>2. ASSUME NEW y \in S
        PROVE  x >= y
    <3>1. Capacity - x <= Capacity - y
      BY <1>2, <2>1
    <3>2. QED
      BY <3>1, StoreAssumption DEF Slot
  <2>3. QED
    BY <2>2
<1>4. QED
  BY <1>3 DEF Max

-----------------------------------------------------------------------------
(* restore_slots, slot by slot: the function that Restored is the last value   *)
(* of exists, and what it keeps are written slots that its bytes add up.      *)
Weight(s) == Size[terms[s][1]]
KeepSlot(before, s) ==
    IF terms[s] = NoTerm \/ before.bytes + Weight(s) > Budget THEN before
    ELSE [kept |-> before.kept \cup {s}, bytes |-> before.bytes + Weight(s)]
Restoring(g, N) ==
    [n \in 0..N |-> IF n = 0 THEN [kept |-> {}, bytes |-> 0] ELSE KeepSlot(g[n - 1], n - 1)]
Written == {s \in Slot : terms[s] # NoTerm}
Weighs(b) ==
    /\ b.kept \in SUBSET Written
    /\ b.bytes = SumFunction([s \in b.kept |-> Weight(s)])

(* There is such a function for every number of slots.                         *)
LEMMA RestoringExists ==
    \A N \in Nat : \E g : g = Restoring(g, N)
<1> DEFINE B == {N \in Nat : ~\E g : g = Restoring(g, N)}
<1> SUFFICES ASSUME B # {}
             PROVE  FALSE
  OBVIOUS
<1>1. PICK N \in B : \A m \in B : N <= m
  <2>1. B \in SUBSET Nat
    OBVIOUS
  <2> HIDE DEF B
  <2>2. QED
    BY <2>1, SmallestNumber
<1>2. CASE N = 0
  <2>1. [n \in 0..0 |-> [kept |-> {}, bytes |-> 0]]
            = Restoring([n \in 0..0 |-> [kept |-> {}, bytes |-> 0]], 0)
    BY DEF Restoring
  <2>2. QED
    BY <1>1, <1>2, <2>1
<1>3. CASE N # 0
  <2>1. N - 1 \in Nat /\ N - 1 \notin B
    BY <1>1, <1>3
  <2>2. PICK g : g = Restoring(g, N - 1)
    BY <2>1
  <2> DEFINE h == [n \in 0..N |-> IF n < N THEN g[n] ELSE KeepSlot(g[N - 1], N - 1)]
  <2>3. ASSUME NEW n \in 0..N
        PROVE  h[n] = Restoring(h, N)[n]
    <3>1. CASE n = N
      <4>1. h[N - 1] = g[N - 1]
        BY <2>1
      <4>2. QED
        BY <1>3, <3>1, <4>1 DEF Restoring
    <3>2. CASE n < N
      <4>1. n \in 0..(N - 1) /\ h[n] = g[n] /\ (n # 0 => h[n - 1] = g[n - 1])
        BY <3>2
      <4>2. g[n] = IF n = 0 THEN [kept |-> {}, bytes |-> 0] ELSE KeepSlot(g[n - 1], n - 1)
        BY <2>2, <4>1 DEF Restoring
      <4>3. QED
        BY <4>1, <4>2 DEF Restoring
    <3>3. QED
      BY <3>1, <3>2
  <2>4. h = Restoring(h, N)
    BY <2>3 DEF Restoring
  <2>5. QED
    BY <1>1, <2>4
<1>4. QED
  BY <1>2, <1>3

TermsAreTerms == terms \in [Slot -> (Key \X Token) \cup {NoTerm}]

LEMMA WeightOfTerm ==
    ASSUME TermsAreTerms, NEW s \in Written
    PROVE  terms[s][1] \in Key /\ terms[s][2] \in Token /\ Weight(s) \in Nat
BY StoreAssumption DEF TermsAreTerms, Written, Weight

LEMMA SlotsAreFinite == IsFiniteSet(Slot) /\ \A S \in SUBSET Slot : IsFiniteSet(S)
<1>1. IsFiniteSet(Slot)
  BY StoreAssumption, FS_Interval DEF Slot
<1>2. QED
  BY <1>1, FS_Subset

(* restore_slots ends with slots that its residency is the weight of.         *)
LEMMA RestoredWeighs ==
    ASSUME TermsAreTerms
    PROVE  Weighs(Restored)
<1> DEFINE after == CHOOSE g : g = Restoring(g, Capacity)
           B == {n \in 0..Capacity : ~(Weighs(after[n]) /\ \A s \in after[n].kept : s < n)}
<1>1. Restored = after[Capacity]
  BY DEF Restored, Restoring, KeepSlot, Weight
<1>2. after = Restoring(after, Capacity)
  BY RestoringExists, StoreAssumption
<1> HIDE DEF after
<1>3. B = {}
  <2> SUFFICES ASSUME B # {}
               PROVE  FALSE
    OBVIOUS
  <2>1. PICK n \in B : \A m \in B : n <= m
    <3>1. B \in SUBSET Nat
      OBVIOUS
    <3> HIDE DEF B
    <3>2. QED
      BY <3>1, SmallestNumber
  <2>2. n # 0
    <3>1. after[0] = [kept |-> {}, bytes |-> 0]
      BY <1>2, StoreAssumption DEF Restoring
    <3>2. SumFunction([s \in {} |-> Weight(s)]) = 0
      BY SumOfNothing
    <3>3. Weighs(after[0]) /\ \A s \in after[0].kept : s < 0
      BY <3>1, <3>2 DEF Weighs
    <3>4. QED
      BY <2>1, <3>3
  <2> DEFINE m == n - 1
             b == after[m]
  <2>3. m \in 0..Capacity /\ m \in Slot /\ m < n /\ n \in 0..Capacity
    BY <2>1, <2>2, StoreAssumption DEF Slot
  <2>4. Weighs(b) /\ \A s \in b.kept : s < m
    BY <2>1, <2>3
  <2>5. after[n] = KeepSlot(b, m)
    BY <1>2, <2>2, <2>3 DEF Restoring
  <2>6. CASE after[n] = b
    BY <2>1, <2>3, <2>4, <2>6, StoreAssumption DEF Weighs, Written, Slot
  <2>7. CASE /\ terms[m] # NoTerm
             /\ after[n] = [kept |-> b.kept \cup {m}, bytes |-> b.bytes + Weight(m)]
    <3> DEFINE W == [s \in b.kept \cup {m} |-> Weight(s)]
    <3>1. m \in Written /\ b.kept \in SUBSET Written /\ m \notin b.kept /\ IsFiniteSet(b.kept)
      BY <2>3, <2>4, <2>7, SlotsAreFinite DEF Weighs, Written
    <3>2. W \in [b.kept \cup {m} -> Nat]
      BY <3>1, WeightOfTerm
    <3>3. [x \in b.kept |-> W[x]] = [s \in b.kept |-> Weight(s)]
      OBVIOUS
    <3>4. W[m] = Weight(m)
      OBVIOUS
    <3>5. SumFunction(W) = Weight(m) + b.bytes
      <4> HIDE DEF W, m, b
      <4>1. SumFunction(W) = W[m] + SumFunction([x \in b.kept |-> W[x]])
        <5> DEFINE K == b.kept
        <5>1. IsFiniteSet(K) /\ m \notin K /\ W \in [K \cup {m} -> Nat]
          BY <3>1, <3>2
        <5> HIDE DEF K
        <5>2. SumFunction(W) = W[m] + SumFunction([x \in K |-> W[x]])
          BY <5>1, SumWith
        <5>3. QED
          BY <5>2 DEF K
      <4>2. QED
        BY <2>4, <3>3, <3>4, <4>1 DEF Weighs
    <3>6. Weight(m) \in Nat /\ b.bytes \in Nat
      <4>1. [s \in b.kept |-> Weight(s)] \in [b.kept -> Nat]
        BY <3>1, WeightOfTerm
      <4>2. QED
        BY <2>4, <3>1, <4>1, WeightOfTerm, SumIsNat DEF Weighs
    <3>7. Weighs(after[n])
      BY <2>7, <3>1, <3>5, <3>6 DEF Weighs
    <3>8. \A s \in after[n].kept : s < n
      BY <2>3, <2>4, <2>7, <3>1 DEF Written, Slot
    <3>9. QED
      BY <2>1, <3>7, <3>8
  <2>8. QED
    BY <2>5, <2>6, <2>7 DEF KeepSlot
<1>4. QED
  BY <1>1, <1>3, StoreAssumption

-----------------------------------------------------------------------------
(* The books in full, through crashes.  Every step but a crash and a restart  *)
(* leaves the books as they are or moves one key through them; a term that it *)
(* leaves was there before or is an installer's.                              *)
SameBooks ==
    /\ DOMAIN entries' = DOMAIN entries
    /\ \A k \in DOMAIN entries : entries'[k].slot = entries[k].slot
    /\ DOMAIN pending' = DOMAIN pending
    /\ \A k \in DOMAIN pending : pending'[k].slot = pending[k].slot
    /\ UNCHANGED <<slots, residency>>
Reserves(k) ==
    /\ k \in Key /\ k \notin DOMAIN entries /\ k \notin DOMAIN pending
    /\ ResidencyAvailable(k)
    /\ DOMAIN pending' = DOMAIN pending \cup {k} /\ pending'[k].slot \in FreeSlots
    /\ \A j \in DOMAIN pending : pending'[j] = pending[j]
    /\ UNCHANGED <<entries, slots, residency, terms>>
Completes(k) ==
    /\ k \in DOMAIN pending
    /\ DOMAIN entries' = DOMAIN entries \cup {k} /\ entries'[k].slot = pending[k].slot
    /\ \A j \in DOMAIN entries \ {k} : entries'[j] = entries[j]
    /\ slots' = Put(slots, pending[k].slot, k)
    /\ pending' = Without(pending, {k})
    /\ residency' = residency + Size[k]
    /\ UNCHANGED terms
Cancels(k) ==
    /\ k \in DOMAIN pending
    /\ EraseTerm(pending[k].slot) /\ pending' = Without(pending, {k})
    /\ UNCHANGED <<entries, slots, residency>>
Removes(k) ==
    /\ k \in DOMAIN entries
    /\ EraseTerm(entries[k].slot) /\ RemoveEntry(k)
    /\ UNCHANGED pending
TermsWritten ==
    \A s \in Slot :
        \/ terms'[s] \in {terms[s], NoTerm}
        \/ /\ SameBooks
           /\ \E c \in Client : /\ At(c, {"install"}) /\ client[c].slot = s
                                /\ terms'[s] = Term(client[c].key, client[c])

LEMMA ErasedTerms ==
    ASSUME TermsTyped, NEW s, EraseTerm(s)
    PROVE  TermsWritten
BY DEF TermsTyped, EraseTerm, TermsWritten

LEMMA DropLeaseOnBooks ==
    ASSUME EntriesTyped, TermsTyped, NEW c, NEW k \in DOMAIN entries, DropLease(c, k),
           UNCHANGED pending
    PROVE  TermsWritten /\ (SameBooks \/ Removes(k))
<1>1. CASE EraseTerm(entries[k].slot) /\ RemoveEntry(k)
  BY <1>1, ErasedTerms DEF Removes
<1>2. CASE /\ entries' = [entries EXCEPT ![k].leases = entries[k].leases \ {c}]
           /\ UNCHANGED <<terms, slots, residency>>
  BY <1>2 DEF SameBooks, TermsWritten, EntriesTyped, Entry
<1>3. QED
  BY <1>1, <1>2 DEF DropLease

LEMMA ClientKeys ==
    ASSUME ClientTyped, NEW c \in Client, client[c].pc # "idle"
    PROVE  client[c].key \in Key
BY DEF ClientTyped, ClientState, Idle

(* Every step of a running server, or without it, is one of these.            *)
LEMMA StepOfBooks ==
    ASSUME Types, [Next]_vars, ~Crash, ~Restart
    PROVE  /\ TermsWritten
           /\ \/ SameBooks
              \/ \E k \in Key : Reserves(k) \/ Completes(k) \/ Cancels(k) \/ Removes(k)
<1> DEFINE Kind == \/ SameBooks
                   \/ \E k \in Key : Reserves(k) \/ Completes(k) \/ Cancels(k) \/ Removes(k)
<1> USE DEF Types
<1>1. ASSUME UNCHANGED <<entries, slots, pending, residency, terms>>
      PROVE  TermsWritten /\ Kind
  BY <1>1 DEF SameBooks, TermsWritten
<1>2. ASSUME NEW c \in Client, CheckoutExisting(c) \/ ReserveInstalled(c)
      PROVE  TermsWritten /\ Kind
  BY <1>2 DEF CheckoutExisting, ReserveInstalled, GrantLease, Available, Installed, SameBooks,
              TermsWritten, EntriesTyped, Entry
<1>3. ASSUME NEW c \in Client, ReserveMissing(c)
      PROVE  TermsWritten /\ Kind
  <2> DEFINE k == client[c].key
  <2>1. k \in Key /\ k \notin DOMAIN entries /\ UNCHANGED <<entries, slots, residency, terms>>
    BY <1>3, ClientKeys DEF ReserveMissing, At, Installed
  <2>2. TermsWritten
    BY <2>1 DEF TermsWritten
  <2>3. CASE \/ /\ k \in DOMAIN pending
                /\ pending' = [pending EXCEPT ![k].waiters = @ \cup {c}]
             \/ UNCHANGED pending
    BY <2>1, <2>2, <2>3 DEF SameBooks, PendingTyped, Install
  <2>4. CASE /\ k \notin DOMAIN pending /\ ResidencyAvailable(k)
             /\ \E s \in Slot, t \in Token :
                   /\ LowestFree(s)
                   /\ pending' = Put(pending, k, [slot |-> s, token |-> t, owner |-> c, waiters |-> {}])
    <3>1. Reserves(k)
      BY <2>1, <2>4 DEF Reserves, Put, LowestFree
    <3>2. QED
      BY <2>1, <2>2, <3>1
  <2>5. QED
    BY <1>3, <2>3, <2>4 DEF ReserveMissing
<1>4. ASSUME NEW c \in Client, Commit(c)
      PROVE  TermsWritten /\ Kind
  <2> DEFINE k == client[c].key
  <2>1. k \in Key
    BY <1>4, ClientKeys DEF Commit, At
  <2>2. CASE OwnInstall(c) /\ CompleteInstall(c)
    <3>1. Completes(k)
      BY <2>2 DEF OwnInstall, CompleteInstall, Completes, Put
    <3>2. QED
      BY <2>1, <3>1 DEF Completes, TermsWritten
  <2>3. CASE OwnInstall(c) /\ CancelInstall(c)
    <3>1. Cancels(k)
      BY <2>3 DEF OwnInstall, CancelInstall, Cancels
    <3>2. QED
      BY <2>1, <3>1, ErasedTerms DEF Cancels
  <2>4. QED
    BY <1>1, <1>4, <2>2, <2>3 DEF Commit
<1>5. ASSUME NEW c \in Client, CheckIn(c)
      PROVE  TermsWritten /\ Kind
  BY <1>1, <1>5, DropLeaseOnBooks DEF CheckIn, Leased, Installed, EntriesTyped
<1>6. ASSUME NEW c \in Client, Unpin(c)
      PROVE  TermsWritten /\ Kind
  <2> DEFINE k == client[c].key
  <2>1. CASE Installed(k) /\ EraseTerm(entries[k].slot) /\ RemoveEntry(k)
    BY <1>6, <2>1, ErasedTerms DEF Unpin, Installed, Removes, EntriesTyped
  <2>2. CASE /\ Installed(k) /\ entries' = [entries EXCEPT ![k].unpin = TRUE]
             /\ UNCHANGED <<slots, residency, terms>>
    BY <1>6, <2>2 DEF Unpin, SameBooks, TermsWritten, EntriesTyped, Entry
  <2>3. QED
    BY <1>1, <1>6, <2>1, <2>2 DEF Unpin
<1>7. ASSUME NEW c \in Client, OwnerDown(c)
      PROVE  TermsWritten /\ Kind
  <2>1. CASE \E k \in DOMAIN pending :
               /\ EraseTerm(pending[k].slot)
               /\ pending' = Without(pending, {k})
               /\ UNCHANGED <<entries, slots, residency>>
    BY <2>1, ErasedTerms DEF Cancels, PendingTyped
  <2>2. CASE (\E k \in DOMAIN entries : DropLease(c, k)) /\ UNCHANGED pending
    BY <2>2, DropLeaseOnBooks DEF EntriesTyped
  <2>3. QED
    BY <1>7, <2>1, <2>2 DEF OwnerDown
<1>8. ASSUME NEW c \in Client, Persist(c) \/ EraseIfOwned(c)
      PROVE  TermsWritten /\ Kind
  <2>1. SameBooks
    BY <1>8 DEF Persist, EraseIfOwned, server, SameBooks
  <2>2. TermsWritten
    BY <1>8, <2>1 DEF Persist, EraseIfOwned, EraseTerm, TermsWritten, TermsTyped
  <2>3. QED
    BY <2>1, <2>2
<1>9. ASSUME NEW c \in Client, Start(c) \/ Finish(c) \/ CallWithoutServer(c) \/ Die(c)
      PROVE  TermsWritten /\ Kind
  BY <1>1, <1>9 DEF Start, Finish, CallWithoutServer, Die, server
<1> HIDE DEF Kind, Types
<1>10. ASSUME vars' = vars
       PROVE  TermsWritten /\ Kind
  BY <1>1, <1>10 DEF vars, server
<1>11. ASSUME NEW c \in Client, Serve(c) \/ Proceed(c)
       PROVE  TermsWritten /\ Kind
  BY <1>2, <1>3, <1>4, <1>5, <1>6, <1>7, <1>8, <1>9, <1>11 DEF Serve, Proceed
<1>12. TermsWritten /\ Kind
  BY <1>9, <1>10, <1>11 DEF Next
<1>13. QED
  BY <1>12 DEF Kind

-----------------------------------------------------------------------------
(* What each of these does to the books: the slots stay exclusive, and the    *)
(* residency and the bytes that are pending add up.                           *)
SlotsTyped == DOMAIN slots \subseteq Slot /\ \A s \in DOMAIN slots : slots[s] \in Key
Ledger ==
    /\ SlotsTyped /\ SlotsExclusive /\ ResidencyExact
    /\ IsFiniteSet(DOMAIN pending)
    /\ crashes <= 1 => SlotsMirrored
WithinBudget == residency + PendingBytes <= Budget
Sums(D, W) == IsFiniteSet(D) /\ W \in [D -> Nat]

LEMMA LedgerSums ==
    ASSUME SlotsTyped, PendingTyped, ResidencyExact, IsFiniteSet(DOMAIN pending)
    PROVE  /\ Sums(DOMAIN slots, [s \in DOMAIN slots |-> Size[slots[s]]])
           /\ Sums(DOMAIN pending, [k \in DOMAIN pending |-> Size[k]])
           /\ residency \in Nat /\ PendingBytes \in Nat
<1>1. Sums(DOMAIN slots, [s \in DOMAIN slots |-> Size[slots[s]]])
  BY StoreAssumption, SlotsAreFinite DEF Sums, SlotsTyped
<1>2. Sums(DOMAIN pending, [k \in DOMAIN pending |-> Size[k]])
  BY StoreAssumption DEF Sums, PendingTyped
<1>3. residency \in Nat
  BY <1>1, SumIsNat DEF Sums, ResidencyExact
<1>4. PendingBytes \in Nat
  BY <1>2, SumIsNat DEF Sums, PendingBytes
<1>5. QED
  BY <1>1, <1>2, <1>3, <1>4

(* The bytes that are pending without those of k. *)
LEMMA PendingWithout ==
    ASSUME SlotsTyped, PendingTyped, ResidencyExact, IsFiniteSet(DOMAIN pending),
           NEW k \in DOMAIN pending, pending' = Without(pending, {k})
    PROVE  PendingBytes = Size[k] + PendingBytes' /\ PendingBytes' \in Nat
<1> DEFINE D == DOMAIN pending
           W == [j \in D |-> Size[j]]
<1>1. IsFiniteSet(D) /\ W \in [D -> Nat] /\ k \in D
  BY LedgerSums DEF Sums
<1>2. [x \in D \ {k} |-> W[x]] = [j \in DOMAIN pending' |-> Size[j]]
  BY DEF Without
<1>3. PendingBytes = SumFunction(W) /\ PendingBytes' = SumFunction([j \in DOMAIN pending' |-> Size[j]])
  BY DEF PendingBytes
<1>4. W[k] = Size[k]
  OBVIOUS
<1>5. SumFunction(W) = W[k] + SumFunction([x \in D \ {k} |-> W[x]])
      /\ SumFunction([x \in D \ {k} |-> W[x]]) \in Nat
  <2> HIDE DEF D, W
  <2>1. QED
    BY <1>1, SumWithout
<1> HIDE DEF D, W
<1>6. QED
  BY <1>2, <1>3, <1>4, <1>5

LEMMA SameBooksKeepLedger ==
    ASSUME PendingTyped, Ledger, SameBooks, crashes' = crashes
    PROVE  /\ SlotsTyped' /\ SlotsExclusive' /\ ResidencyExact' /\ IsFiniteSet(DOMAIN pending')
           /\ SlotsMirrored => SlotsMirrored'
           /\ PendingBytes' = PendingBytes
BY DEF Ledger, SameBooks, SlotsTyped, SlotsExclusive, ResidencyExact, SlotsMirrored, PendingBytes

LEMMA ReservesKeepsLedger ==
    ASSUME PendingTyped, Ledger, NEW k, Reserves(k)
    PROVE  /\ SlotsTyped' /\ SlotsExclusive' /\ ResidencyExact' /\ IsFiniteSet(DOMAIN pending')
           /\ SlotsMirrored => SlotsMirrored'
           /\ WithinBudget'
<1>1. SlotsTyped' /\ ResidencyExact' /\ (SlotsMirrored => SlotsMirrored')
  BY DEF Reserves, Ledger, SlotsTyped, ResidencyExact, SlotsMirrored
<1>2. SlotsExclusive'
  <2>1. /\ pending'[k].slot \notin DOMAIN slots
        /\ \A j \in DOMAIN pending : pending[j].slot # pending'[k].slot
    BY DEF Reserves, FreeSlots
  <2>2. QED
    BY <2>1 DEF Reserves, Ledger, SlotsExclusive
<1>3. IsFiniteSet(DOMAIN pending')
  BY FS_AddElement DEF Reserves, Ledger
<1>4. PendingBytes' = Size[k] + PendingBytes
  <2> DEFINE D == DOMAIN pending
             W == [j \in D \cup {k} |-> Size[j]]
  <2>1. IsFiniteSet(D) /\ k \notin D /\ W \in [D \cup {k} -> Nat]
    BY StoreAssumption DEF Reserves, Ledger, PendingTyped
  <2>2. /\ PendingBytes' = SumFunction(W) /\ W[k] = Size[k]
        /\ PendingBytes = SumFunction([x \in D |-> W[x]])
    BY DEF Reserves, PendingBytes
  <2> HIDE DEF D, W
  <2>3. SumFunction(W) = W[k] + SumFunction([x \in D |-> W[x]])
    BY <2>1, SumWith
  <2>4. QED
    BY <2>2, <2>3
<1>5. WithinBudget'
  <2>1. residency \in Nat /\ PendingBytes \in Nat /\ Size[k] \in Nat /\ Budget \in Nat
    BY LedgerSums, StoreAssumption DEF Ledger, Reserves
  <2>2. residency + PendingBytes + Size[k] <= Budget /\ residency' = residency
    BY DEF Reserves, ResidencyAvailable
  <2>3. QED
    BY <1>4, <2>1, <2>2 DEF WithinBudget
<1>6. QED
  BY <1>1, <1>2, <1>3, <1>5

LEMMA CompletesKeepsLedger ==
    ASSUME PendingTyped, Ledger, NEW k, Completes(k)
    PROVE  /\ SlotsTyped' /\ SlotsExclusive' /\ ResidencyExact' /\ IsFiniteSet(DOMAIN pending')
           /\ SlotsMirrored => SlotsMirrored'
           /\ WithinBudget => WithinBudget'
<1> DEFINE s == pending[k].slot
<1>1. /\ k \in Key /\ s \in Slot /\ k \notin DOMAIN entries /\ s \notin DOMAIN slots
      /\ DOMAIN slots' = DOMAIN slots \cup {s}
      /\ \A t \in DOMAIN slots : slots'[t] = slots[t]
      /\ slots'[s] = k
  BY DEF Completes, Put, PendingTyped, Install, Ledger, SlotsExclusive
<1>2. /\ DOMAIN pending' = DOMAIN pending \ {k}
      /\ \A j \in DOMAIN pending' : pending'[j] = pending[j]
  BY DEF Completes, Without
<1>3. SlotsTyped' /\ IsFiniteSet(DOMAIN pending')
  BY <1>1, <1>2, FS_RemoveElement DEF Ledger, SlotsTyped
<1>4. SlotsExclusive'
  <2>1. \A j \in DOMAIN entries' : entries'[j].slot \in DOMAIN slots' /\ slots'[entries'[j].slot] = j
    <3>1. entries'[k].slot = s /\ DOMAIN entries' = DOMAIN entries \cup {k}
      BY DEF Completes
    <3>2. \A j \in DOMAIN entries : entries'[j] = entries[j]
      BY <1>1 DEF Completes
    <3>3. \A j \in DOMAIN entries : entries[j].slot \in DOMAIN slots /\ slots[entries[j].slot] = j
      BY DEF Ledger, SlotsExclusive
    <3>4. QED
      BY <1>1, <3>1, <3>2, <3>3
  <2>2. \A j \in DOMAIN pending :
           /\ pending[j].slot \notin DOMAIN slots
           /\ j \notin DOMAIN entries
           /\ \A i \in DOMAIN pending : pending[i].slot = pending[j].slot => i = j
    BY DEF Ledger, SlotsExclusive
  <2>3. (\A j \in DOMAIN pending :
           /\ pending[j].slot \notin DOMAIN slots
           /\ j \notin DOMAIN entries
           /\ \A i \in DOMAIN pending : pending[i].slot = pending[j].slot => i = j)'
    BY <1>1, <1>2, <2>2 DEF Completes
  <2>4. QED
    BY <2>1, <2>3 DEF SlotsExclusive
<1>5. SlotsMirrored => SlotsMirrored'
  BY <1>1 DEF Completes, SlotsMirrored
<1>6. residency' = residency + Size[k] /\ residency \in Nat /\ Size[k] \in Nat
  BY <1>1, LedgerSums, StoreAssumption DEF Completes, Ledger
<1>7. ResidencyExact'
  <2> DEFINE D == DOMAIN slots
             W == [t \in D \cup {s} |-> Size[slots'[t]]]
  <2>1. IsFiniteSet(D) /\ s \notin D /\ W \in [D \cup {s} -> Nat]
    BY <1>1, SlotsAreFinite, StoreAssumption DEF Ledger, SlotsTyped
  <2>2. W[s] = Size[k] /\ [x \in D |-> W[x]] = [t \in D |-> Size[slots[t]]]
    BY <1>1
  <2>3. SumFunction(W) = W[s] + SumFunction([x \in D |-> W[x]])
    <3> HIDE DEF D, W, s
    <3>1. QED
      BY <2>1, SumWith
  <2>4. residency = SumFunction([t \in D |-> Size[slots[t]]])
    BY DEF Ledger, ResidencyExact
  <2>5. [t \in DOMAIN slots' |-> Size[slots'[t]]] = W
    BY <1>1
  <2> HIDE DEF D, W, s
  <2>6. residency' = SumFunction(W)
    BY <1>6, <2>2, <2>3, <2>4
  <2>7. QED
    BY <2>5, <2>6 DEF ResidencyExact
<1>8. PendingBytes = Size[k] + PendingBytes' /\ PendingBytes' \in Nat
  BY PendingWithout DEF Completes, Ledger
<1>9. WithinBudget => WithinBudget'
  BY <1>6, <1>8, StoreAssumption DEF WithinBudget
<1>10. QED
  BY <1>3, <1>4, <1>5, <1>7, <1>9

LEMMA CancelsKeepsLedger ==
    ASSUME PendingTyped, Ledger, NEW k, Cancels(k)
    PROVE  /\ SlotsTyped' /\ SlotsExclusive' /\ ResidencyExact' /\ IsFiniteSet(DOMAIN pending')
           /\ SlotsMirrored => SlotsMirrored'
           /\ WithinBudget => WithinBudget'
<1>1. /\ DOMAIN pending' = DOMAIN pending \ {k}
      /\ \A j \in DOMAIN pending' : pending'[j] = pending[j]
      /\ UNCHANGED <<entries, slots, residency>>
  BY DEF Cancels, Without
<1>2. SlotsTyped' /\ ResidencyExact' /\ (SlotsMirrored => SlotsMirrored')
  BY <1>1 DEF Ledger, SlotsTyped, ResidencyExact, SlotsMirrored
<1>3. SlotsExclusive'
  <2>1. \A j \in DOMAIN pending :
           /\ pending[j].slot \notin DOMAIN slots
           /\ j \notin DOMAIN entries
           /\ \A i \in DOMAIN pending : pending[i].slot = pending[j].slot => i = j
    BY DEF Ledger, SlotsExclusive
  <2>2. (\A j \in DOMAIN pending :
           /\ pending[j].slot \notin DOMAIN slots
           /\ j \notin DOMAIN entries
           /\ \A i \in DOMAIN pending : pending[i].slot = pending[j].slot => i = j)'
    BY <1>1, <2>1
  <2>3. QED
    BY <1>1, <2>2 DEF Ledger, SlotsExclusive
<1>4. IsFiniteSet(DOMAIN pending')
  BY <1>1, FS_RemoveElement DEF Ledger
<1>5. PendingBytes = Size[k] + PendingBytes' /\ PendingBytes' \in Nat
  BY PendingWithout DEF Cancels, Ledger
<1>6. k \in Key /\ Size[k] \in Nat /\ residency \in Nat
  BY LedgerSums, StoreAssumption DEF Cancels, Ledger, PendingTyped
<1>7. WithinBudget => WithinBudget'
  <2>1. residency' = residency
    BY <1>1
  <2>2. PendingBytes' \in Nat /\ PendingBytes \in Nat /\ Budget \in Nat
    BY <1>5, LedgerSums, StoreAssumption DEF Ledger
  <2>3. PendingBytes' <= PendingBytes
    BY <1>5, <1>6, <2>2
  <2>4. residency + PendingBytes <= Budget => residency + PendingBytes' <= Budget
    <3>1. \A r, p, q, b \in Nat : q <= p /\ r + p <= b => r + q <= b
      OBVIOUS
    <3>2. QED
      BY <1>6, <2>2, <2>3, <3>1
  <2>5. QED
    BY <2>1, <2>4 DEF WithinBudget
<1>8. QED
  BY <1>2, <1>3, <1>4, <1>7

LEMMA RemovesKeepsLedger ==
    ASSUME PendingTyped, EntriesTyped, Ledger, NEW k, Removes(k)
    PROVE  /\ SlotsTyped' /\ SlotsExclusive' /\ ResidencyExact' /\ IsFiniteSet(DOMAIN pending')
           /\ SlotsMirrored => SlotsMirrored'
           /\ WithinBudget => WithinBudget'
<1> DEFINE s == entries[k].slot
<1>1. /\ k \in Key /\ s \in DOMAIN slots /\ slots[s] = k
      /\ DOMAIN slots' = DOMAIN slots \ {s}
      /\ \A t \in DOMAIN slots' : slots'[t] = slots[t]
      /\ DOMAIN entries' = DOMAIN entries \ {k}
      /\ \A j \in DOMAIN entries' : entries'[j] = entries[j]
      /\ pending' = pending
  BY DEF Removes, RemoveEntry, Without, Ledger, SlotsExclusive, EntriesTyped
<1>2. SlotsTyped' /\ IsFiniteSet(DOMAIN pending')
  BY <1>1 DEF Ledger, SlotsTyped
<1>3. SlotsExclusive'
  BY <1>1 DEF Ledger, SlotsExclusive
<1>4. SlotsMirrored => SlotsMirrored'
  BY <1>1 DEF SlotsMirrored
<1>5. residency' = residency - Size[k] /\ residency \in Nat /\ Size[k] \in Nat
  BY <1>1, LedgerSums, StoreAssumption DEF Removes, RemoveEntry, Ledger
<1> DEFINE D == DOMAIN slots
           W == [t \in D |-> Size[slots[t]]]
<1>6. /\ IsFiniteSet(D) /\ s \in D /\ W \in [D -> Nat]
      /\ W[s] = Size[k]
      /\ [x \in D \ {s} |-> W[x]] = [t \in DOMAIN slots' |-> Size[slots'[t]]]
      /\ residency = SumFunction(W)
  <2>1. Sums(D, W)
    BY LedgerSums DEF Ledger
  <2>2. QED
    BY <1>1, <2>1 DEF Sums, Ledger, ResidencyExact
<1>7. /\ SumFunction(W) = W[s] + SumFunction([x \in D \ {s} |-> W[x]])
      /\ SumFunction([x \in D \ {s} |-> W[x]]) \in Nat
  <2> HIDE DEF D, W, s
  <2>1. QED
    BY <1>6, SumWithout
<1>8. ResidencyExact' /\ residency' \in Nat
  <2> HIDE DEF D, W, s
  <2>1. residency' = SumFunction([x \in D \ {s} |-> W[x]])
    BY <1>5, <1>6, <1>7
  <2>2. QED
    BY <1>6, <1>7, <2>1 DEF ResidencyExact
<1>9. WithinBudget => WithinBudget'
  <2>1. PendingBytes' = PendingBytes /\ PendingBytes \in Nat
    BY <1>1, LedgerSums DEF PendingBytes, Ledger
  <2> HIDE DEF D, W, s
  <2>2. residency + PendingBytes <= Budget => residency' + PendingBytes' <= Budget
    BY <1>5, <2>1, StoreAssumption
  <2>3. QED
    BY <2>2 DEF WithinBudget
<1>10. QED
  BY <1>2, <1>3, <1>4, <1>8, <1>9

LEMMA LedgerStep ==
    ASSUME Types, Ledger, [Next]_vars, ~Crash, ~Restart, crashes' = crashes, crashes \in Nat
    PROVE  Ledger' /\ (WithinBudget => WithinBudget')
<1>1. PendingTyped /\ EntriesTyped
  BY DEF Types
<1>2. CASE SameBooks
  <2>1. residency' = residency
    BY <1>2 DEF SameBooks
  <2>2. QED
    BY <1>1, <1>2, <2>1, SameBooksKeepLedger DEF Ledger, WithinBudget
<1>3. ASSUME NEW k \in Key, Reserves(k) \/ Completes(k) \/ Cancels(k) \/ Removes(k)
      PROVE  Ledger' /\ (WithinBudget => WithinBudget')
  <2>1. /\ SlotsTyped' /\ SlotsExclusive' /\ ResidencyExact' /\ IsFiniteSet(DOMAIN pending')
        /\ SlotsMirrored => SlotsMirrored'
        /\ WithinBudget => WithinBudget'
    BY <1>1, <1>3, ReservesKeepsLedger, CompletesKeepsLedger, CancelsKeepsLedger,
       RemovesKeepsLedger
  <2>2. QED
    BY <2>1 DEF Ledger
<1>4. QED
  BY <1>2, <1>3, StepOfBooks

-----------------------------------------------------------------------------
(* Until a crash every term is that of an entry or of an installation.  While *)
(* the server is down for the first time, no two slots hold, or are about to  *)
(* be given, one program: the restart finds each program once.                *)
TermsBooked ==
    \A s \in Written :
        \/ s \in DOMAIN slots /\ terms[s][1] = slots[s]
        \/ \E k \in DOMAIN pending : pending[k].slot = s /\ terms[s][1] = k
Claims(s, k) ==
    \/ s \in Written /\ terms[s][1] = k
    \/ \E c \in Client : At(c, {"install"}) /\ client[c].slot = s /\ client[c].key = k
ClaimsApart == \A k \in Key, s, t \in Slot : Claims(s, k) /\ Claims(t, k) => s = t
NoBooks == DOMAIN entries = {} /\ DOMAIN slots = {} /\ DOMAIN pending = {} /\ residency = 0

LEMMA TermsStep ==
    ASSUME Types, TermsAreTerms, [Next]_vars, ~Crash, ~Restart
    PROVE  TermsAreTerms'
<1>1. terms' = [s \in Slot |-> terms'[s]]
  BY TypesStep DEF Types, TermsTyped
<1>2. ASSUME NEW s \in Slot
      PROVE  terms'[s] \in (Key \X Token) \cup {NoTerm}
  <2>1. CASE terms'[s] \in {terms[s], NoTerm}
    BY <2>1 DEF TermsAreTerms
  <2>2. ASSUME NEW c \in Client, At(c, {"install"}), terms'[s] = Term(client[c].key, client[c])
        PROVE  terms'[s] \in Key \X Token
    BY <2>2, InHand DEF Types, At, Term
  <2>3. QED
    BY <2>1, <2>2, StepOfBooks DEF TermsWritten
<1>3. QED
  BY <1>1, <1>2 DEF TermsAreTerms

(* A commit puts the term that was written on the books, a cancellation       *)
(* erases it; neither leaves a term behind.                                   *)
LEMMA TermsBookedStep ==
    ASSUME Calm, Ledger, TermsBooked, [Next]_vars, ~Crash, ~Restart
    PROVE  TermsBooked'
<1>1. Types /\ EntriesTyped /\ PendingTyped /\ TermsTyped /\ TermsTyped' /\ ClientTyped
  BY TypesStep DEF Calm, Types
<1>2. SUFFICES ASSUME NEW s \in Slot, terms'[s] # NoTerm
               PROVE  \/ s \in DOMAIN slots' /\ terms'[s][1] = slots'[s]
                      \/ \E k \in DOMAIN pending' : pending'[k].slot = s /\ terms'[s][1] = k
  BY DEF TermsBooked, Written
<1>3. CASE terms'[s] = terms[s]
  <2>1. \/ s \in DOMAIN slots /\ terms[s][1] = slots[s]
        \/ \E k \in DOMAIN pending : pending[k].slot = s /\ terms[s][1] = k
    BY <1>2, <1>3 DEF TermsBooked, Written
  <2>2. CASE SameBooks
    BY <1>3, <2>1, <2>2 DEF SameBooks
  <2>3. ASSUME NEW j, Reserves(j)
        PROVE  \/ s \in DOMAIN slots' /\ terms'[s][1] = slots'[s]
               \/ \E k \in DOMAIN pending' : pending'[k].slot = s /\ terms'[s][1] = k
    BY <1>3, <2>1, <2>3 DEF Reserves
  <2>4. ASSUME NEW j, Completes(j)
        PROVE  \/ s \in DOMAIN slots' /\ terms'[s][1] = slots'[s]
               \/ \E k \in DOMAIN pending' : pending'[k].slot = s /\ terms'[s][1] = k
    BY <1>3, <2>1, <2>4 DEF Completes, Put, Without, Ledger, SlotsExclusive
  <2>5. ASSUME NEW j, Cancels(j)
        PROVE  \/ s \in DOMAIN slots' /\ terms'[s][1] = slots'[s]
               \/ \E k \in DOMAIN pending' : pending'[k].slot = s /\ terms'[s][1] = k
    <3>1. s # pending[j].slot
      BY <1>1, <1>2, <2>5 DEF Cancels, EraseTerm, TermsTyped
    <3>2. QED
      BY <1>3, <2>1, <2>5, <3>1 DEF Cancels, Without
  <2>6. ASSUME NEW j, Removes(j)
        PROVE  \/ s \in DOMAIN slots' /\ terms'[s][1] = slots'[s]
               \/ \E k \in DOMAIN pending' : pending'[k].slot = s /\ terms'[s][1] = k
    <3>1. s # entries[j].slot
      BY <1>1, <1>2, <2>6 DEF Removes, EraseTerm, TermsTyped
    <3>2. QED
      BY <1>3, <2>1, <2>6, <3>1 DEF Removes, RemoveEntry, Without
  <2>7. QED
    BY <1>1, <2>2, <2>3, <2>4, <2>5, <2>6, StepOfBooks
<1>4. CASE terms'[s] # terms[s]
  <2>1. PICK c \in Client : /\ SameBooks
                            /\ At(c, {"install"}) /\ client[c].slot = s
                            /\ terms'[s] = Term(client[c].key, client[c])
    BY <1>1, <1>2, <1>4, StepOfBooks DEF TermsWritten
  <2>2. Installs(c)
    BY <2>1 DEF Calm, InStep, At
  <2>3. QED
    BY <2>1, <2>2 DEF SameBooks, Installs, OwnInstall, Term
<1>5. QED
  BY <1>3, <1>4

(* While the server is down, clients only write what they have claimed.       *)
LEMMA DownStep ==
    ASSUME Types, NoBooks, ~up, [Next]_vars, ~Restart
    PROVE  /\ ~Crash /\ UNCHANGED <<up, entries, slots, pending, residency, crashes>>
           /\ \A s \in Slot : \A k : Claims(s, k)' => Claims(s, k)
<1>1. ASSUME NEW c \in Client, Persist(c) \/ EraseIfOwned(c)
      PROVE  \A s \in Slot : \A k : Claims(s, k)' => Claims(s, k)
  <2>1. ClientTyped /\ TermsTyped
    BY DEF Types
  <2>2. \A d \in Client : (At(d, {"install"}))' => At(d, {"install"}) /\ client'[d] = client[d]
    BY <1>1, <2>1, InHand DEF Persist, EraseIfOwned, Become, At, ClientTyped, Idle
  <2>3. \A s \in Slot : terms'[s] \in {terms[s], NoTerm}
                        \/ /\ At(c, {"install"}) /\ client[c].slot = s
                           /\ terms'[s] = Term(client[c].key, client[c])
    BY <1>1, <2>1 DEF Persist, EraseIfOwned, EraseTerm, TermsTyped
  <2>4. QED
    BY <2>2, <2>3 DEF Claims, Written, At, Term
<1>2. ASSUME NEW c \in Client, Finish(c) \/ CallWithoutServer(c) \/ Die(c)
      PROVE  \A s \in Slot : \A k : Claims(s, k)' => Claims(s, k)
  <2>1. \A d \in Client : (At(d, {"install"}))' => At(d, {"install"}) /\ client'[d] = client[d]
    BY <1>2, InHand DEF Finish, CallWithoutServer, Die, Become, At, Types, ClientTyped, Idle
  <2>2. terms' = terms
    BY <1>2 DEF Finish, CallWithoutServer, Die
  <2>3. QED
    BY <2>1, <2>2 DEF Claims, Written, At
<1>3. ASSUME NEW c \in Client, Start(c) \/ Serve(c)
      PROVE  FALSE
  BY <1>3 DEF Start, Serve, CheckoutExisting, ReserveInstalled, ReserveMissing, Commit, CheckIn,
              Unpin, OwnerDown
<1>4. CASE UNCHANGED <<up, entries, slots, pending, residency, crashes, terms, client>>
  <2>1. terms' = terms /\ client' = client
    BY <1>4
  <2>2. \A s \in Slot : \A k : Claims(s, k)' => Claims(s, k)
    BY <2>1 DEF Claims, Written, At
  <2>3. QED
    BY <1>4, <2>2 DEF Crash
<1>5. ASSUME NEW c \in Client, Proceed(c) \/ Die(c)
      PROVE  /\ UNCHANGED <<up, entries, slots, pending, residency, crashes>>
             /\ \A s \in Slot : \A k : Claims(s, k)' => Claims(s, k)
  BY <1>1, <1>2, <1>5 DEF Proceed, Persist, EraseIfOwned, Finish, CallWithoutServer, Die, server
<1>6. ~Crash
  BY DEF Crash
<1>7. CASE Next
  <2>1. PICK c \in Client : Proceed(c) \/ Die(c)
    BY <1>3, <1>6, <1>7 DEF Next
  <2>2. QED
    BY <1>5, <1>6, <2>1
<1>8. CASE vars' = vars
  BY <1>4, <1>8 DEF vars, server
<1>9. QED
  BY <1>7, <1>8

(* A crash forgets the books and turns the callers away. *)
LEMMA CrashForgets ==
    ASSUME Types, TermsAreTerms, Crash
    PROVE  /\ Types' /\ TermsAreTerms' /\ Ledger' /\ NoBooks'
           /\ \A s \in Slot : \A k : Claims(s, k)' => Claims(s, k)
<1>1. NoBooks' /\ terms' = terms
  BY DEF Crash, NoBooks
<1>2. ClientTyped'
  <2>1. ASSUME NEW c \in Client
        PROVE  client'[c] \in ClientState
    <3>1. client[c] \in ClientState
      BY DEF Types, ClientTyped
    <3>2. CASE At(c, {"commit", "cancel"})
      <4>1. [client[c] EXCEPT !.pc = "recover"] \in ClientState
        BY <3>2, InHand DEF Types, ClientState, At
      <4>2. QED
        BY <3>2, <4>1 DEF Crash, ClientState, At
    <3>3. CASE ~At(c, {"commit", "cancel"})
      BY <3>1, <3>3 DEF Crash, ClientState
    <3>4. QED
      BY <3>2, <3>3
  <2>2. QED
    BY <2>1 DEF Crash, ClientTyped
<1>3. Types'
  BY <1>1, <1>2 DEF Types, EntriesTyped, PendingTyped, TermsTyped, NoBooks
<1>4. Ledger'
  <2>1. SumFunction([s \in DOMAIN slots' |-> Size[slots'[s]]]) = 0
    BY <1>1, SumOfNothing DEF NoBooks
  <2>2. QED
    BY <1>1, <2>1, FS_EmptySet DEF NoBooks, Ledger, SlotsTyped, SlotsExclusive, ResidencyExact,
                                   SlotsMirrored
<1>5. \A s \in Slot : \A k : Claims(s, k)' => Claims(s, k)
  <2>1. \A c \in Client : (At(c, {"install"}))' => At(c, {"install"}) /\ client'[c] = client[c]
    <3>1. ASSUME NEW c \in Client, (At(c, {"install"}))'
          PROVE  At(c, {"install"}) /\ client'[c] = client[c]
      <4>1. CASE At(c, {"commit", "cancel"})
        <5>1. [client[c] EXCEPT !.pc = "recover"].pc = "recover"
          BY <4>1, InHand DEF Types, At
        <5>2. QED
          BY <3>1, <4>1, <5>1 DEF Crash, At
      <4>2. CASE ~At(c, {"commit", "cancel"})
        BY <3>1, <4>2 DEF Crash, At, Idle
      <4>3. QED
        BY <4>1, <4>2
    <3>2. QED
      BY <3>1
  <2>2. QED
    BY <1>1, <2>1 DEF Claims, Written, At
<1>6. QED
  BY <1>1, <1>3, <1>4, <1>5 DEF TermsAreTerms

(* Before a crash a claimed slot is on the books under the claimed key.       *)
LEMMA CalmClaims ==
    ASSUME Calm, Ledger, SlotsMirrored, TermsBooked
    PROVE  ClaimsApart
<1> DEFINE On(s, k) == \/ k \in DOMAIN entries /\ entries[k].slot = s
                       \/ k \in DOMAIN pending /\ pending[k].slot = s
<1>1. ASSUME NEW s \in Slot, NEW k, Claims(s, k)
      PROVE  On(s, k)
  <2>1. CASE s \in Written /\ terms[s][1] = k
    BY <2>1 DEF TermsBooked, SlotsMirrored
  <2>2. CASE \E c \in Client : At(c, {"install"}) /\ client[c].slot = s /\ client[c].key = k
    BY <2>2 DEF Calm, InStep, Installs, OwnInstall, At
  <2>3. QED
    BY <1>1, <2>1, <2>2 DEF Claims
<1>2. ASSUME NEW k \in Key, NEW s \in Slot, NEW t \in Slot, On(s, k), On(t, k)
      PROVE  s = t
  BY <1>2 DEF Ledger, SlotsExclusive
<1> HIDE DEF On
<1>3. QED
  BY <1>1, <1>2 DEF ClaimsApart

(* A restart makes books of the terms that it keeps. *)
LEMMA RestartRestores ==
    ASSUME Types, TermsAreTerms, NoBooks, Restart, crashes <= 1 => ClaimsApart
    PROVE  Types' /\ TermsAreTerms' /\ Ledger'
<1> DEFINE K == Restored.kept
           Held(k) == {t \in K : terms[t][1] = k}
<1>1. /\ K \in SUBSET Written /\ K \in SUBSET Slot
      /\ residency' = SumFunction([s \in K |-> Weight(s)])
  BY RestoredWeighs DEF Weighs, Written, Restart
<1>2. terms' = [s \in Slot |-> IF s \in K THEN terms[s] ELSE NoTerm]
      /\ slots' = [s \in K |-> terms[s][1]]
      /\ entries' = [k \in {terms[s][1] : s \in K} |->
                        [slot |-> Max(Held(k)), token |-> terms[Max(Held(k))][2],
                         leases |-> {}, unpin |-> FALSE]]
      /\ UNCHANGED <<pending, client, crashes>>
  BY DEF Restart
<1> HIDE DEF K
<1>3. ASSUME NEW k \in {terms[s][1] : s \in K}
      PROVE  Max(Held(k)) \in K /\ terms[Max(Held(k))][1] = k
  <2>1. Held(k) \in SUBSET Slot /\ Held(k) # {}
    BY <1>1
  <2>2. Max(Held(k)) \in Held(k)
    <3> HIDE DEF Held
    <3>1. QED
      BY <2>1, MaxOfSlots
  <2>3. QED
    BY <2>2
<1> HIDE DEF Held
<1>4. ASSUME NEW s \in K
      PROVE  terms[s][1] \in Key /\ terms[s][2] \in Token
  BY <1>1, WeightOfTerm
<1>5. TermsAreTerms'
  BY <1>2 DEF TermsAreTerms
<1>6. EntriesTyped'
  BY <1>1, <1>2, <1>3, <1>4 DEF EntriesTyped, Entry
<1>7. Types'
  BY <1>2, <1>5, <1>6 DEF Types, PendingTyped, ClientTyped, TermsTyped
<1>8. SlotsTyped' /\ SlotsExclusive' /\ IsFiniteSet(DOMAIN pending')
  <2>1. SlotsTyped'
    BY <1>1, <1>2, <1>4 DEF SlotsTyped
  <2>2. SlotsExclusive'
    BY <1>2, <1>3 DEF SlotsExclusive, NoBooks
  <2>3. QED
    BY <1>2, <2>1, <2>2, FS_EmptySet DEF NoBooks
<1>9. ResidencyExact'
  <2>1. [s \in K |-> Weight(s)] = [s \in DOMAIN slots' |-> Size[slots'[s]]]
    BY <1>2 DEF Weight
  <2>2. QED
    BY <1>1, <2>1 DEF ResidencyExact
<1>10. crashes' <= 1 => SlotsMirrored'
  <2> SUFFICES ASSUME ClaimsApart, NEW s \in K
               PROVE  slots'[s] \in DOMAIN entries' /\ entries'[slots'[s]].slot = s
    BY <1>2 DEF SlotsMirrored
  <2> DEFINE k == terms[s][1]
             m == Max(Held(k))
  <2>1. m \in K /\ terms[m][1] = k
    BY <1>3
  <2>2. k \in Key /\ s \in Slot /\ m \in Slot /\ Claims(s, k) /\ Claims(m, k)
    BY <1>1, <1>4, <2>1 DEF Claims
  <2>3. s = m
    <3> HIDE DEF m, k
    <3>1. QED
      BY <2>2 DEF ClaimsApart
  <2>4. QED
    BY <1>2, <2>3
<1>11. QED
  BY <1>5, <1>7, <1>8, <1>9, <1>10 DEF Ledger

(* The budget covers the terms, since it covers the books that they are on.   *)
LEMMA BooksCoverTerms ==
    ASSUME Types, TermsAreTerms, Ledger, TermsBooked, WithinBudget
    PROVE  TermsBounded /\ NoOrphanTerm
<1> DEFINE W == [s \in Written |-> Size[terms[s][1]]]
           V == [s \in DOMAIN slots |-> Size[slots[s]]]
           U == [k \in DOMAIN pending |-> Size[k]]
           at == [k \in DOMAIN pending |-> pending[k].slot]
<1>1. IsFiniteSet(Written) /\ W \in [Written -> Nat]
  BY SlotsAreFinite, WeightOfTerm DEF Written, Weight
<1>2. /\ IsFiniteSet(DOMAIN slots) /\ V \in [DOMAIN slots -> Nat]
      /\ IsFiniteSet(DOMAIN pending) /\ U \in [DOMAIN pending -> Nat]
      /\ residency \in Nat /\ PendingBytes \in Nat
  BY LedgerSums DEF Types, Ledger, Sums
<1>3. \A s \in Written : \/ s \in DOMAIN slots /\ W[s] = V[s]
                         \/ \E k \in DOMAIN pending : at[k] = s /\ W[s] = U[k]
  BY DEF TermsBooked
<1>4. residency = SumFunction(V) /\ PendingBytes = SumFunction(U)
  BY DEF Ledger, ResidencyExact, PendingBytes
<1>5. SumFunction(W) \in Nat
  <2> HIDE DEF W
  <2>1. QED
    BY <1>1, SumIsNat
<1>6. SumFunction(W) <= SumFunction(V) + SumFunction(U)
  <2> DEFINE S == DOMAIN slots
             P == DOMAIN pending
  <2>1. /\ IsFiniteSet(S) /\ V \in [S -> Nat] /\ IsFiniteSet(P) /\ U \in [P -> Nat]
        /\ \A s \in Written : \/ s \in S /\ W[s] = V[s]
                              \/ \E k \in P : at[k] = s /\ W[s] = U[k]
    BY <1>2, <1>3
  <2> HIDE DEF W, V, U, at, S, P
  <2>2. QED
    BY <1>1, <2>1, SumOfBoth
<1>7. TermsBounded
  <2>1. TermsBounded <=> SumFunction(W) <= Budget
    BY DEF TermsBounded, Written
  <2> HIDE DEF W, V, U
  <2>2. QED
    BY <1>2, <1>4, <1>5, <1>6, <2>1, StoreAssumption DEF WithinBudget
<1>8. NoOrphanTerm
  BY DEF NoOrphanTerm, TermsBooked, Written
<1>9. QED
  BY <1>7, <1>8

-----------------------------------------------------------------------------
(* All of it: types, books, and what is so before, in and after the first     *)
(* life of the server.                                                        *)
Accounted ==
    /\ up \in BOOLEAN /\ alive \subseteq Client /\ crashes \in 0..MaxCrashes
    /\ Types /\ TermsAreTerms /\ Ledger
    /\ ~up => NoBooks
    /\ crashes = 0 => Calm /\ TermsBooked /\ WithinBudget
    /\ crashes = 1 /\ ~up => ClaimsApart

LEMMA AccountedInit == Init => Accounted
<1> SUFFICES ASSUME Init
             PROVE  Accounted
  OBVIOUS
<1>1. Calm
  BY CalmInit
<1>2. DOMAIN slots = {} /\ DOMAIN pending = {} /\ DOMAIN entries = {} /\ residency = 0
  BY DEF Init
<1>3. ResidencyExact /\ PendingBytes = 0
  BY <1>2, SumOfNothing DEF ResidencyExact, PendingBytes
<1>4. Ledger
  BY <1>2, <1>3, FS_EmptySet DEF Ledger, SlotsTyped, SlotsExclusive, SlotsMirrored
<1>5. WithinBudget
  BY <1>2, <1>3, StoreAssumption DEF WithinBudget
<1>6. TermsBooked /\ TermsAreTerms
  BY DEF Init, TermsBooked, Written, TermsAreTerms
<1>7. QED
  BY <1>1, <1>4, <1>5, <1>6, StoreAssumption DEF Init, Accounted, Calm

(* Every step keeps it: a crash turns the first books into claims, a restart  *)
(* turns those into the second.                                               *)
LEMMA AccountedStep ==
    ASSUME Accounted, [Next]_vars
    PROVE  Accounted'
<1> USE DEF Accounted
<1>1. CASE Crash
  <2>1. /\ Types' /\ TermsAreTerms' /\ Ledger' /\ NoBooks'
        /\ \A s \in Slot : \A k : Claims(s, k)' => Claims(s, k)
    BY <1>1, CrashForgets
  <2>2. up' = FALSE /\ alive' = alive /\ crashes' = crashes + 1 /\ crashes < MaxCrashes
    BY <1>1 DEF Crash
  <2>3. crashes = 0 => ClaimsApart'
    <3>1. crashes = 0 => ClaimsApart
      BY CalmClaims DEF Ledger
    <3>2. QED
      BY <2>1, <3>1 DEF ClaimsApart
  <2>4. /\ crashes' \in 0..MaxCrashes /\ crashes' # 0
        /\ crashes' = 1 => crashes = 0
    BY <2>2, StoreAssumption
  <2>5. QED
    BY <2>1, <2>2, <2>3, <2>4
<1>2. CASE Restart
  <2>1. ~up /\ up' = TRUE /\ alive' = alive /\ crashes' = crashes
    BY <1>2 DEF Restart
  <2>2. crashes # 0
    BY <2>1 DEF Calm
  <2>3. crashes <= 1 => ClaimsApart
    BY <2>1, <2>2, StoreAssumption
  <2>4. Types' /\ TermsAreTerms' /\ Ledger'
    BY <1>2, <2>1, <2>3, RestartRestores
  <2>5. QED
    BY <2>1, <2>2, <2>4
<1>3. CASE ~Crash /\ ~Restart
  <2>1. crashes' = crashes /\ up' = up /\ alive' \subseteq alive
    BY <1>3 DEF Next, Start, Serve, CheckoutExisting, ReserveInstalled, ReserveMissing, Commit,
           CheckIn, Unpin, OwnerDown, Proceed, Persist, EraseIfOwned, Finish,
           CallWithoutServer, Die, vars, server
  <2>2. Types' /\ TermsAreTerms'
    BY <1>3, TypesStep, TermsStep
  <2>3. Ledger' /\ (WithinBudget => WithinBudget')
    BY <1>3, <2>1, LedgerStep, StoreAssumption
  <2>4. crashes = 0 => Calm' /\ TermsBooked'
    BY <1>3, CalmStep, TermsBookedStep
  <2>5. ~up => /\ NoBooks'
               /\ \A s \in Slot : \A k : Claims(s, k)' => Claims(s, k)
    BY <1>3, DownStep DEF NoBooks
  <2>6. crashes = 1 /\ ~up => ClaimsApart'
    BY <2>5 DEF ClaimsApart
  <2>7. up' \in BOOLEAN /\ alive' \subseteq Client /\ crashes' \in 0..MaxCrashes
    BY <2>1
  <2>8. ~up' => NoBooks'
    BY <2>1, <2>5
  <2>9. crashes' = 0 => Calm' /\ TermsBooked' /\ WithinBudget'
    BY <2>1, <2>3, <2>4
  <2>10. crashes' = 1 /\ ~up' => ClaimsApart'
    BY <2>1, <2>6
  <2>11. QED
    BY <2>2, <2>3, <2>7, <2>8, <2>9, <2>10
<1>4. QED
  BY <1>1, <1>2, <1>3

(* "bounds both per-program and total external-term residency" (store.ex:8):  *)
(* whatever clients ask, wherever they die and whatever the server            *)
(* restores, the slots exclude each other and residency_bytes is what they    *)
(* weigh; no slot is lost before a second crash; and until a crash the        *)
(* persistent terms stay within the budget and each has somebody to answer    *)
(* for it (store.ex:292, 302).                                                *)
THEOREM BooksAgree == Spec => []BooksExact
<1>1. Accounted => BooksExact
  <2> SUFFICES ASSUME Accounted
               PROVE  BooksExact
    OBVIOUS
  <2>1. residency \in Nat
    BY LedgerSums DEF Accounted, Types, Ledger
  <2>2. TypeOK
    BY <2>1 DEF Accounted, Types, EntriesTyped, PendingTyped, ClientTyped, TermsAreTerms, Ledger,
                SlotsTyped, TypeOK
  <2>3. crashes = 0 => TermsBounded /\ NoOrphanTerm
    BY BooksCoverTerms DEF Accounted
  <2>4. QED
    BY <2>2, <2>3 DEF Accounted, Ledger, BooksExact
<1>2. QED
  BY <1>1, AccountedInit, AccountedStep, PTL DEF Spec
=============================================================================
