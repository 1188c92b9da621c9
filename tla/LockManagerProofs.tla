-------------------------- MODULE LockManagerProofs --------------------------
(***************************************************************************)
(* Proofs about LockManager, for any sets of names, runtimes and sessions. *)
(***************************************************************************)
EXTENDS LockManager, FiniteSetTheorems, SequenceTheorems, TLAPS

(* The books of the server: a queued record is the request of a waiting     *)
(* session, queued once; a held record is the lock of a session that has it.*)
Books ==
    /\ \A i \in DOMAIN pending :
          /\ pc[pending[i].ref] = "waiting"
          /\ pending[i] = LockOf(pending[i].ref)
    /\ \A i, j \in DOMAIN pending : pending[i].ref = pending[j].ref => i = j
    /\ \A l \in held : pc[l.ref] \in {"critical", "releasing"} /\ l = LockOf(l.ref)

IInv == TypeOK /\ MutualExclusion /\ NoGrantableWaits /\ Books

-----------------------------------------------------------------------------
(* What can be granted next to more locks can be granted next to fewer. *)
LEMMA CanGrantAntitone ==
    ASSUME NEW A, NEW B, A \subseteq B, NEW n, NEW m, CanGrant(B, n, m)
    PROVE  CanGrant(A, n, m)
  BY DEF CanGrant

(* Filtering a queue by a set of its indices yields a queue of its elements. *)
LEMMA FilteredQueue ==
    ASSUME NEW queue \in Seq(Lock), NEW K \in SUBSET DOMAIN queue,
           NEW f \in Order(K)
    PROVE  LET q == [i \in DOMAIN f |-> queue[f[i]]]
           IN  /\ q \in Seq(Lock)
               /\ DOMAIN q = DOMAIN f
               /\ \A i \in DOMAIN f : f[i] \in K /\ q[i] = queue[f[i]]
               /\ \A i, j \in DOMAIN f : f[i] = f[j] => i = j
  <1>1. IsFiniteSet(K)
    <2>1. DOMAIN queue = 1..Len(queue) /\ Len(queue) \in Nat
      OBVIOUS
    <2>2. IsFiniteSet(1..Len(queue))
      BY <2>1, FS_Interval
    <2> QED BY <2>1, <2>2, FS_Subset
  <1>2. Cardinality(K) \in Nat
    BY <1>1, FS_CardinalityType
  <1>3. /\ f \in [1..Cardinality(K) -> K]
        /\ \A i, j \in DOMAIN f : i < j => f[i] < f[j]
    BY DEF Order
  <1>4. \A k \in K : queue[k] \in Lock /\ k \in Nat
    OBVIOUS
  <1>5. [i \in DOMAIN f |-> queue[f[i]]] \in Seq(Lock)
    <2>1. DOMAIN f = 1..Cardinality(K)
      BY <1>3
    <2>2. \A i \in 1..Cardinality(K) : queue[f[i]] \in Lock
      BY <1>3, <1>4
    <2>3. [i \in 1..Cardinality(K) |-> queue[f[i]]] \in [1..Cardinality(K) -> Lock]
      BY <2>2, Zenon
    <2>4. [i \in 1..Cardinality(K) |-> queue[f[i]]] \in Seq(Lock)
      BY <1>2, <2>3, SeqDef
    <2> QED BY <2>1, <2>4, Zenon
  <1>6. \A i, j \in DOMAIN f : f[i] = f[j] => i = j
    BY <1>2, <1>3, <1>4
  <1> QED BY <1>3, <1>5, <1>6

(* The pass over the queue keeps the table compatible and leaves nothing     *)
(* grantable behind, whatever locks the handler started from.                *)
LEMMA GrantPassSound ==
    ASSUME NEW locks \in SUBSET Lock, NEW queue \in Seq(Lock),
           NEW G \in SUBSET DOMAIN queue, GrantPass(locks, queue, G),
           \A l, m \in locks : l # m /\ l.name = m.name =>
                                   l.mode = "shared" /\ m.mode = "shared"
    PROVE  LET all == locks \cup {queue[i] : i \in G}
           IN  /\ \A l, m \in all : l # m /\ l.name = m.name =>
                                   l.mode = "shared" /\ m.mode = "shared"
               /\ \A i \in DOMAIN queue \ G :
                     ~CanGrant(all, queue[i].name, queue[i].mode)
               /\ \A i \in G : CanGrant(locks, queue[i].name, queue[i].mode)
  <1> DEFINE all == locks \cup {queue[i] : i \in G}
             before(i) == locks \cup {queue[j] : j \in {k \in G : k < i}}
  <1>1. \A i \in DOMAIN queue :
            i \in G <=> CanGrant(before(i), queue[i].name, queue[i].mode)
    BY DEF GrantPass
  <1>2. \A i \in DOMAIN queue : i \in Nat
    OBVIOUS
  <1>3. ASSUME NEW l \in all, NEW m \in all, l # m, l.name = m.name
        PROVE  l.mode = "shared" /\ m.mode = "shared"
    <2>1. CASE l \in locks /\ m \in locks
      BY <2>1, <1>3
    <2>2. CASE l \in locks /\ m \notin locks
      <3>1. PICK i \in G : m = queue[i]
        BY <2>2
      <3>2. CanGrant(before(i), m.name, m.mode) /\ l \in before(i)
        BY <3>1, <2>2, <1>1
      <3> QED BY <3>2, <1>3 DEF CanGrant
    <2>3. CASE l \notin locks /\ m \in locks
      <3>1. PICK i \in G : l = queue[i]
        BY <2>3
      <3>2. CanGrant(before(i), l.name, l.mode) /\ m \in before(i)
        BY <3>1, <2>3, <1>1
      <3> QED BY <3>2, <1>3 DEF CanGrant
    <2>4. CASE l \notin locks /\ m \notin locks
      <3>1. PICK i \in G : l = queue[i]
        BY <2>4
      <3>2. PICK j \in G : m = queue[j]
        BY <2>4
      <3>3. i < j \/ j < i
        BY <3>1, <3>2, <1>2, <1>3
      <3>4. CASE i < j
        <4>1. CanGrant(before(j), m.name, m.mode) /\ l \in before(j)
          BY <3>1, <3>2, <3>4, <1>1
        <4> QED BY <4>1, <1>3 DEF CanGrant
      <3>5. CASE j < i
        <4>1. CanGrant(before(i), l.name, l.mode) /\ m \in before(i)
          BY <3>1, <3>2, <3>5, <1>1
        <4> QED BY <4>1, <1>3 DEF CanGrant
      <3> QED BY <3>3, <3>4, <3>5
    <2> QED BY <2>1, <2>2, <2>3, <2>4
  <1>4. ASSUME NEW i \in DOMAIN queue \ G
        PROVE  ~CanGrant(all, queue[i].name, queue[i].mode)
    <2>1. before(i) \subseteq all
      OBVIOUS
    <2> QED BY <2>1, <1>1, CanGrantAntitone
  <1>5. ASSUME NEW i \in G
        PROVE  CanGrant(locks, queue[i].name, queue[i].mode)
    <2>1. locks \subseteq before(i)
      OBVIOUS
    <2>2. CanGrant(before(i), queue[i].name, queue[i].mode)
      BY <1>1
    <2> QED BY <2>1, <2>2, CanGrantAntitone
  <1> QED BY <1>3, <1>4, <1>5
-----------------------------------------------------------------------------
(* try_grant_pending re-establishes the whole invariant from locks and a     *)
(* queue that keep the books, as the release and DOWN handlers leave them.   *)
LEMMA TryGrantKeepsInv ==
    ASSUME TypeOK,
           NEW locks \in SUBSET held, NEW queue \in Seq(Lock),
           NEW answers \in [Session -> {"idle", "calling", "trying", "waiting",
                                        "critical", "releasing"}],
           MutualExclusion,
           \A i \in DOMAIN queue : /\ answers[queue[i].ref] = "waiting"
                                   /\ queue[i] = LockOf(queue[i].ref),
           \A i, j \in DOMAIN queue : queue[i].ref = queue[j].ref => i = j,
           \A l \in locks : /\ answers[l.ref] \in {"critical", "releasing"}
                            /\ l = LockOf(l.ref),
           TryGrantPending(locks, queue, answers),
           UNCHANGED <<alive, lost, want>>
    PROVE  IInv'
  <1>1. PICK G \in SUBSET DOMAIN queue :
            /\ GrantPass(locks, queue, G)
            /\ held' = locks \cup {queue[i] : i \in G}
            /\ \E f \in Order(DOMAIN queue \ G) :
                   pending' = [i \in DOMAIN f |-> queue[f[i]]]
            /\ pc' = [s \in Session |-> IF \E i \in G : queue[i].ref = s
                                        THEN "critical" ELSE answers[s]]
    BY DEF TryGrantPending
  <1>2. PICK f \in Order(DOMAIN queue \ G) :
            pending' = [i \in DOMAIN f |-> queue[f[i]]]
    BY <1>1
  <1>3. /\ pending' \in Seq(Lock)
        /\ DOMAIN pending' = DOMAIN f
        /\ \A i \in DOMAIN pending' : /\ f[i] \in DOMAIN queue \ G
                                      /\ pending'[i] = queue[f[i]]
        /\ \A i, j \in DOMAIN pending' : f[i] = f[j] => i = j
    <2>1. DOMAIN queue \ G \in SUBSET DOMAIN queue
      OBVIOUS
    <2> HIDE <1>1
    <2> QED BY <1>2, <2>1, FilteredQueue
  <1>4. \A i \in DOMAIN queue : queue[i] \in Lock /\ queue[i].ref \in Session
    <2>1. \A i \in DOMAIN queue : queue[i] \in Lock
      OBVIOUS
    <2> QED BY <2>1 DEF Lock
  <1>5. locks \in SUBSET Lock
    BY DEF TypeOK
  <1>6. \A l, m \in locks : l # m /\ l.name = m.name =>
                                l.mode = "shared" /\ m.mode = "shared"
    BY DEF MutualExclusion
  <1>7. /\ \A l, m \in held' : l # m /\ l.name = m.name =>
                                   l.mode = "shared" /\ m.mode = "shared"
        /\ \A i \in DOMAIN queue \ G :
              ~CanGrant(held', queue[i].name, queue[i].mode)
    <2> DEFINE all == locks \cup {queue[i] : i \in G}
    <2>1. GrantPass(locks, queue, G)
      BY <1>1
    <2>2. /\ \A l, m \in all : l # m /\ l.name = m.name =>
                                  l.mode = "shared" /\ m.mode = "shared"
          /\ \A i \in DOMAIN queue \ G :
                ~CanGrant(all, queue[i].name, queue[i].mode)
      BY <2>1, <1>5, <1>6, GrantPassSound
    <2>3. held' = all
      BY <1>1
    <2> HIDE DEF all
    <2> QED BY <2>2, <2>3
  <1>8. \A s : LockOf(s)' = LockOf(s)
    BY DEF LockOf
  <1>9. TypeOK'
    <2>1. held' \subseteq Lock
      BY <1>1, <1>4, <1>5
    <2>2. pc' \in [Session -> {"idle", "calling", "trying", "waiting",
                               "critical", "releasing"}]
      BY <1>1
    <2> QED BY <1>3, <2>1, <2>2 DEF TypeOK
  <1>10. MutualExclusion'
    BY <1>7 DEF MutualExclusion
  <1>11. NoGrantableWaits'
    <2> SUFFICES ASSUME NEW i \in DOMAIN pending'
                 PROVE  ~CanGrant(held', pending'[i].name, pending'[i].mode)
      BY DEF NoGrantableWaits, CanGrant
    <2> QED BY <1>3, <1>7
  <1>12. Books'
    <2>1. ASSUME NEW i \in DOMAIN pending'
          PROVE  /\ pc'[pending'[i].ref] = "waiting"
                 /\ pending'[i] = LockOf(pending'[i].ref)
      <3>1. ~\E j \in G : queue[j].ref = queue[f[i]].ref
        BY <1>3
      <3> QED BY <1>1, <1>3, <1>4, <3>1
    <2>2. \A i, j \in DOMAIN pending' :
              pending'[i].ref = pending'[j].ref => i = j
      BY <1>3
    <2>3. ASSUME NEW l \in held'
          PROVE  /\ pc'[l.ref] \in {"critical", "releasing"}
                 /\ l = LockOf(l.ref)
      <3>1. CASE l \in locks
        BY <3>1, <1>1, <1>5 DEF Lock
      <3>2. CASE \E i \in G : l = queue[i]
        BY <3>2, <1>1, <1>4
      <3> QED BY <3>1, <3>2, <1>1
    <2> QED BY <2>1, <2>2, <2>3, <1>8 DEF Books
  <1> QED BY <1>9, <1>10, <1>11, <1>12 DEF IInv
-----------------------------------------------------------------------------
LEMMA InitInv == Init => IInv
  <1> SUFFICES ASSUME Init PROVE IInv
    OBVIOUS
  <1> USE DEF Init
  <1>1. TypeOK
    BY DEF TypeOK
  <1>2. MutualExclusion /\ NoGrantableWaits /\ Books
    BY DEF MutualExclusion, NoGrantableWaits, Books
  <1> QED BY <1>1, <1>2 DEF IInv

(* A request that is granted, refused or queued at once. *)
LEMMA RequestInv == ASSUME IInv, NEW s \in Session, Request(s) PROVE IInv'
  <1> USE DEF IInv
  <1>1. LockOf(s) \in Lock /\ LockOf(s).ref = s
    BY LockAssumption DEF LockOf, Lock, TypeOK, Want
  <1>2. \A x : LockOf(x)' = LockOf(x)
    BY DEF LockOf, Request
  <1>3. /\ LockOf(s).name = want[s].name /\ LockOf(s).mode = want[s].mode
        /\ pc[s] \in {"calling", "trying"}
        /\ \A i \in DOMAIN pending : pending[i] \in Lock /\ pending[i].ref # s
        /\ \A l \in held : l.ref # s /\ l.ref \in Session
    <2>1. \A i \in DOMAIN pending : pending[i] \in Lock
      BY DEF TypeOK
    <2> QED BY <2>1 DEF LockOf, Books, Request, TypeOK, Lock
  <1>4. CASE /\ CanGrant(held, want[s].name, want[s].mode)
             /\ held' = held \cup {LockOf(s)}
             /\ pc' = [pc EXCEPT ![s] = "critical"]
             /\ UNCHANGED <<alive, lost, want, pending>>
    <2>1. TypeOK'
      BY <1>4, <1>1 DEF TypeOK
    <2>2. MutualExclusion'
      BY <1>4, <1>3, <1>1 DEF MutualExclusion, CanGrant, TypeOK, Lock
    <2>3. NoGrantableWaits'
      <3>1. held \subseteq held'
        BY <1>4
      <3> SUFFICES ASSUME NEW i \in DOMAIN pending,
                          CanGrant(held', pending[i].name, pending[i].mode)
                   PROVE  FALSE
        BY <1>4 DEF NoGrantableWaits, CanGrant
      <3>2. CanGrant(held, pending[i].name, pending[i].mode)
        BY <3>1, CanGrantAntitone
      <3> QED BY <3>2 DEF NoGrantableWaits
    <2>4. Books'
      BY <1>4, <1>1, <1>2, <1>3 DEF Books, TypeOK
    <2> QED BY <2>1, <2>2, <2>3, <2>4
  <1>5. CASE /\ pc' = [pc EXCEPT ![s] = "idle"]
             /\ UNCHANGED <<alive, lost, want, held, pending>>
    <2>1. TypeOK' /\ MutualExclusion' /\ NoGrantableWaits'
      BY <1>5 DEF TypeOK, MutualExclusion, NoGrantableWaits, CanGrant
    <2>2. Books'
      BY <1>5, <1>2, <1>3 DEF Books, TypeOK
    <2> QED BY <2>1, <2>2
  <1>6. CASE /\ ~CanGrant(held, want[s].name, want[s].mode)
             /\ pc' = [pc EXCEPT ![s] = "waiting"]
             /\ pending' = Append(pending, LockOf(s))
             /\ UNCHANGED <<alive, lost, want, held>>
    <2>1. /\ pending' \in Seq(Lock)
          /\ DOMAIN pending = 1..Len(pending) /\ Len(pending) \in Nat
          /\ DOMAIN pending' = 1..(Len(pending) + 1)
          /\ pending'[Len(pending) + 1] = LockOf(s)
          /\ \A i \in DOMAIN pending : pending'[i] = pending[i]
      <3> HIDE DEF IInv
      <3>1. pending \in Seq(Lock)
        BY DEF IInv, TypeOK
      <3> QED BY <1>6, <1>1, <3>1
    <2>2. TypeOK'
      BY <1>6, <2>1 DEF TypeOK
    <2>3. MutualExclusion' /\ NoGrantableWaits'
      BY <1>6, <1>3, <2>1 DEF MutualExclusion, NoGrantableWaits, CanGrant
    <2>4. Books'
      BY <1>6, <1>1, <1>2, <1>3, <2>1 DEF Books, TypeOK, Lock
    <2> QED BY <2>2, <2>3, <2>4
  <1> QED BY <1>4, <1>5, <1>6 DEF Request

(* A release: the locks that stay and the queue keep the books. *)
LEMMA ReleaseInv == ASSUME IInv, NEW s \in Session, Release(s) PROVE IInv'
  <1> USE DEF IInv
  <1> DEFINE answers == [pc EXCEPT ![s] = "idle"]
             locks == held \ Released(s)
  <1>1. /\ pc[s] = "releasing" /\ TryGrantPending(locks, pending, answers)
        /\ UNCHANGED <<alive, lost, want>>
    BY DEF Release
  <1>2. /\ locks \in SUBSET held /\ pending \in Seq(Lock)
        /\ answers \in [Session -> {"idle", "calling", "trying", "waiting",
                                    "critical", "releasing"}]
    BY DEF TypeOK
  <1>3. \A i \in DOMAIN pending : pending[i] \in Lock /\ pending[i].ref \in Session
    <2>1. \A i \in DOMAIN pending : pending[i] \in Lock
      BY DEF TypeOK
    <2> QED BY <2>1 DEF Lock
  <1>4. \A i \in DOMAIN pending : /\ answers[pending[i].ref] = "waiting"
                                  /\ pending[i] = LockOf(pending[i].ref)
    BY <1>1, <1>3 DEF Books, TypeOK
  <1>5. \A l \in locks : /\ answers[l.ref] \in {"critical", "releasing"}
                         /\ l = LockOf(l.ref)
    <2> SUFFICES ASSUME NEW l \in locks
                 PROVE  answers[l.ref] \in {"critical", "releasing"} /\ l = LockOf(l.ref)
      OBVIOUS
    <2>1. l.ref \in Session /\ l = LockOf(l.ref) /\ pc[l.ref] \in {"critical", "releasing"}
      BY DEF Books, TypeOK, Lock
    <2>2. l.ref # s
      BY <2>1 DEF Released, LockOf
    <2> QED BY <2>1, <2>2
  <1>6. \A i, j \in DOMAIN pending : pending[i].ref = pending[j].ref => i = j
    BY DEF Books
  <1>7. TypeOK /\ MutualExclusion
    OBVIOUS
  <1> HIDE DEF IInv, answers, locks
  <1> QED BY <1>1, <1>2, <1>4, <1>5, <1>6, <1>7, TryGrantKeepsInv
(* A DOWN signal: as for a release, but the queue loses the dead request     *)
(* first, and is left alone when no held lock went.                          *)
LEMMA HolderDownInv == ASSUME IInv, NEW s \in Session, HolderDown(s) PROVE IInv'
  <1> DEFINE kept == {l \in held : l.ref # s}
             cancelled == {i \in DOMAIN pending : pending[i].ref = s}
             answers == IF cancelled # {} THEN [pc EXCEPT ![s] = "idle"] ELSE pc
  <1>1. UNCHANGED <<alive, lost, want>>
    BY DEF HolderDown
  <1>2. PICK f \in Order(DOMAIN pending \ cancelled) :
            LET queue == [i \in DOMAIN f |-> pending[f[i]]]
            IN  \/ kept # held /\ TryGrantPending(kept, queue, answers)
                \/ /\ kept = held
                   /\ pending' = queue
                   /\ pc' = answers
                   /\ UNCHANGED held
    BY DEF HolderDown
  <1> DEFINE queue == [i \in DOMAIN f |-> pending[f[i]]]
  <1>3. /\ queue \in Seq(Lock)
        /\ DOMAIN queue = DOMAIN f
        /\ \A i \in DOMAIN queue : /\ f[i] \in DOMAIN pending \ cancelled
                                   /\ queue[i] = pending[f[i]]
        /\ \A i, j \in DOMAIN queue : f[i] = f[j] => i = j
    <2>1. pending \in Seq(Lock)
      BY DEF IInv, TypeOK
    <2>2. DOMAIN pending \ cancelled \in SUBSET DOMAIN pending
      OBVIOUS
    <2> HIDE DEF cancelled
    <2> QED BY <2>1, <2>2, FilteredQueue
  <1>4. \A i \in DOMAIN pending : pending[i] \in Lock /\ pending[i].ref \in Session
    <2>1. \A i \in DOMAIN pending : pending[i] \in Lock
      BY DEF IInv, TypeOK
    <2> QED BY <2>1 DEF Lock
  <1>5. answers \in [Session -> {"idle", "calling", "trying", "waiting",
                                 "critical", "releasing"}]
    BY DEF IInv, TypeOK
  <1>6. ASSUME NEW i \in DOMAIN queue
        PROVE  /\ answers[queue[i].ref] = "waiting"
               /\ queue[i] = LockOf(queue[i].ref)
    <2>1. /\ f[i] \in DOMAIN pending /\ pending[f[i]].ref # s
          /\ queue[i] = pending[f[i]]
      BY <1>3
    <2>2. /\ pc[pending[f[i]].ref] = "waiting"
          /\ pending[f[i]] = LockOf(pending[f[i]].ref)
          /\ pending[f[i]].ref \in Session
      BY <2>1, <1>4 DEF IInv, Books
    <2> HIDE DEF queue, cancelled
    <2> QED BY <2>1, <2>2 DEF IInv, TypeOK
  <1>7. ASSUME NEW i \in DOMAIN queue, NEW j \in DOMAIN queue,
               queue[i].ref = queue[j].ref
        PROVE  i = j
    BY <1>3, <1>7 DEF IInv, Books
  <1>8. ASSUME NEW l \in kept
        PROVE  answers[l.ref] \in {"critical", "releasing"} /\ l = LockOf(l.ref)
    BY DEF IInv, Books, TypeOK, Lock
  <1>9. CASE kept # held /\ TryGrantPending(kept, queue, answers)
    <2>1. kept \in SUBSET held /\ TypeOK /\ MutualExclusion
      BY DEF IInv
    <2> HIDE DEF kept, answers, queue
    <2> QED BY <1>1, <1>3, <1>5, <1>6, <1>7, <1>8, <1>9, <2>1, TryGrantKeepsInv
  <1>10. CASE kept = held /\ pending' = queue /\ pc' = answers /\ UNCHANGED held
    <2>1. \A x : LockOf(x)' = LockOf(x)
      BY <1>1 DEF LockOf
    <2> HIDE DEF answers, queue
    <2>2. TypeOK'
      BY <1>1, <1>3, <1>5, <1>10 DEF IInv, TypeOK
    <2>3. MutualExclusion'
      BY <1>10 DEF IInv, MutualExclusion
    <2>4. NoGrantableWaits'
      BY <1>3, <1>10 DEF IInv, NoGrantableWaits, CanGrant
    <2>5. Books'
      BY <1>6, <1>7, <1>8, <1>10, <2>1 DEF Books
    <2> QED BY <2>2, <2>3, <2>4, <2>5 DEF IInv
  <1> QED BY <1>2, <1>9, <1>10

(* Steps that leave the server alone keep its books: they only move sessions  *)
(* that are neither queued nor about to lose a lock.                         *)
LEMMA SessionStepInv ==
    ASSUME IInv, TypeOK', UNCHANGED <<held, pending>>,
           NEW s \in Session,
           \A t \in Session \ {s} : pc'[t] = pc[t] /\ want'[t] = want[t],
           \/ pc[s] = "idle"
           \/ /\ pc[s] = "critical" /\ pc'[s] \in {"critical", "releasing"}
              /\ want'[s] = want[s]
    PROVE  IInv'
  <1>1. MutualExclusion' /\ NoGrantableWaits'
    BY DEF IInv, MutualExclusion, NoGrantableWaits, CanGrant
  <1>2. \A t \in Session \ {s} : LockOf(t)' = LockOf(t)
    BY DEF LockOf
  <1>3. \A i \in DOMAIN pending : pending[i].ref \in Session \ {s}
    <2>1. \A i \in DOMAIN pending : pending[i] \in Lock
      BY DEF IInv, TypeOK
    <2> QED BY <2>1 DEF IInv, Books, Lock
  <1>4. \A l \in held : l.ref \in Session
    BY DEF IInv, TypeOK, Lock
  <1>5. Books'
    <2>1. ASSUME NEW l \in held
          PROVE  pc'[l.ref] \in {"critical", "releasing"} /\ l = LockOf(l.ref)'
      BY <1>2, <1>4 DEF IInv, Books, LockOf
    <2> QED BY <1>2, <1>3, <2>1 DEF IInv, Books
  <1> QED BY <1>1, <1>5 DEF IInv

(* The invariant is inductive. *)
LEMMA InvStep == IInv /\ [Next]_vars => IInv'
  <1> SUFFICES ASSUME IInv, [Next]_vars PROVE IInv'
    OBVIOUS
  <1>1. ASSUME NEW s \in Session, Call(s) PROVE IInv'
    <2>1. TypeOK'
      BY <1>1 DEF Call, IInv, TypeOK
    <2>2. /\ pc[s] = "idle" /\ UNCHANGED <<held, pending>>
          /\ \A t \in Session \ {s} : pc'[t] = pc[t] /\ want'[t] = want[t]
      BY <1>1 DEF Call, IInv, TypeOK
    <2> QED BY <2>1, <2>2, SessionStepInv
  <1>2. ASSUME NEW s \in Session, Finish(s) PROVE IInv'
    <2>1. TypeOK'
      BY <1>2 DEF Finish, IInv, TypeOK
    <2>2. /\ pc[s] = "critical" /\ pc'[s] = "releasing"
          /\ want' = want /\ UNCHANGED <<held, pending>>
          /\ \A t \in Session \ {s} : pc'[t] = pc[t]
      BY <1>2 DEF Finish, Running, IInv, TypeOK
    <2> QED BY <2>1, <2>2, SessionStepInv
  <1>3. ASSUME UNCHANGED <<pc, want, held, pending>>,
               alive' \subseteq Runtime, lost' \subseteq Session
        PROVE  IInv'
    BY <1>3 DEF IInv, TypeOK, MutualExclusion, NoGrantableWaits, CanGrant, Books,
                LockOf
  <1>4. ASSUME NEW r \in Runtime, Die(r) \/ Reset(r) PROVE IInv'
    BY <1>4, <1>3 DEF Die, Reset, IInv, TypeOK
  <1>5. CASE UNCHANGED vars
    BY <1>5, <1>3 DEF vars, IInv, TypeOK
  <1> QED BY <1>1, <1>2, <1>4, <1>5, RequestInv, ReleaseInv, HolderDownInv DEF Next

(* The server's state is well typed and its table is sound in every reachable *)
(* state: whatever the sessions, deaths and resets, two locks of one name are *)
(* shared, and nothing the table allows is left waiting.                      *)
THEOREM LockSafety ==
    Spec => [](TypeOK /\ MutualExclusion /\ NoGrantableWaits)
  <1>1. IInv => TypeOK /\ MutualExclusion /\ NoGrantableWaits
    BY DEF IInv
  <1> QED BY <1>1, InitInv, InvStep, PTL DEF Spec
-----------------------------------------------------------------------------
(* No request is forgotten: a session that waits has its record in the queue. *)
NoneForgotten ==
    \A s \in Session : pc[s] = "waiting" => \E i \in DOMAIN pending : pending[i].ref = s

(* What is left of a queue after the pass has every request it did not grant. *)
LEMMA TryGrantForgetsNone ==
    ASSUME NEW locks, NEW queue, NEW answers, TryGrantPending(locks, queue, answers),
           \A s \in Session : answers[s] = "waiting" =>
                                  \E i \in DOMAIN queue : queue[i].ref = s
    PROVE  NoneForgotten'
  <1>1. PICK G \in SUBSET DOMAIN queue :
            /\ \E f \in Order(DOMAIN queue \ G) :
                   pending' = [i \in DOMAIN f |-> queue[f[i]]]
            /\ pc' = [s \in Session |-> IF \E i \in G : queue[i].ref = s
                                        THEN "critical" ELSE answers[s]]
    BY DEF TryGrantPending
  <1>2. PICK f \in Order(DOMAIN queue \ G) : pending' = [i \in DOMAIN f |-> queue[f[i]]]
    BY <1>1
  <1> SUFFICES ASSUME NEW s \in Session, pc'[s] = "waiting"
               PROVE  \E i \in DOMAIN pending' : pending'[i].ref = s
    BY DEF NoneForgotten
  <1>3. PICK k \in DOMAIN queue \ G : queue[k].ref = s
    BY <1>1
  <1>4. PICK i \in DOMAIN f : f[i] = k
    BY DEF Order
  <1> QED BY <1>2, <1>3, <1>4

LEMMA NoneForgottenStep ==
    ASSUME IInv, NoneForgotten, [Next]_vars PROVE NoneForgotten'
  <1>1. ASSUME UNCHANGED pending,
               \A s \in Session : pc'[s] = "waiting" => pc[s] = "waiting"
        PROVE  NoneForgotten'
    BY <1>1 DEF NoneForgotten
  <1>2. ASSUME NEW s \in Session, Call(s) \/ Finish(s) PROVE NoneForgotten'
    BY <1>1, <1>2 DEF Call, Finish, IInv, TypeOK
  <1>3. ASSUME NEW s \in Session, Request(s) PROVE NoneForgotten'
    <2>1. CASE /\ pc' = [pc EXCEPT ![s] = "waiting"]
               /\ pending' = Append(pending, LockOf(s))
      <3>1. pending \in Seq(Lock) /\ LockOf(s).ref = s
        BY DEF IInv, TypeOK, LockOf
      <3>2. /\ Len(pending) + 1 \in DOMAIN pending'
            /\ pending'[Len(pending) + 1].ref = s
            /\ \A i \in DOMAIN pending : i \in DOMAIN pending' /\ pending'[i] = pending[i]
        BY <2>1, <3>1
      <3>3. \A t \in Session \ {s} : pc'[t] = pc[t]
        BY <2>1 DEF IInv, TypeOK
      <3> QED BY <3>2, <3>3 DEF NoneForgotten
    <2>2. CASE UNCHANGED pending /\ pc' \in {[pc EXCEPT ![s] = "critical"],
                                             [pc EXCEPT ![s] = "idle"]}
      BY <1>1, <2>2 DEF IInv, TypeOK
    <2> QED BY <1>3, <2>1, <2>2 DEF Request
  <1>4. ASSUME NEW s \in Session, Release(s) PROVE NoneForgotten'
    <2> DEFINE answers == [pc EXCEPT ![s] = "idle"]
    <2>1. TryGrantPending(held \ Released(s), pending, answers)
      BY <1>4 DEF Release
    <2>2. \A t \in Session : answers[t] = "waiting" => pc[t] = "waiting"
      BY DEF IInv, TypeOK
    <2> HIDE DEF answers
    <2> QED BY <2>1, <2>2, TryGrantForgetsNone DEF NoneForgotten
  <1>5. ASSUME NEW s \in Session, HolderDown(s) PROVE NoneForgotten'
    <2> DEFINE kept == {l \in held : l.ref # s}
               cancelled == {i \in DOMAIN pending : pending[i].ref = s}
               answers == IF cancelled # {} THEN [pc EXCEPT ![s] = "idle"] ELSE pc
    <2>1. PICK f \in Order(DOMAIN pending \ cancelled) :
              LET queue == [i \in DOMAIN f |-> pending[f[i]]]
              IN  \/ TryGrantPending(kept, queue, answers)
                  \/ pending' = queue /\ pc' = answers
      BY <1>5 DEF HolderDown
    <2> DEFINE queue == [i \in DOMAIN f |-> pending[f[i]]]
    <2>2. ASSUME NEW t \in Session, answers[t] = "waiting"
          PROVE  \E i \in DOMAIN queue : queue[i].ref = t
      <3>1. pc[t] = "waiting"
        BY <2>2 DEF IInv, TypeOK
      <3>2. PICK k \in DOMAIN pending : pending[k].ref = t
        BY <3>1 DEF NoneForgotten
      <3>3. t # s
        BY <2>2, <3>2 DEF IInv, TypeOK
      <3>4. k \in DOMAIN pending \ cancelled
        BY <3>2, <3>3
      <3>5. PICK i \in DOMAIN f : f[i] = k
        BY <3>4 DEF Order
      <3> QED BY <3>2, <3>5
    <2>3. TryGrantPending(kept, queue, answers) \/ (pending' = queue /\ pc' = answers)
      BY <2>1
    <2> HIDE DEF kept, answers, queue
    <2>4. CASE TryGrantPending(kept, queue, answers)
      BY <2>2, <2>4, TryGrantForgetsNone
    <2>5. CASE pending' = queue /\ pc' = answers
      BY <2>2, <2>5 DEF NoneForgotten
    <2> QED BY <2>3, <2>4, <2>5
  <1>6. ASSUME NEW r \in Runtime, Die(r) \/ Reset(r) PROVE NoneForgotten'
    BY <1>1, <1>6 DEF Die, Reset
  <1>7. CASE UNCHANGED vars
    BY <1>1, <1>7 DEF vars
  <1> QED BY <1>2, <1>3, <1>4, <1>5, <1>6, <1>7 DEF Next

(* The server answers every request once: no request the table allows stays   *)
(* in the queue, a session waits exactly while its request is there, once,   *)
(* and who holds a lock was told so.                                         *)
THEOREM QueueIsExact == Spec => []QueueExact
  <1>1. Init => NoneForgotten
    BY DEF Init, NoneForgotten
  <1>2. IInv /\ NoneForgotten /\ [Next]_vars => NoneForgotten'
    BY NoneForgottenStep
  <1>3. IInv /\ NoneForgotten => QueueExact
    <2> SUFFICES ASSUME IInv, NoneForgotten PROVE WaitersAreQueued
      BY DEF QueueExact, IInv
    <2>1. \A i \in DOMAIN pending : pending[i].ref \in Session
      <3>1. \A i \in DOMAIN pending : pending[i] \in Lock
        BY DEF IInv, TypeOK
      <3> QED BY <3>1 DEF Lock
    <2>2. ASSUME NEW s \in Session, pc[s] = "waiting"
          PROVE  Cardinality({i \in DOMAIN pending : pending[i].ref = s}) = 1
      <3>1. PICK i \in DOMAIN pending : pending[i].ref = s
        BY <2>2 DEF NoneForgotten
      <3>2. {j \in DOMAIN pending : pending[j].ref = s} = {i}
        BY <3>1 DEF IInv, Books
      <3> QED BY <3>2, FS_Singleton
    <2>3. \A s \in Session : pc[s] # "waiting" => \A i \in DOMAIN pending : pending[i].ref # s
      BY DEF IInv, Books
    <2>4. \A l \in held : pc[l.ref] \in {"critical", "releasing"}
      BY DEF IInv, Books
    <2> QED BY <2>2, <2>3, <2>4 DEF WaitersAreQueued
  <1> QED BY <1>1, <1>2, <1>3, InitInv, InvStep, PTL DEF Spec
-----------------------------------------------------------------------------
(* When a pass grants an exclusive request, it grants every request for the  *)
(* name that is before it in the queue.                                      *)
LEMMA PassKeepsOrder ==
    ASSUME NEW locks, NEW queue \in Seq(Lock), NEW G \in SUBSET DOMAIN queue,
           GrantPass(locks, queue, G),
           NEW i \in DOMAIN queue, NEW j \in G, i < j,
           queue[i].name = queue[j].name, queue[j].mode = "exclusive"
    PROVE  i \in G
  <1> DEFINE before(k) == locks \cup {queue[m] : m \in {n \in G : n < k}}
  <1>1. CanGrant(before(j), queue[j].name, queue[j].mode)
    BY DEF GrantPass
  <1>2. before(i) \subseteq before(j)
    <2>1. \A n \in DOMAIN queue : n \in Nat
      OBVIOUS
    <2>2. \A n \in G : n < i => n < j
      BY <2>1
    <2> QED BY <2>2
  <1>3. {l \in before(i) : l.name = queue[i].name} = {}
    <2> HIDE DEF before
    <2> QED BY <1>1, <1>2 DEF CanGrant
  <1>4. CanGrant(before(i), queue[i].name, queue[i].mode)
    <2> HIDE DEF before
    <2> QED BY <1>3 DEF CanGrant
  <1> QED BY <1>4 DEF GrantPass

LEMMA OvertakeStep ==
    ASSUME IInv, [Next]_vars,
           NEW s \in Session, NEW t \in Session,
           pc[s] = "waiting", pc'[s] = "critical", want[s].mode = "exclusive",
           NEW i \in DOMAIN pending, NEW j \in DOMAIN pending, i < j,
           pending[i].ref = t, pending[j].ref = s, pending[i].name = pending[j].name
    PROVE  pc'[t] # "waiting"
  <1>1. /\ pending \in Seq(Lock) /\ pending[j].mode = "exclusive"
        /\ i \in Nat /\ j \in Nat
    BY DEF IInv, TypeOK, Books, LockOf
  <1>2. ASSUME NEW u \in Session, Release(u) PROVE pc'[t] # "waiting"
    <2> DEFINE answers == [pc EXCEPT ![u] = "idle"]
    <2>1. PICK G \in SUBSET DOMAIN pending :
              /\ GrantPass(held \ Released(u), pending, G)
              /\ pc' = [v \in Session |-> IF \E k \in G : pending[k].ref = v
                                          THEN "critical" ELSE answers[v]]
      BY <1>2 DEF Release, TryGrantPending
    <2>2. answers[s] # "critical"
      BY DEF IInv, TypeOK
    <2>3. j \in G
      BY <2>1, <2>2 DEF IInv, Books
    <2>4. i \in G
      BY <1>1, <2>1, <2>3, PassKeepsOrder
    <2> QED BY <2>1, <2>4
  <1>3. ASSUME NEW u \in Session, HolderDown(u) PROVE pc'[t] # "waiting"
    <2> DEFINE kept == {l \in held : l.ref # u}
               cancelled == {k \in DOMAIN pending : pending[k].ref = u}
               answers == IF cancelled # {} THEN [pc EXCEPT ![u] = "idle"] ELSE pc
    <2>1. PICK f \in Order(DOMAIN pending \ cancelled) :
              LET queue == [k \in DOMAIN f |-> pending[f[k]]]
              IN  TryGrantPending(kept, queue, answers) \/ pc' = answers
      BY <1>3 DEF HolderDown
    <2> DEFINE queue == [k \in DOMAIN f |-> pending[f[k]]]
    <2>2. answers[s] # "critical"
      BY DEF IInv, TypeOK
    <2>3. TryGrantPending(kept, queue, answers)
      BY <2>1, <2>2
    <2>4. PICK G \in SUBSET DOMAIN queue :
              /\ GrantPass(kept, queue, G)
              /\ pc' = [v \in Session |-> IF \E k \in G : queue[k].ref = v
                                          THEN "critical" ELSE answers[v]]
      BY <2>3 DEF TryGrantPending
    <2>5. PICK n \in G : queue[n].ref = s
      BY <2>2, <2>4
    <2>6. /\ DOMAIN queue = DOMAIN f /\ DOMAIN pending \ cancelled \in SUBSET DOMAIN pending
          /\ queue \in Seq(Lock)
          /\ \A k \in DOMAIN f : f[k] \in DOMAIN pending \ cancelled /\ queue[k] = pending[f[k]]
      <3>1. DOMAIN pending \ cancelled \in SUBSET DOMAIN pending
        OBVIOUS
      <3> HIDE DEF cancelled
      <3> QED BY <1>1, <3>1, FilteredQueue
    <2>7. f[n] = j /\ n \in DOMAIN f
      BY <2>5, <2>6 DEF IInv, Books
    <2>8. CASE t = u
      <3>1. answers[t] = "idle"
        BY <2>8 DEF IInv, TypeOK
      <3> QED BY <2>4, <3>1
    <2>9. CASE t # u
      <3>1. i \in DOMAIN pending \ cancelled
        BY <2>9
      <3>2. PICK m \in DOMAIN f : f[m] = i
        BY <3>1 DEF Order
      <3>3. m < n
        <4>1. m \in Nat /\ n \in Nat
          BY <2>6, <2>7
        <4>2. \A a, b \in DOMAIN f : a < b => f[a] < f[b]
          BY DEF Order
        <4>3. ~(n < m) /\ m # n
          BY <1>1, <2>7, <3>2, <4>2
        <4> QED BY <4>1, <4>3
      <3>4. queue[m].name = queue[n].name /\ queue[n].mode = "exclusive" /\ queue[m].ref = t
        BY <1>1, <2>6, <2>7, <3>2
      <3> HIDE DEF queue, kept, answers
      <3>5. m \in G
        BY <2>4, <2>6, <3>2, <3>3, <3>4, PassKeepsOrder
      <3> QED BY <2>4, <3>4, <3>5
    <2> QED BY <2>8, <2>9
  <1>4. ASSUME NEW u \in Session, Call(u) \/ Request(u) \/ Finish(u) PROVE FALSE
    BY <1>4 DEF Call, Request, Finish, Running, IInv, TypeOK
  <1>5. ASSUME NEW r \in Runtime, Die(r) \/ Reset(r) PROVE FALSE
    BY <1>5 DEF Die, Reset
  <1>6. CASE UNCHANGED vars
    BY <1>6 DEF vars
  <1> QED BY <1>2, <1>3, <1>4, <1>5, <1>6 DEF Next

(* The queue is fair to exclusive requests: none is granted while a request  *)
(* for its name that was queued before it is left waiting.                   *)
THEOREM ExclusiveInOrder == Spec => NoExclusiveOvertake
  <1> DEFINE InOrder ==
         \A s, t \in Session :
            /\ pc[s] = "waiting" /\ pc'[s] = "critical"
            /\ want[s].mode = "exclusive"
            /\ \E i, j \in DOMAIN pending :
                  /\ i < j /\ pending[i].ref = t /\ pending[j].ref = s
                  /\ pending[i].name = pending[j].name
            => pc'[t] # "waiting"
  <1>1. IInv /\ [Next]_vars => InOrder
    BY OvertakeStep
  <1>2. InOrder => [InOrder]_vars
    OBVIOUS
  <1> QED BY <1>1, InitInv, InvStep, PTL DEF Spec, NoExclusiveOvertake
-----------------------------------------------------------------------------
(* A hand-over seen from the table: the locks given up and those granted are *)
(* disjoint, and only a name that lost a lock gains one.                     *)
LEMMA HandOverStep ==
    ASSUME IInv, IInv', NEW gone \in SUBSET held, NEW queue \in Seq(Lock),
           NEW answers,
           \A l, m \in gone : l.holder = m.holder /\ l.name = m.name,
           \A i \in DOMAIN queue : \E j \in DOMAIN pending : queue[i] = pending[j],
           TryGrantPending(held \ gone, queue, answers)
    PROVE  [Table!Next]_held
  <1> DEFINE locks == held \ gone
  <1>1. PICK G \in SUBSET DOMAIN queue :
            GrantPass(locks, queue, G) /\ held' = locks \cup {queue[i] : i \in G}
    BY DEF TryGrantPending
  <1> DEFINE fresh == {queue[i] : i \in G}
  <1>2. \A i \in G : CanGrant(locks, queue[i].name, queue[i].mode)
    <2>1. \A l, m \in locks : l # m /\ l.name = m.name =>
                                  l.mode = "shared" /\ m.mode = "shared"
      BY DEF IInv, MutualExclusion
    <2>2. locks \in SUBSET Lock
      BY DEF IInv, TypeOK
    <2> HIDE DEF locks
    <2> QED BY <1>1, <2>1, <2>2, GrantPassSound
  <1>3. \A i \in G : \E l \in gone : l.name = queue[i].name
    <2> SUFFICES ASSUME NEW i \in G, \A l \in gone : l.name # queue[i].name
                 PROVE  FALSE
      OBVIOUS
    <2>1. CanGrant(held, queue[i].name, queue[i].mode)
      BY <1>2 DEF CanGrant
    <2> QED BY <2>1 DEF IInv, NoGrantableWaits
  <1>4. fresh \cap held = {}
    <2> SUFFICES ASSUME NEW i \in G, queue[i] \in held PROVE FALSE
      OBVIOUS
    <2>1. PICK j \in DOMAIN pending : queue[i] = pending[j]
      OBVIOUS
    <2> QED BY <2>1 DEF IInv, Books
  <1>5. held \ held' = gone /\ held' \ held = fresh
    BY <1>1, <1>4
  <1>6. held' \subseteq Lock /\ Table!Compatible(held')
    BY DEF IInv, TypeOK, MutualExclusion, Table!Compatible
  <1>7. CASE gone = {}
    BY <1>3, <1>5, <1>7
  <1>8. CASE gone # {}
    <2>1. \A l \in fresh, m \in gone : l.name = m.name
      BY <1>3
    <2> HIDE DEF fresh
    <2> QED BY <1>5, <1>6, <1>8, <2>1 DEF Table!Next, Table!HandOver
  <1> QED BY <1>7, <1>8

(* Each step of the server is a step of the abstract table or a stutter. *)
LEMMA TableStep == IInv /\ IInv' /\ [Next]_vars => [Table!Next]_held
  <1> SUFFICES ASSUME IInv, IInv', [Next]_vars PROVE [Table!Next]_held
    OBVIOUS
  <1>1. ASSUME NEW s \in Session, Request(s) PROVE [Table!Next]_held
    <2>1. held' = held \/ held' = held \cup {LockOf(s)}
      BY <1>1 DEF Request
    <2>2. LockOf(s) \in Lock
      BY LockAssumption DEF LockOf, Lock, Want, IInv, TypeOK
    <2>3. held' \subseteq Lock /\ Table!Compatible(held')
      BY DEF IInv, TypeOK, MutualExclusion, Table!Compatible
    <2> QED BY <2>1, <2>2, <2>3 DEF Table!Next, Table!Grant
  <1>2. ASSUME NEW s \in Session, Release(s) PROVE [Table!Next]_held
    <2>1. /\ TryGrantPending(held \ Released(s), pending, [pc EXCEPT ![s] = "idle"])
          /\ Released(s) \in SUBSET held
          /\ \A l, m \in Released(s) : l.holder = m.holder /\ l.name = m.name
      BY <1>2 DEF Release, Released
    <2>2. pending \in Seq(Lock)
      BY DEF IInv, TypeOK
    <2> QED BY <2>1, <2>2, HandOverStep
  <1>3. ASSUME NEW s \in Session, HolderDown(s) PROVE [Table!Next]_held
    <2> DEFINE gone == {l \in held : l.ref = s}
               cancelled == {i \in DOMAIN pending : pending[i].ref = s}
               answers == IF cancelled # {} THEN [pc EXCEPT ![s] = "idle"] ELSE pc
    <2>1. {l \in held : l.ref # s} = held \ gone
      OBVIOUS
    <2>2. PICK f \in Order(DOMAIN pending \ cancelled) :
              \/ held' = held
              \/ TryGrantPending(held \ gone, [i \in DOMAIN f |-> pending[f[i]]],
                                 answers)
      BY <1>3, <2>1 DEF HolderDown
    <2>3. /\ [i \in DOMAIN f |-> pending[f[i]]] \in Seq(Lock)
          /\ \A i \in DOMAIN f : f[i] \in DOMAIN pending
      <3>1. pending \in Seq(Lock)
        BY DEF IInv, TypeOK
      <3>2. DOMAIN pending \ cancelled \in SUBSET DOMAIN pending
        OBVIOUS
      <3> HIDE DEF cancelled
      <3> QED BY <3>1, <3>2, FilteredQueue
    <2>4. \A l, m \in gone : l.holder = m.holder /\ l.name = m.name
      BY DEF IInv, Books
    <2> DEFINE queue == [i \in DOMAIN f |-> pending[f[i]]]
    <2>5. \A i \in DOMAIN queue : \E j \in DOMAIN pending : queue[i] = pending[j]
      BY <2>3
    <2>6. gone \in SUBSET held /\ queue \in Seq(Lock)
      BY <2>3
    <2>7. held' = held \/ TryGrantPending(held \ gone, queue, answers)
      BY <2>2
    <2> HIDE DEF gone, queue, answers
    <2> QED BY <2>4, <2>5, <2>6, <2>7, HandOverStep
  <1>4. CASE UNCHANGED held
    BY <1>4
  <1> QED BY <1>1, <1>2, <1>3, <1>4 DEF Next, vars, Call, Finish, Die, Reset

(* The server implements the table: one holder at a time gives up locks of   *)
(* one name, and only that name is granted in the same step.                 *)
THEOREM ServerImplementsTable == Spec => ImplementsLockTable
  <1>1. Init => Table!Init
    BY DEF Init, Table!Init
  <1> QED BY <1>1, InitInv, InvStep, TableStep, PTL
          DEF Spec, ImplementsLockTable, Table!Spec
-----------------------------------------------------------------------------
OneSessionPerRuntime == \A s, t \in Session : Owner[s] = Owner[t] => s = t

(* A session that runs its callback has its lock in the table. *)
RunningHolds == \A s \in Session : Running(s) => LockOf(s) \in held

(* A pass of try_grant_pending puts the lock of every session it wakes in the *)
(* table and takes none away.                                                *)
LEMMA TryGrantHolds ==
    ASSUME IInv, UNCHANGED want, NEW locks, NEW queue, NEW answers,
           \A i \in DOMAIN queue : \E j \in DOMAIN pending : queue[i] = pending[j],
           TryGrantPending(locks, queue, answers),
           NEW s \in Session, pc'[s] = "critical"
    PROVE  /\ locks \subseteq held'
           /\ LockOf(s)' \in held' \/ answers[s] = "critical"
  <1>1. PICK G \in SUBSET DOMAIN queue :
            /\ held' = locks \cup {queue[i] : i \in G}
            /\ pc' = [t \in Session |-> IF \E i \in G : queue[i].ref = t
                                        THEN "critical" ELSE answers[t]]
    BY DEF TryGrantPending
  <1>2. ASSUME NEW i \in G, queue[i].ref = s PROVE LockOf(s)' \in held'
    <2>1. queue[i] = LockOf(s)
      BY <1>2 DEF IInv, Books
    <2> QED BY <1>1, <2>1 DEF LockOf
  <1> QED BY <1>1, <1>2

LEMMA RunningHoldsStep ==
    ASSUME OneSessionPerRuntime, IInv, RunningHolds, [Next]_vars
    PROVE  RunningHolds'
  <1>1. ASSUME UNCHANGED <<want, held>>,
               \A s \in Session : Running(s)' => Running(s)
        PROVE  RunningHolds'
    BY <1>1 DEF RunningHolds, LockOf
  <1>2. ASSUME NEW t \in Session, Call(t) PROVE RunningHolds'
    BY <1>2 DEF Call, RunningHolds, LockOf, Running, Live, IInv, TypeOK
  <1>3. ASSUME NEW t \in Session, Finish(t) PROVE RunningHolds'
    BY <1>3, <1>1 DEF Finish, Running, Live, IInv, TypeOK
  <1>4. ASSUME NEW t \in Session, Request(t) PROVE RunningHolds'
    BY <1>4 DEF Request, RunningHolds, LockOf, Running, Live, IInv, TypeOK
  <1>5. ASSUME NEW t \in Session, Release(t) PROVE RunningHolds'
    <2> SUFFICES ASSUME NEW s \in Session, Running(s)' PROVE LockOf(s)' \in held'
      BY DEF RunningHolds
    <2> DEFINE answers == [pc EXCEPT ![t] = "idle"]
    <2>1. /\ TryGrantPending(held \ Released(t), pending, answers)
          /\ pc'[s] = "critical" /\ UNCHANGED <<alive, lost, want>>
      BY <1>5 DEF Release, Running
    <2> HIDE DEF answers
    <2>2. /\ held \ Released(t) \subseteq held'
          /\ LockOf(s)' \in held' \/ answers[s] = "critical"
      BY <2>1, TryGrantHolds
    <2>3. CASE answers[s] = "critical"
      <3>1. s # t /\ pc[s] = "critical"
        BY <2>3 DEF answers, IInv, TypeOK
      <3>2. Owner[s] # Owner[t]
        BY <3>1 DEF OneSessionPerRuntime
      <3>3. LockOf(s) \in held /\ LockOf(s) \notin Released(t)
        BY <2>1, <3>1, <3>2 DEF RunningHolds, Running, Live, Released, LockOf
      <3> QED BY <2>1, <2>2, <3>3 DEF LockOf
    <2> QED BY <2>2, <2>3
  <1>6. ASSUME NEW t \in Session, HolderDown(t) PROVE RunningHolds'
    <2> SUFFICES ASSUME NEW s \in Session, Running(s)' PROVE LockOf(s)' \in held'
      BY DEF RunningHolds
    <2> DEFINE kept == {l \in held : l.ref # t}
               cancelled == {i \in DOMAIN pending : pending[i].ref = t}
               answers == IF cancelled # {} THEN [pc EXCEPT ![t] = "idle"] ELSE pc
    <2>1. PICK f \in Order(DOMAIN pending \ cancelled) :
              \/ held' = held /\ pc' = answers
              \/ TryGrantPending(kept, [i \in DOMAIN f |-> pending[f[i]]], answers)
      BY <1>6 DEF HolderDown
    <2> DEFINE queue == [i \in DOMAIN f |-> pending[f[i]]]
    <2>2. \A i \in DOMAIN queue : \E j \in DOMAIN pending : queue[i] = pending[j]
      BY DEF Order
    <2>3. /\ UNCHANGED <<alive, lost, want>> /\ pc'[s] = "critical" /\ Live(s)
          /\ Owner[t] \notin alive /\ s # t
      BY <1>6 DEF HolderDown, Running, Live
    <2>4. answers[s] = "critical" => pc[s] = "critical"
      BY <2>3 DEF IInv, TypeOK
    <2>5. pc[s] = "critical" => LockOf(s) \in kept
      BY <2>3 DEF RunningHolds, Running, LockOf
    <2>6. LockOf(s)' = LockOf(s) /\ kept \subseteq held
      BY <2>3 DEF LockOf
    <2>7. CASE held' = held /\ pc' = answers
      BY <2>3, <2>4, <2>5, <2>6, <2>7
    <2>8. CASE TryGrantPending(kept, queue, answers)
      <3> HIDE DEF kept, queue, answers
      <3>1. kept \subseteq held' /\ (LockOf(s)' \in held' \/ answers[s] = "critical")
        BY <2>2, <2>3, <2>8, TryGrantHolds
      <3> QED BY <2>4, <2>5, <2>6, <3>1
    <2> QED BY <2>1, <2>7, <2>8
  <1>7. ASSUME NEW r \in Runtime, Die(r) \/ Reset(r) PROVE RunningHolds'
    BY <1>7, <1>1 DEF Die, Reset, Running, Live
  <1>8. CASE UNCHANGED vars
    BY <1>8, <1>1 DEF vars, Running, Live
  <1> QED BY <1>2, <1>3, <1>4, <1>5, <1>6, <1>7, <1>8 DEF Next

(* navigator.locks keeps its promise to JavaScript as long as a runtime has  *)
(* one session at a time: no callback runs beside an exclusive one.  With    *)
(* overlapping sessions in one runtime it does not (run lock_overlap).       *)
THEOREM CallbacksExclude ==
    ASSUME OneSessionPerRuntime PROVE Spec => []CallbackExclusion
  <1>1. Init => RunningHolds
    BY DEF Init, RunningHolds, Running
  <1>2. IInv /\ RunningHolds /\ [Next]_vars => RunningHolds'
    BY RunningHoldsStep
  <1>3. IInv /\ RunningHolds => CallbackExclusion
    <2> SUFFICES ASSUME IInv, RunningHolds,
                        NEW s \in Session, NEW t \in Session, s # t,
                        Running(s), Running(t), want[s].name = want[t].name
                 PROVE  want[s].mode = "shared" /\ want[t].mode = "shared"
      BY DEF CallbackExclusion
    <2>1. LockOf(s) \in held /\ LockOf(t) \in held /\ LockOf(s) # LockOf(t)
      BY DEF RunningHolds, LockOf
    <2> QED BY <2>1 DEF IInv, MutualExclusion, LockOf
  <1> QED BY <1>1, <1>2, <1>3, InitInv, InvStep, PTL DEF Spec
=============================================================================
