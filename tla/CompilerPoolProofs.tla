-------------------------- MODULE CompilerPoolProofs --------------------------
(***************************************************************************)
(* Proofs about CompilerPool: its books agree, a drained pool is idle, and *)
(* an evaluation runs the code of its lease.                               *)
(*                                                                         *)
(* The books are a value here, the tuple of what `BookOf` relates, and the *)
(* handlers are made of few operations on them: issue a lease, add a       *)
(* waiter, retire idle slots, start a compilation, release, drop a waiter, *)
(* serve the waiters, cancel compilations.  One lemma for each operation   *)
(* says that it keeps the books; the proof for a handler composes them.    *)
(***************************************************************************)
EXTENDS CompilerPool, FiniteSetTheorems, TLAPS

-----------------------------------------------------------------------------
(* The books, of given slots sl, key index ix, recency rec, leases ls,        *)
(* monitors mo, tasks tk, in the life ep of the pool.                         *)
Keyed(slot) == slot.status \in {"compiling", "ready"}

SlotsOf(sl) == /\ sl \in [Module -> Slot]
               /\ \A m \in Module : IF Keyed(sl[m]) THEN sl[m].key \in Key
                                    ELSE sl[m].key = NoKey

TypedOf(ix, rec, ls, mo, tk) ==
    /\ DOMAIN ix \subseteq Key /\ \A k \in DOMAIN ix : ix[k] \in Module
    /\ rec \subseteq Module \X Module
    /\ DOMAIN ls \subseteq Client /\ \A c \in DOMAIN ls : ls[c] \in Lease
    /\ DOMAIN mo \subseteq Client
    /\ \A c \in DOMAIN mo : mo[c] \in [for : {"waiter", "lease"}, module : Module]
    /\ DOMAIN tk \subseteq Ref /\ \A r \in DOMAIN tk : tk[r] \in Module

IndexOf(sl, ix) ==
    \A k \in Key, m \in Module :
        (k \in DOMAIN ix /\ ix[k] = m) <=> (Keyed(sl[m]) /\ sl[m].key = k)

PinsOf(sl, ls, ep) ==
    \A c \in DOMAIN ls :
        LET slot == sl[ls[c].module]
        IN  /\ slot.status = "ready" /\ slot.key = ls[c].key
            /\ slot.generation = ls[c].generation /\ ls[c].epoch = ep

Owners(ls, m) == {c \in DOMAIN ls : ls[c].module = m}
CountsOf(sl, ls) == \A m \in Module : sl[m].count = Cardinality(Owners(ls, m))

TasksOf(sl, tk) ==
    /\ \A m \in Module : sl[m].status = "compiling" <=> \E r \in DOMAIN tk : tk[r] = m
    /\ \A r, q \in DOMAIN tk : tk[r] = tk[q] => r = q

MonitorsOf(sl, ls, mo) ==
    /\ \A m \in Module : sl[m].waiters # {} => sl[m].status = "compiling"
    /\ \A c \in Client, m \in Module :
          /\ c \in sl[m].waiters <=> (c \in DOMAIN mo /\ mo[c] = Waiting(m))
          /\ (c \in DOMAIN ls /\ ls[c].module = m)
                <=> (c \in DOMAIN mo /\ mo[c] = Leasing(m))

OrderOf(sl, rec) ==
    /\ Listed(rec) = {m \in Module : sl[m].status = "ready"}
    /\ \A m, n \in Listed(rec) :
          /\ <<m, n>> \in rec \/ <<n, m>> \in rec
          /\ <<m, n>> \in rec /\ <<n, m>> \in rec => m = n
    /\ \A l, m, n \in Listed(rec) :
          <<l, m>> \in rec /\ <<m, n>> \in rec => <<l, n>> \in rec

BookOf(sl, ix, rec, ls, mo, tk, ep) ==
    /\ SlotsOf(sl) /\ TypedOf(ix, rec, ls, mo, tk)
    /\ IndexOf(sl, ix) /\ PinsOf(sl, ls, ep) /\ CountsOf(sl, ls)
    /\ TasksOf(sl, tk) /\ MonitorsOf(sl, ls, mo) /\ OrderOf(sl, rec)

-----------------------------------------------------------------------------
(* A listed module is comparable with itself, so its own pair is in the order; *)
(* Last and Except keep that it is an order.                                   *)
IsOrder(rec) ==
    /\ rec \subseteq Module \X Module
    /\ \A m, n \in Listed(rec) :
          /\ <<m, n>> \in rec \/ <<n, m>> \in rec
          /\ <<m, n>> \in rec /\ <<n, m>> \in rec => m = n
    /\ \A l, m, n \in Listed(rec) :
          <<l, m>> \in rec /\ <<m, n>> \in rec => <<l, n>> \in rec

LEMMA ListedIs ==
    ASSUME NEW rec, rec \subseteq Module \X Module, NEW x
    PROVE  x \in Listed(rec) <=> x \in Module /\ \E y \in Module : <<x, y>> \in rec
<1>1. \A pair \in rec : /\ pair = <<pair[1], pair[2]>>
                        /\ pair[1] \in Module /\ pair[2] \in Module
  <2>1. \A pair \in Module \X Module : /\ pair = <<pair[1], pair[2]>>
                                     /\ pair[1] \in Module /\ pair[2] \in Module
    OBVIOUS
  <2> QED BY <2>1
<1>2. ASSUME x \in Listed(rec) PROVE x \in Module /\ \E y \in Module : <<x, y>> \in rec
  <2>1. PICK pair \in rec : x = pair[1] BY <1>2 DEF Listed
  <2>2. <<x, pair[2]>> \in rec BY <2>1, <1>1
  <2> QED BY <2>1, <2>2, <1>1
<1>3. ASSUME NEW y \in Module, <<x, y>> \in rec PROVE x \in Listed(rec)
  <2>1. <<x, y>>[1] = x OBVIOUS
  <2> QED BY <1>3, <2>1 DEF Listed
<1> QED BY <1>2, <1>3

LEMMA ExceptIs ==
    ASSUME NEW rec, rec \subseteq Module \X Module, NEW xs, NEW x, NEW y
    PROVE  <<x, y>> \in Except(rec, xs) <=> <<x, y>> \in rec /\ x \notin xs /\ y \notin xs
BY DEF Except

LEMMA ExceptOrder ==
    ASSUME NEW rec, IsOrder(rec), NEW xs
    PROVE  IsOrder(Except(rec, xs)) /\ Listed(Except(rec, xs)) = Listed(rec) \ xs
<1>1. Except(rec, xs) \subseteq Module \X Module BY DEF Except, IsOrder
<1>2. \A x \in Listed(rec) : <<x, x>> \in rec BY DEF IsOrder
<1>3. Listed(Except(rec, xs)) = Listed(rec) \ xs
  <2>1. ASSUME NEW x, x \in Listed(Except(rec, xs)) PROVE x \in Listed(rec) \ xs
    <3>1. PICK y \in Module : <<x, y>> \in Except(rec, xs) BY <1>1, <2>1, ListedIs
    <3>2. <<x, y>> \in rec /\ x \notin xs BY <3>1, ExceptIs DEF IsOrder
    <3> QED BY <3>2, ListedIs DEF IsOrder
  <2>2. ASSUME NEW x, x \in Listed(rec) \ xs PROVE x \in Listed(Except(rec, xs))
    <3>1. <<x, x>> \in Except(rec, xs) BY <1>2, <2>2, ExceptIs DEF IsOrder
    <3> QED BY <3>1, <1>1, ListedIs
  <2> QED BY <2>1, <2>2
<1>4. \A x, y : <<x, y>> \in Except(rec, xs) <=> <<x, y>> \in rec /\ x \notin xs /\ y \notin xs
  BY ExceptIs DEF IsOrder
<1> QED BY <1>1, <1>3, <1>4 DEF IsOrder

LEMMA LastOrder ==
    ASSUME NEW rec, IsOrder(rec), NEW x \in Module
    PROVE  IsOrder(Last(rec, x)) /\ Listed(Last(rec, x)) = Listed(rec) \cup {x}
<1> DEFINE rest == Except(rec, {x})
<1>1. IsOrder(rest) /\ Listed(rest) = Listed(rec) \ {x} BY ExceptOrder
<1>2. Listed(rec) \subseteq Module BY ListedIs DEF IsOrder
<1>3. Last(rec, x) \subseteq Module \X Module BY <1>1, <1>2 DEF Last, IsOrder
<1> HIDE DEF rest
<1>4. \A y, z : <<y, z>> \in Last(rec, x)
                    <=> <<y, z>> \in rest \/ (y \in Listed(rec) \cup {x} /\ z = x)
  BY DEF Last, rest
<1>5. \A y, z : <<y, z>> \in rest => y \in Listed(rec) \ {x} /\ z # x
  <2>1. \A y, z : <<y, z>> \in rest => y \in Listed(rest) BY <1>1, ListedIs DEF IsOrder
  <2>2. \A y, z : <<y, z>> \in rest => z # x BY ExceptIs DEF rest, IsOrder
  <2> QED BY <2>1, <2>2, <1>1
<1>6. Listed(Last(rec, x)) = Listed(rec) \cup {x}
  <2>1. ASSUME NEW y, y \in Listed(Last(rec, x)) PROVE y \in Listed(rec) \cup {x}
    <3>1. PICK z \in Module : <<y, z>> \in Last(rec, x) BY <1>3, <2>1, ListedIs
    <3> QED BY <3>1, <1>4, <1>5
  <2>2. ASSUME NEW y \in Listed(rec) \cup {x} PROVE y \in Listed(Last(rec, x))
    <3>1. <<y, x>> \in Last(rec, x) BY <1>4
    <3> QED BY <3>1, <1>3, ListedIs
  <2> QED BY <2>1, <2>2
<1> QED BY <1>1, <1>3, <1>4, <1>5, <1>6 DEF IsOrder


LEMMA OrderIs ==
    ASSUME NEW sl, NEW rec
    PROVE  /\ OrderOf(sl, rec) /\ rec \subseteq Module \X Module => IsOrder(rec)
           /\ IsOrder(rec) /\ Listed(rec) = {m \in Module : sl[m].status = "ready"}
                => OrderOf(sl, rec) /\ rec \subseteq Module \X Module
BY DEF OrderOf, IsOrder

-----------------------------------------------------------------------------
(* issue_lease: one lease more on a ready module. *)
LEMMA OwnersAreFinite ==
    ASSUME NEW ls, DOMAIN ls \subseteq Client, NEW m
    PROVE  IsFiniteSet(Owners(ls, m)) /\ Cardinality(Owners(ls, m)) \in Nat
BY PoolAssumption, FS_Subset, FS_CardinalityType DEF Owners

LEMMA LeaseIssued ==
    ASSUME NEW sl, NEW ix, NEW rec, NEW ls, NEW mo, NEW tk, NEW ep,
           BookOf(sl, ix, rec, ls, mo, tk, ep),
           NEW c \in Client, c \notin DOMAIN mo,
           NEW m \in Module, sl[m].status = "ready",
           NEW l \in Lease, l.module = m, l.key = sl[m].key, l.epoch = ep,
           l.generation = sl[m].generation
    PROVE  BookOf([sl EXCEPT ![m].count = @ + 1], ix, Last(rec, m), Put(ls, c, l),
                  Put(mo, c, Leasing(m)), tk, ep)
<1> DEFINE sl2 == [sl EXCEPT ![m].count = @ + 1]
           ls2 == Put(ls, c, l)
           mo2 == Put(mo, c, Leasing(m))
           rec2 == Last(rec, m)
<1>1. /\ sl2 \in [Module -> Slot]
      /\ \A n \in Module : /\ sl2[n].status = sl[n].status /\ sl2[n].key = sl[n].key
                           /\ sl2[n].generation = sl[n].generation
                           /\ sl2[n].waiters = sl[n].waiters
                           /\ sl2[n].count = IF n = m THEN sl[n].count + 1 ELSE sl[n].count
  BY DEF BookOf, SlotsOf, Slot
<1>2. /\ DOMAIN ls2 = DOMAIN ls \cup {c} /\ ls2[c] = l
      /\ \A d \in DOMAIN ls : d # c => ls2[d] = ls[d]
  BY DEF Put
<1>3. /\ DOMAIN mo2 = DOMAIN mo \cup {c} /\ mo2[c] = Leasing(m)
      /\ \A d \in DOMAIN mo : d # c => mo2[d] = mo[d]
  BY DEF Put
<1>4. c \notin DOMAIN ls
  <2>1. SUFFICES ASSUME c \in DOMAIN ls PROVE FALSE OBVIOUS
  <2>2. ls[c].module \in Module BY <2>1 DEF BookOf, TypedOf, Lease
  <2> QED BY <2>1, <2>2 DEF BookOf, MonitorsOf
<1>5. IsOrder(rec2) /\ Listed(rec2) = Listed(rec) \cup {m} BY OrderIs, LastOrder DEF BookOf, TypedOf
<1>6. OrderOf(sl2, rec2) /\ rec2 \subseteq Module \X Module
  BY <1>1, <1>5, OrderIs DEF BookOf, OrderOf
<1> HIDE DEF sl2, ls2, mo2, rec2
<1>7. SlotsOf(sl2) BY <1>1 DEF BookOf, SlotsOf, Keyed
<1>8. TypedOf(ix, rec2, ls2, mo2, tk)
  BY <1>2, <1>3, <1>6 DEF BookOf, TypedOf, Leasing
<1>9. IndexOf(sl2, ix) BY <1>1 DEF BookOf, IndexOf, Keyed
<1>10. PinsOf(sl2, ls2, ep)
  BY <1>1, <1>2 DEF BookOf, PinsOf, TypedOf, Lease
<1>11. CountsOf(sl2, ls2)
  <2> SUFFICES ASSUME NEW n \in Module PROVE sl2[n].count = Cardinality(Owners(ls2, n))
    BY DEF CountsOf
  <2>1. sl[n].count = Cardinality(Owners(ls, n)) BY DEF BookOf, CountsOf
  <2>2. CASE n = m
    <3>1. Owners(ls2, n) = Owners(ls, n) \cup {c} BY <1>2, <1>4, <2>2 DEF Owners
    <3>2. IsFiniteSet(Owners(ls, n)) BY OwnersAreFinite DEF BookOf, TypedOf
    <3>3. c \notin Owners(ls, n) BY <1>4 DEF Owners
    <3>4. Cardinality(Owners(ls, n) \cup {c}) = Cardinality(Owners(ls, n)) + 1
      BY <3>2, <3>3, FS_AddElement
    <3> QED BY <3>1, <3>4, <2>1, <2>2, <1>1
  <2>3. CASE n # m
    <3>1. Owners(ls2, n) = Owners(ls, n) BY <1>2, <1>4, <2>3 DEF Owners
    <3> QED BY <3>1, <2>1, <2>3, <1>1
  <2> QED BY <2>2, <2>3
<1>12. TasksOf(sl2, tk) BY <1>1 DEF BookOf, TasksOf
<1>13. MonitorsOf(sl2, ls2, mo2)
  <2>1. \A n \in Module : sl2[n].waiters # {} => sl2[n].status = "compiling"
    BY <1>1 DEF BookOf, MonitorsOf
  <2>2. ASSUME NEW d \in Client, NEW n \in Module
        PROVE  /\ d \in sl2[n].waiters <=> (d \in DOMAIN mo2 /\ mo2[d] = Waiting(n))
               /\ (d \in DOMAIN ls2 /\ ls2[d].module = n)
                     <=> (d \in DOMAIN mo2 /\ mo2[d] = Leasing(n))
    <3>1. /\ d \in sl[n].waiters <=> (d \in DOMAIN mo /\ mo[d] = Waiting(n))
          /\ (d \in DOMAIN ls /\ ls[d].module = n)
                <=> (d \in DOMAIN mo /\ mo[d] = Leasing(n))
      BY DEF BookOf, MonitorsOf
    <3>2. Leasing(m) # Waiting(n) /\ (Leasing(m) = Leasing(n) <=> m = n)
      BY DEF Leasing, Waiting
    <3>3. CASE d = c BY <3>1, <3>2, <3>3, <1>1, <1>2, <1>3
    <3>4. CASE d # c BY <3>1, <3>4, <1>1, <1>2, <1>3
    <3> QED BY <3>3, <3>4
  <2> QED BY <2>1, <2>2 DEF MonitorsOf
<1> QED BY <1>6, <1>7, <1>8, <1>9, <1>10, <1>11, <1>12, <1>13 DEF BookOf, sl2, ls2, mo2, rec2

(* add_waiter: one waiter more for a compilation. *)
LEMMA WaiterAdded ==
    ASSUME NEW sl, NEW ix, NEW rec, NEW ls, NEW mo, NEW tk, NEW ep,
           BookOf(sl, ix, rec, ls, mo, tk, ep),
           NEW c \in Client, c \notin DOMAIN mo,
           NEW m \in Module, sl[m].status = "compiling"
    PROVE  BookOf([sl EXCEPT ![m].waiters = @ \cup {c}], ix, rec, ls,
                  Put(mo, c, Waiting(m)), tk, ep)
<1> DEFINE sl2 == [sl EXCEPT ![m].waiters = @ \cup {c}]
           mo2 == Put(mo, c, Waiting(m))
<1>1. /\ sl2 \in [Module -> Slot]
      /\ \A n \in Module : /\ sl2[n].status = sl[n].status /\ sl2[n].key = sl[n].key
                           /\ sl2[n].generation = sl[n].generation
                           /\ sl2[n].count = sl[n].count
      /\ sl2[m].waiters = sl[m].waiters \cup {c}
      /\ \A n \in Module : n # m => sl2[n].waiters = sl[n].waiters
  BY DEF BookOf, SlotsOf, Slot
<1>11. \A n \in Module : /\ sl2[n].status = sl[n].status /\ sl2[n].key = sl[n].key
                        /\ sl2[n].generation = sl[n].generation
                        /\ sl2[n].count = sl[n].count
  BY <1>1
<1>2. /\ DOMAIN mo2 = DOMAIN mo \cup {c} /\ mo2[c] = Waiting(m)
      /\ \A d \in DOMAIN mo : d # c => mo2[d] = mo[d]
  BY DEF Put
<1> HIDE DEF sl2, mo2
<1>3. SlotsOf(sl2) BY <1>11, <1>1 DEF BookOf, SlotsOf, Keyed
<1>4. TypedOf(ix, rec, ls, mo2, tk) BY <1>2 DEF BookOf, TypedOf, Waiting
<1>5. IndexOf(sl2, ix) BY <1>11 DEF BookOf, IndexOf, Keyed
<1>6. PinsOf(sl2, ls, ep) BY <1>11 DEF BookOf, PinsOf, TypedOf, Lease
<1>7. CountsOf(sl2, ls) BY <1>11 DEF BookOf, CountsOf
<1>8. TasksOf(sl2, tk) BY <1>11 DEF BookOf, TasksOf
<1>9. OrderOf(sl2, rec) BY <1>11 DEF BookOf, OrderOf
<1>10. MonitorsOf(sl2, ls, mo2)
  <2>1. \A n \in Module : sl2[n].waiters # {} => sl2[n].status = "compiling"
    BY <1>1 DEF BookOf, MonitorsOf
  <2>2. ASSUME NEW d \in Client, NEW n \in Module
        PROVE  /\ d \in sl2[n].waiters <=> (d \in DOMAIN mo2 /\ mo2[d] = Waiting(n))
               /\ (d \in DOMAIN ls /\ ls[d].module = n)
                     <=> (d \in DOMAIN mo2 /\ mo2[d] = Leasing(n))
    <3>1. /\ d \in sl[n].waiters <=> (d \in DOMAIN mo /\ mo[d] = Waiting(n))
          /\ (d \in DOMAIN ls /\ ls[d].module = n)
                <=> (d \in DOMAIN mo /\ mo[d] = Leasing(n))
      BY DEF BookOf, MonitorsOf
    <3>2. Waiting(m) # Leasing(n) /\ (Waiting(m) = Waiting(n) <=> m = n)
      BY DEF Leasing, Waiting
    <3>3. CASE d = c BY <3>1, <3>2, <3>3, <1>1, <1>2
    <3>4. CASE d # c BY <3>1, <3>4, <1>1, <1>2
    <3> QED BY <3>3, <3>4
  <2> QED BY <2>1, <2>2 DEF MonitorsOf
<1> QED BY <1>3, <1>4, <1>5, <1>6, <1>7, <1>8, <1>9, <1>10 DEF BookOf, sl2, mo2

(* What Vacated leaves of the slots. *)
LEMMA VacatedIs ==
    ASSUME NEW sl, SlotsOf(sl), NEW gone \in SUBSET Module, NEW q \in SUBSET gone
    PROVE  /\ SlotsOf(Vacated(sl, gone, q))
           /\ \A m \in Module \ gone : Vacated(sl, gone, q)[m] = sl[m]
           /\ \A m \in gone : /\ ~Keyed(Vacated(sl, gone, q)[m])
                              /\ Vacated(sl, gone, q)[m].key = NoKey
                              /\ Vacated(sl, gone, q)[m].waiters = {}
                              /\ Vacated(sl, gone, q)[m].count = 0
           /\ \A m \in gone \ q : Vacated(sl, gone, q)[m].status = "free"
BY DEF SlotsOf, Slot, Vacated, Blank, Keyed

(* The keys of the slots that go are the keys that are indexed to them. *)
LEMMA KeysGone ==
    ASSUME NEW sl, NEW ix, SlotsOf(sl), IndexOf(sl, ix),
           DOMAIN ix \subseteq Key, \A k \in DOMAIN ix : ix[k] \in Module,
           NEW gone \in SUBSET Module
    PROVE  \A k \in DOMAIN ix : k \in {sl[m].key : m \in gone} <=> ix[k] \in gone
BY PoolAssumption DEF IndexOf, SlotsOf

LEMMA IndexKept ==
    ASSUME NEW sl, NEW ix, SlotsOf(sl), IndexOf(sl, ix),
           DOMAIN ix \subseteq Key, \A k \in DOMAIN ix : ix[k] \in Module,
           NEW gone \in SUBSET Module, NEW q \in SUBSET gone,
           NEW ks, \A k \in DOMAIN ix : k \in ks <=> ix[k] \in gone
    PROVE  IndexOf(Vacated(sl, gone, q), Without(ix, ks))
<1> DEFINE sl2 == Vacated(sl, gone, q)
           ix2 == Without(ix, ks)
<1>1. /\ \A m \in Module \ gone : sl2[m] = sl[m]
      /\ \A m \in gone : ~Keyed(sl2[m])
  BY DEF SlotsOf, Slot, Vacated, Blank, Keyed
<1>2. DOMAIN ix2 = DOMAIN ix \ ks /\ \A k \in DOMAIN ix \ ks : ix2[k] = ix[k]
  BY DEF Without
<1> HIDE DEF sl2, ix2
<1> SUFFICES ASSUME NEW k \in Key, NEW m \in Module
             PROVE  (k \in DOMAIN ix2 /\ ix2[k] = m) <=> (Keyed(sl2[m]) /\ sl2[m].key = k)
  BY DEF IndexOf, sl2, ix2
<1>3. (k \in DOMAIN ix /\ ix[k] = m) <=> (Keyed(sl[m]) /\ sl[m].key = k) BY DEF IndexOf
<1>4. CASE m \in gone BY <1>1, <1>2, <1>4
<1>5. CASE m \notin gone BY <1>1, <1>2, <1>3, <1>5
<1> QED BY <1>4, <1>5

(* retire_slot, of idle slots and free ones. *)
LEMMA SlotsRetired ==
    ASSUME NEW sl, NEW ix, NEW rec, NEW ls, NEW mo, NEW tk, NEW ep,
           BookOf(sl, ix, rec, ls, mo, tk, ep),
           NEW gone \in SUBSET Module, NEW q \in SUBSET gone,
           \A m \in gone : sl[m].status \in {"free", "ready"} /\ sl[m].count = 0,
           NEW ks, \A k \in DOMAIN ix : k \in ks <=> ix[k] \in gone
    PROVE  BookOf(Vacated(sl, gone, q), Without(ix, ks), Except(rec, gone), ls, mo, tk, ep)
<1> DEFINE sl2 == Vacated(sl, gone, q)
           ix2 == Without(ix, ks)
           rec2 == Except(rec, gone)
<1>1. /\ SlotsOf(sl2)
      /\ \A m \in Module \ gone : sl2[m] = sl[m]
      /\ \A m \in gone : ~Keyed(sl2[m]) /\ sl2[m].waiters = {} /\ sl2[m].count = 0
  <2>1. SlotsOf(sl) BY DEF BookOf
  <2>2. \A m \in Module \ gone : sl2[m] = sl[m] BY <2>1 DEF SlotsOf, Slot, Vacated, Blank, Keyed
  <2>3. \A m \in gone : ~Keyed(sl2[m]) /\ sl2[m].waiters = {} /\ sl2[m].count = 0
    BY <2>1 DEF SlotsOf, Slot, Vacated, Blank, Keyed
  <2>4. SlotsOf(sl2) BY <2>1 DEF SlotsOf, Slot, Vacated, Blank, Keyed
  <2> QED BY <2>2, <2>3, <2>4
<1>2. DOMAIN ix2 \subseteq DOMAIN ix /\ \A k \in DOMAIN ix2 : ix2[k] = ix[k]
  BY DEF Without
<1>3. IsOrder(rec2) /\ Listed(rec2) = Listed(rec) \ gone BY OrderIs, ExceptOrder DEF BookOf, TypedOf
<1>6. IndexOf(sl2, ix2) BY IndexKept DEF BookOf, TypedOf
<1> HIDE DEF sl2, ix2, rec2
<1>4. OrderOf(sl2, rec2) /\ rec2 \subseteq Module \X Module
  <2>1. Listed(rec2) = {m \in Module : sl2[m].status = "ready"}
    BY <1>1, <1>3 DEF BookOf, OrderOf, Keyed
  <2> QED BY <1>3, <2>1, OrderIs
<1>5. \A m \in gone, c \in DOMAIN ls : ls[c].module # m
  <2> SUFFICES ASSUME NEW m \in gone PROVE Owners(ls, m) = {} BY DEF Owners
  <2>1. Cardinality(Owners(ls, m)) = 0 BY DEF BookOf, CountsOf
  <2>2. IsFiniteSet(Owners(ls, m)) BY OwnersAreFinite DEF BookOf, TypedOf
  <2> QED BY <2>1, <2>2, FS_EmptySet
<1>7. TypedOf(ix2, rec2, ls, mo, tk) BY <1>2, <1>4 DEF BookOf, TypedOf
<1>8. PinsOf(sl2, ls, ep) BY <1>1, <1>5 DEF BookOf, PinsOf, TypedOf, Lease
<1>9. CountsOf(sl2, ls) BY <1>1 DEF BookOf, CountsOf
<1>10. TasksOf(sl2, tk)
  <2>1. \A m \in Module : sl2[m].status = "compiling" <=> sl[m].status = "compiling"
    BY <1>1 DEF Keyed
  <2> QED BY <2>1 DEF BookOf, TasksOf
<1>11. MonitorsOf(sl2, ls, mo)
  <2>1. \A m \in Module : sl2[m].waiters = sl[m].waiters
    <3>1. \A m \in gone : sl[m].waiters = {}
      BY DEF BookOf, MonitorsOf
    <3> QED BY <1>1, <3>1
  <2>2. \A m \in Module : sl2[m].waiters # {} => sl2[m].status = "compiling"
    BY <1>1 DEF BookOf, MonitorsOf
  <2> QED BY <2>1, <2>2 DEF BookOf, MonitorsOf
<1> QED BY <1>1, <1>4, <1>6, <1>7, <1>8, <1>9, <1>10, <1>11 DEF BookOf, sl2, ix2, rec2

(* start_compilation, in a free slot. *)
LEMMA CompilationStarted ==
    ASSUME NEW sl, NEW ix, NEW rec, NEW ls, NEW mo, NEW tk, NEW ep,
           BookOf(sl, ix, rec, ls, mo, tk, ep),
           NEW c \in Client, c \notin DOMAIN mo,
           NEW k \in Key, k \notin DOMAIN ix,
           NEW m \in Module, sl[m].status = "free",
           NEW r \in Ref, r \notin DOMAIN tk
    PROVE  BookOf([sl EXCEPT ![m].status = "compiling", ![m].key = k, ![m].waiters = {c}],
                  Put(ix, k, m), rec, ls, Put(mo, c, Waiting(m)), Put(tk, r, m), ep)
<1> DEFINE sl2 == [sl EXCEPT ![m].status = "compiling", ![m].key = k, ![m].waiters = {c}]
           ix2 == Put(ix, k, m)
           mo2 == Put(mo, c, Waiting(m))
           tk2 == Put(tk, r, m)
<1>1. /\ sl2 \in [Module -> Slot]
      /\ \A n \in Module : n # m => sl2[n] = sl[n]
      /\ sl2[m].status = "compiling" /\ sl2[m].key = k /\ sl2[m].waiters = {c}
      /\ sl2[m].count = sl[m].count
  <2>1. sl \in [Module -> Slot] BY DEF BookOf, SlotsOf
  <2> DEFINE new == [sl[m] EXCEPT !.status = "compiling", !.key = k, !.waiters = {c}]
  <2>2. /\ new \in Slot /\ new.status = "compiling" /\ new.key = k /\ new.waiters = {c}
        /\ new.count = sl[m].count
    BY <2>1 DEF Slot
  <2>3. sl2 = [sl EXCEPT ![m] = new] BY <2>1 DEF Slot
  <2> HIDE DEF new
  <2> QED BY <2>1, <2>2, <2>3
<1>2. /\ DOMAIN ix2 = DOMAIN ix \cup {k} /\ ix2[k] = m
      /\ \A j \in DOMAIN ix : j # k => ix2[j] = ix[j]
  BY DEF Put
<1>3. /\ DOMAIN mo2 = DOMAIN mo \cup {c} /\ mo2[c] = Waiting(m)
      /\ \A d \in DOMAIN mo : d # c => mo2[d] = mo[d]
  BY DEF Put
<1>4. /\ DOMAIN tk2 = DOMAIN tk \cup {r} /\ tk2[r] = m
      /\ \A q \in DOMAIN tk : q # r => tk2[q] = tk[q]
  BY DEF Put
<1> HIDE DEF sl2, ix2, mo2, tk2
<1>5. SlotsOf(sl2) BY <1>1 DEF BookOf, SlotsOf, Keyed
<1>6. TypedOf(ix2, rec, ls, mo2, tk2) BY <1>2, <1>3, <1>4 DEF BookOf, TypedOf, Waiting
<1>7. IndexOf(sl2, ix2)
  <2> SUFFICES ASSUME NEW j \in Key, NEW n \in Module
               PROVE  (j \in DOMAIN ix2 /\ ix2[j] = n) <=> (Keyed(sl2[n]) /\ sl2[n].key = j)
    BY DEF IndexOf
  <2>1. (j \in DOMAIN ix /\ ix[j] = n) <=> (Keyed(sl[n]) /\ sl[n].key = j)
    BY DEF BookOf, IndexOf
  <2>2. ~Keyed(sl[m]) /\ Keyed(sl2[m]) BY <1>1 DEF Keyed
  <2>3. CASE n = m BY <2>1, <2>2, <2>3, <1>1, <1>2
  <2>4. CASE n # m BY <2>1, <2>4, <1>1, <1>2
  <2> QED BY <2>3, <2>4
<1>8. PinsOf(sl2, ls, ep) BY <1>1 DEF BookOf, PinsOf, TypedOf, Lease
<1>9. CountsOf(sl2, ls) BY <1>1 DEF BookOf, CountsOf
<1>10. TasksOf(sl2, tk2)
  <2>1. \A q \in DOMAIN tk : tk[q] # m BY DEF BookOf, TasksOf, TypedOf
  <2>2. \A n \in Module : sl2[n].status = "compiling" <=> \E q \in DOMAIN tk2 : tk2[q] = n
    BY <1>1, <1>4, <2>1 DEF BookOf, TasksOf
  <2>3. \A p, q \in DOMAIN tk2 : tk2[p] = tk2[q] => p = q
    BY <1>4, <2>1 DEF BookOf, TasksOf
  <2> QED BY <2>2, <2>3 DEF TasksOf
<1>11. OrderOf(sl2, rec)
  <2>1. {n \in Module : sl2[n].status = "ready"} = {n \in Module : sl[n].status = "ready"}
    BY <1>1
  <2> QED BY <2>1 DEF BookOf, OrderOf
<1>12. MonitorsOf(sl2, ls, mo2)
  <2>1. \A n \in Module : sl2[n].waiters # {} => sl2[n].status = "compiling"
    BY <1>1 DEF BookOf, MonitorsOf
  <2>2. ASSUME NEW d \in Client, NEW n \in Module
        PROVE  /\ d \in sl2[n].waiters <=> (d \in DOMAIN mo2 /\ mo2[d] = Waiting(n))
               /\ (d \in DOMAIN ls /\ ls[d].module = n)
                     <=> (d \in DOMAIN mo2 /\ mo2[d] = Leasing(n))
    <3>1. /\ d \in sl[n].waiters <=> (d \in DOMAIN mo /\ mo[d] = Waiting(n))
          /\ (d \in DOMAIN ls /\ ls[d].module = n)
                <=> (d \in DOMAIN mo /\ mo[d] = Leasing(n))
      BY DEF BookOf, MonitorsOf
    <3>2. Waiting(m) # Leasing(n) /\ (Waiting(m) = Waiting(n) <=> m = n)
      BY DEF Leasing, Waiting
    <3>3. sl[m].waiters = {} BY DEF BookOf, MonitorsOf
    <3>4. CASE d = c BY <3>1, <3>2, <3>3, <3>4, <1>1, <1>3
    <3>5. CASE d # c BY <3>1, <3>3, <3>5, <1>1, <1>3
    <3> QED BY <3>4, <3>5
  <2> QED BY <2>1, <2>2 DEF MonitorsOf
<1> QED BY <1>5, <1>6, <1>7, <1>8, <1>9, <1>10, <1>11, <1>12 DEF BookOf, sl2, ix2, mo2, tk2

(* release_lease: a lease goes, its slot becomes the one used last. *)
LEMMA LeaseReleased ==
    ASSUME NEW sl, NEW ix, NEW rec, NEW ls, NEW mo, NEW tk, NEW ep,
           BookOf(sl, ix, rec, ls, mo, tk, ep),
           NEW c \in DOMAIN ls
    PROVE  BookOf([sl EXCEPT ![ls[c].module].count = @ - 1], ix, Last(rec, ls[c].module),
                  Without(ls, {c}), Without(mo, {c}), tk, ep)
<1> DEFINE m == ls[c].module
           sl2 == [sl EXCEPT ![m].count = @ - 1]
           ls2 == Without(ls, {c})
           mo2 == Without(mo, {c})
           rec2 == Last(rec, m)
<1>1. c \in Client /\ m \in Module /\ sl[m].status = "ready"
  BY DEF BookOf, TypedOf, PinsOf, Lease
<1>2. c \in Owners(ls, m) BY DEF Owners
<1>3. Cardinality(Owners(ls, m) \ {c}) = sl[m].count - 1 /\ sl[m].count - 1 \in Nat
  <2>1. IsFiniteSet(Owners(ls, m)) BY OwnersAreFinite DEF BookOf, TypedOf
  <2>2. sl[m].count = Cardinality(Owners(ls, m)) BY <1>1 DEF BookOf, CountsOf
  <2>3. Cardinality(Owners(ls, m) \ {c}) = Cardinality(Owners(ls, m)) - 1
    BY <1>2, <2>1, FS_RemoveElement
  <2>4. Cardinality(Owners(ls, m) \ {c}) \in Nat
    BY <2>1, FS_RemoveElement, FS_CardinalityType
  <2>5. sl[m].count \in Nat BY <1>1 DEF BookOf, SlotsOf, Slot
  <2> QED BY <2>2, <2>3, <2>4, <2>5
<1>4. IsOrder(rec2) /\ Listed(rec2) = Listed(rec) \cup {m}
  BY <1>1, OrderIs, LastOrder DEF BookOf, TypedOf
<1> HIDE DEF m
<1>5. /\ sl2 \in [Module -> Slot]
      /\ \A n \in Module : /\ sl2[n].status = sl[n].status /\ sl2[n].key = sl[n].key
                           /\ sl2[n].generation = sl[n].generation
                           /\ sl2[n].waiters = sl[n].waiters
      /\ sl2[m].count = sl[m].count - 1
      /\ \A n \in Module : n # m => sl2[n].count = sl[n].count
  BY <1>1, <1>3 DEF BookOf, SlotsOf, Slot
<1>6. \A n \in Module : /\ sl2[n].status = sl[n].status /\ sl2[n].key = sl[n].key
                        /\ sl2[n].generation = sl[n].generation
                        /\ sl2[n].waiters = sl[n].waiters
  BY <1>5
<1>7. DOMAIN ls2 = DOMAIN ls \ {c} /\ \A d \in DOMAIN ls : d # c => ls2[d] = ls[d]
  BY DEF Without
<1>8. DOMAIN mo2 = DOMAIN mo \ {c} /\ \A d \in DOMAIN mo : d # c => mo2[d] = mo[d]
  BY DEF Without
<1> HIDE DEF sl2, ls2, mo2, rec2
<1>9. OrderOf(sl2, rec2) /\ rec2 \subseteq Module \X Module
  <2>1. Listed(rec2) = {n \in Module : sl2[n].status = "ready"}
    BY <1>1, <1>4, <1>6 DEF BookOf, OrderOf
  <2> QED BY <1>4, <2>1, OrderIs
<1>10. SlotsOf(sl2) BY <1>5, <1>6 DEF BookOf, SlotsOf, Keyed
<1>11. TypedOf(ix, rec2, ls2, mo2, tk) BY <1>7, <1>8, <1>9 DEF BookOf, TypedOf
<1>12. IndexOf(sl2, ix) BY <1>6 DEF BookOf, IndexOf, Keyed
<1>13. PinsOf(sl2, ls2, ep) BY <1>6, <1>7 DEF BookOf, PinsOf, TypedOf, Lease
<1>14. CountsOf(sl2, ls2)
  <2> SUFFICES ASSUME NEW n \in Module PROVE sl2[n].count = Cardinality(Owners(ls2, n))
    BY DEF CountsOf
  <2>1. CASE n = m
    <3>1. Owners(ls2, n) = Owners(ls, n) \ {c} BY <1>7 DEF Owners
    <3> QED BY <3>1, <2>1, <1>3, <1>5
  <2>2. CASE n # m
    <3>1. Owners(ls2, n) = Owners(ls, n) BY <1>7, <2>2 DEF Owners, m
    <3> QED BY <3>1, <2>2, <1>5 DEF BookOf, CountsOf
  <2> QED BY <2>1, <2>2
<1>15. TasksOf(sl2, tk) BY <1>6 DEF BookOf, TasksOf
<1>16. MonitorsOf(sl2, ls2, mo2)
  <2>1. \A n \in Module : sl2[n].waiters # {} => sl2[n].status = "compiling"
    BY <1>6 DEF BookOf, MonitorsOf
  <2>2. ASSUME NEW d \in Client, NEW n \in Module
        PROVE  /\ d \in sl2[n].waiters <=> (d \in DOMAIN mo2 /\ mo2[d] = Waiting(n))
               /\ (d \in DOMAIN ls2 /\ ls2[d].module = n)
                     <=> (d \in DOMAIN mo2 /\ mo2[d] = Leasing(n))
    <3>1. /\ d \in sl[n].waiters <=> (d \in DOMAIN mo /\ mo[d] = Waiting(n))
          /\ (d \in DOMAIN ls /\ ls[d].module = n)
                <=> (d \in DOMAIN mo /\ mo[d] = Leasing(n))
          /\ (d \in DOMAIN ls /\ ls[d].module = m)
                <=> (d \in DOMAIN mo /\ mo[d] = Leasing(m))
      BY <1>1 DEF BookOf, MonitorsOf
    <3>2. Leasing(m) # Waiting(n) BY DEF Leasing, Waiting
    <3>3. CASE d = c BY <3>1, <3>2, <3>3, <1>6, <1>7, <1>8 DEF m
    <3>4. CASE d # c BY <3>1, <3>4, <1>6, <1>7, <1>8
    <3> QED BY <3>3, <3>4
  <2> QED BY <2>1, <2>2 DEF MonitorsOf
<1> QED BY <1>9, <1>10, <1>11, <1>12, <1>13, <1>14, <1>15, <1>16
        DEF BookOf, m, sl2, ls2, mo2, rec2

(* The :DOWN of a waiter: it waits no more. *)
LEMMA WaiterGone ==
    ASSUME NEW sl, NEW ix, NEW rec, NEW ls, NEW mo, NEW tk, NEW ep,
           BookOf(sl, ix, rec, ls, mo, tk, ep),
           NEW c \in DOMAIN mo, mo[c].for = "waiter"
    PROVE  BookOf([sl EXCEPT ![mo[c].module].waiters = @ \ {c}], ix, rec, ls,
                  Without(mo, {c}), tk, ep)
<1> DEFINE m == mo[c].module
           sl2 == [sl EXCEPT ![m].waiters = @ \ {c}]
           mo2 == Without(mo, {c})
<1>1. c \in Client /\ m \in Module /\ mo[c] = Waiting(m)
  BY DEF BookOf, TypedOf, Waiting
<1> HIDE DEF m
<1>2. /\ sl2 \in [Module -> Slot]
      /\ \A n \in Module : /\ sl2[n].status = sl[n].status /\ sl2[n].key = sl[n].key
                           /\ sl2[n].generation = sl[n].generation
                           /\ sl2[n].count = sl[n].count
      /\ sl2[m].waiters = sl[m].waiters \ {c}
      /\ \A n \in Module : n # m => sl2[n].waiters = sl[n].waiters
  BY <1>1 DEF BookOf, SlotsOf, Slot
<1>3. \A n \in Module : /\ sl2[n].status = sl[n].status /\ sl2[n].key = sl[n].key
                        /\ sl2[n].generation = sl[n].generation
                        /\ sl2[n].count = sl[n].count
  BY <1>2
<1>4. DOMAIN mo2 = DOMAIN mo \ {c} /\ \A d \in DOMAIN mo : d # c => mo2[d] = mo[d]
  BY DEF Without
<1> HIDE DEF sl2, mo2
<1>5. SlotsOf(sl2) BY <1>2, <1>3 DEF BookOf, SlotsOf, Keyed
<1>6. TypedOf(ix, rec, ls, mo2, tk) BY <1>4 DEF BookOf, TypedOf
<1>7. IndexOf(sl2, ix) BY <1>3 DEF BookOf, IndexOf, Keyed
<1>8. PinsOf(sl2, ls, ep) BY <1>3 DEF BookOf, PinsOf, TypedOf, Lease
<1>9. CountsOf(sl2, ls) BY <1>3 DEF BookOf, CountsOf
<1>10. TasksOf(sl2, tk) BY <1>3 DEF BookOf, TasksOf
<1>11. OrderOf(sl2, rec) BY <1>3 DEF BookOf, OrderOf
<1>12. MonitorsOf(sl2, ls, mo2)
  <2>1. \A n \in Module : sl2[n].waiters \subseteq sl[n].waiters BY <1>2
  <2>2. \A n \in Module : sl2[n].waiters # {} => sl2[n].status = "compiling"
    BY <1>3, <2>1 DEF BookOf, MonitorsOf
  <2>3. ASSUME NEW d \in Client, NEW n \in Module
        PROVE  /\ d \in sl2[n].waiters <=> (d \in DOMAIN mo2 /\ mo2[d] = Waiting(n))
               /\ (d \in DOMAIN ls /\ ls[d].module = n)
                     <=> (d \in DOMAIN mo2 /\ mo2[d] = Leasing(n))
    <3>1. /\ d \in sl[n].waiters <=> (d \in DOMAIN mo /\ mo[d] = Waiting(n))
          /\ (d \in DOMAIN ls /\ ls[d].module = n)
                <=> (d \in DOMAIN mo /\ mo[d] = Leasing(n))
      BY DEF BookOf, MonitorsOf
    <3>2. Waiting(m) # Leasing(n) /\ (Waiting(m) = Waiting(n) <=> m = n)
      BY DEF Leasing, Waiting
    <3>3. CASE d = c BY <3>1, <3>2, <3>3, <1>1, <1>2, <1>4
    <3>4. CASE d # c BY <3>1, <3>4, <1>2, <1>4
    <3> QED BY <3>3, <3>4
  <2> QED BY <2>2, <2>3 DEF MonitorsOf
<1> QED BY <1>5, <1>6, <1>7, <1>8, <1>9, <1>10, <1>11, <1>12 DEF BookOf, m, sl2, mo2

(* compilation_ready: the slot is ready and its waiters are given leases. *)
Handed(f, S, v) == [c \in DOMAIN f \cup S |-> IF c \in S THEN v ELSE f[c]]

LEMMA WaitersServed ==
    ASSUME NEW sl, NEW ix, NEW rec, NEW ls, NEW mo, NEW tk, NEW ep,
           BookOf(sl, ix, rec, ls, mo, tk, ep),
           NEW r \in DOMAIN tk, NEW m \in Module, m = tk[r],
           NEW sl2, sl2 \in [Module -> Slot], \A n \in Module : n # m => sl2[n] = sl[n],
           sl2[m].status = "ready", sl2[m].key = sl[m].key, sl2[m].waiters = {},
           sl2[m].count = Cardinality(sl[m].waiters),
           NEW l \in Lease, l.module = m, l.key = sl2[m].key, l.epoch = ep,
           l.generation = sl2[m].generation
    PROVE  BookOf(sl2, ix, Last(rec, m),
                  Handed(ls, sl[m].waiters, l), Handed(mo, sl[m].waiters, Leasing(m)),
                  Without(tk, {r}), ep)
<1> DEFINE served == sl[m].waiters
           ls2 == Handed(ls, served, l)
           mo2 == Handed(mo, served, Leasing(m))
           tk2 == Without(tk, {r})
           rec2 == Last(rec, m)
<1>1. sl[m].status = "compiling" /\ served \subseteq Client
  BY DEF BookOf, TasksOf, SlotsOf, Slot
<1>2. \A c \in DOMAIN ls : ls[c].module # m BY <1>1 DEF BookOf, PinsOf
<1>3. \A c \in served : c \notin DOMAIN ls
  <2> SUFFICES ASSUME NEW c \in served, c \in DOMAIN ls PROVE FALSE OBVIOUS
  <2>1. c \in Client /\ ls[c].module \in Module BY DEF BookOf, TypedOf, Lease
  <2>2. mo[c] = Waiting(m) /\ mo[c] = Leasing(ls[c].module)
    BY <2>1 DEF BookOf, MonitorsOf
  <2> QED BY <2>2 DEF Waiting, Leasing
<1>4. IsOrder(rec2) /\ Listed(rec2) = Listed(rec) \cup {m}
  BY OrderIs, LastOrder DEF BookOf, TypedOf
<1>5. DOMAIN tk2 = DOMAIN tk \ {r} /\ \A q \in DOMAIN tk2 : tk2[q] = tk[q]
  BY DEF Without
<1>6. /\ DOMAIN ls2 = DOMAIN ls \cup served
      /\ \A c \in served : ls2[c] = l
      /\ \A c \in DOMAIN ls : ls2[c] = ls[c]
  BY <1>3 DEF Handed
<1>7. /\ DOMAIN mo2 = DOMAIN mo \cup served
      /\ \A c \in served : mo2[c] = Leasing(m)
      /\ \A c \in DOMAIN mo \ served : mo2[c] = mo[c]
  BY DEF Handed
<1> HIDE DEF served, ls2, mo2, tk2, rec2
<1>8. OrderOf(sl2, rec2) /\ rec2 \subseteq Module \X Module
  <2>1. Listed(rec2) = {n \in Module : sl2[n].status = "ready"}
    <3>1. Listed(rec) = {n \in Module : sl[n].status = "ready"}
      BY DEF BookOf, OrderOf
    <3> QED BY <1>4, <3>1
  <2> QED BY <1>4, <2>1 DEF OrderOf, IsOrder
<1>9. SlotsOf(sl2) BY <1>1 DEF BookOf, SlotsOf, Keyed
<1>10. TypedOf(ix, rec2, ls2, mo2, tk2)
  <2>1. DOMAIN ls2 \subseteq Client /\ \A c \in DOMAIN ls2 : ls2[c] \in Lease
    BY <1>1, <1>6 DEF BookOf, TypedOf
  <2>2. /\ DOMAIN mo2 \subseteq Client
        /\ \A c \in DOMAIN mo2 : mo2[c] \in [for : {"waiter", "lease"}, module : Module]
    BY <1>1, <1>7 DEF BookOf, TypedOf, Leasing
  <2>3. DOMAIN tk2 \subseteq Ref /\ \A q \in DOMAIN tk2 : tk2[q] \in Module
    BY <1>5 DEF BookOf, TypedOf
  <2> QED BY <1>8, <2>1, <2>2, <2>3 DEF BookOf, TypedOf
<1>11. IndexOf(sl2, ix)
  <2>1. \A n \in Module : (Keyed(sl2[n]) <=> Keyed(sl[n])) /\ sl2[n].key = sl[n].key
    BY <1>1 DEF Keyed
  <2> QED BY <2>1 DEF BookOf, IndexOf
<1>12. PinsOf(sl2, ls2, ep)
  <2> SUFFICES ASSUME NEW c \in DOMAIN ls2
               PROVE  /\ sl2[ls2[c].module].status = "ready"
                      /\ sl2[ls2[c].module].key = ls2[c].key
                      /\ sl2[ls2[c].module].generation = ls2[c].generation
                      /\ ls2[c].epoch = ep
    BY DEF PinsOf
  <2>1. CASE c \in served BY <2>1, <1>6
  <2>2. CASE c \in DOMAIN ls
    <3>1. ls[c].module \in Module BY <2>2 DEF BookOf, TypedOf, Lease
    <3> QED BY <2>2, <3>1, <1>2, <1>6 DEF BookOf, PinsOf
  <2> QED BY <2>1, <2>2, <1>6
<1>13. CountsOf(sl2, ls2)
  <2> SUFFICES ASSUME NEW n \in Module PROVE sl2[n].count = Cardinality(Owners(ls2, n))
    BY DEF CountsOf
  <2>1. CASE n = m
    <3>1. Owners(ls2, n) = served BY <2>1, <1>2, <1>6 DEF Owners
    <3> QED BY <3>1, <2>1 DEF served
  <2>2. CASE n # m
    <3>1. Owners(ls2, n) = Owners(ls, n) BY <1>6, <2>2 DEF Owners
    <3> QED BY <3>1, <2>2 DEF BookOf, CountsOf
  <2> QED BY <2>1, <2>2
<1>14. TasksOf(sl2, tk2)
  <2>1. \A q \in DOMAIN tk2 : tk2[q] # m BY <1>5 DEF BookOf, TasksOf
  <2>2. ASSUME NEW n \in Module
        PROVE  sl2[n].status = "compiling" <=> \E q \in DOMAIN tk2 : tk2[q] = n
    <3>1. CASE n = m BY <3>1, <2>1
    <3>2. CASE n # m
      <4>1. sl[n].status = "compiling" <=> \E q \in DOMAIN tk : tk[q] = n
        BY DEF BookOf, TasksOf
      <4> QED BY <3>2, <4>1, <1>5
    <3> QED BY <3>1, <3>2
  <2>3. \A p, q \in DOMAIN tk2 : tk2[p] = tk2[q] => p = q BY <1>5 DEF BookOf, TasksOf
  <2> QED BY <2>2, <2>3 DEF TasksOf
<1>15. MonitorsOf(sl2, ls2, mo2)
  <2>1. \A n \in Module : sl2[n].waiters # {} => sl2[n].status = "compiling"
    BY DEF BookOf, MonitorsOf
  <2>2. ASSUME NEW d \in Client, NEW n \in Module
        PROVE  /\ d \in sl2[n].waiters <=> (d \in DOMAIN mo2 /\ mo2[d] = Waiting(n))
               /\ (d \in DOMAIN ls2 /\ ls2[d].module = n)
                     <=> (d \in DOMAIN mo2 /\ mo2[d] = Leasing(n))
    <3>1. /\ d \in sl[n].waiters <=> (d \in DOMAIN mo /\ mo[d] = Waiting(n))
          /\ d \in served <=> (d \in DOMAIN mo /\ mo[d] = Waiting(m))
          /\ (d \in DOMAIN ls /\ ls[d].module = n)
                <=> (d \in DOMAIN mo /\ mo[d] = Leasing(n))
      BY DEF BookOf, MonitorsOf, served
    <3>2. Leasing(m) # Waiting(n) /\ (Leasing(m) = Leasing(n) <=> m = n)
      BY DEF Leasing, Waiting
    <3>3. CASE d \in served
      <4>1. d \in DOMAIN mo2 /\ mo2[d] = Leasing(m) /\ d \in DOMAIN ls2 /\ ls2[d].module = m
        BY <3>3, <1>6, <1>7
      <4>2. d \notin sl2[n].waiters
        <5>1. CASE n = m BY <5>1
        <5>2. CASE n # m
          <6>1. Waiting(n) # Waiting(m) BY <5>2 DEF Waiting
          <6> QED BY <3>1, <3>3, <5>2, <6>1
        <5> QED BY <5>1, <5>2
      <4> QED BY <4>1, <4>2, <3>2
    <3>4. CASE d \notin served
      <4>1. /\ d \in DOMAIN mo2 <=> d \in DOMAIN mo
            /\ d \in DOMAIN mo => mo2[d] = mo[d]
            /\ d \in DOMAIN ls2 <=> d \in DOMAIN ls
            /\ d \in DOMAIN ls => ls2[d] = ls[d]
        BY <3>4, <1>6, <1>7
      <4>2. d \in sl2[n].waiters <=> d \in sl[n].waiters
        <5>1. CASE n = m BY <5>1, <3>4 DEF served
        <5>2. CASE n # m BY <5>2
        <5> QED BY <5>1, <5>2
      <4> QED BY <4>1, <4>2, <3>1
    <3> QED BY <3>3, <3>4
  <2> QED BY <2>1, <2>2 DEF MonitorsOf
<1> QED BY <1>8, <1>9, <1>10, <1>11, <1>12, <1>13, <1>14, <1>15
        DEF BookOf, served, ls2, mo2, tk2, rec2

(* compilation_failed and cancel_compilations: compilations go, with their    *)
(* waiters.                                                                   *)
LEMMA CompilationsGone ==
    ASSUME NEW sl, NEW ix, NEW rec, NEW ls, NEW mo, NEW tk, NEW ep,
           BookOf(sl, ix, rec, ls, mo, tk, ep),
           NEW rs \in SUBSET DOMAIN tk, NEW gone \in SUBSET Module,
           \A m \in Module : m \in gone <=> \E r \in rs : tk[r] = m,
           NEW q \in SUBSET gone,
           NEW ks, \A k \in DOMAIN ix : k \in ks <=> ix[k] \in gone,
           NEW cs, \A c : c \in cs <=> \E m \in gone : c \in sl[m].waiters
    PROVE  BookOf(Vacated(sl, gone, q), Without(ix, ks), rec, ls, Without(mo, cs),
                  Without(tk, rs), ep)
<1> DEFINE sl2 == Vacated(sl, gone, q)
           ix2 == Without(ix, ks)
           mo2 == Without(mo, cs)
           tk2 == Without(tk, rs)
<1>1. /\ SlotsOf(sl2)
      /\ \A m \in Module \ gone : sl2[m] = sl[m]
      /\ \A m \in gone : ~Keyed(sl2[m]) /\ sl2[m].waiters = {} /\ sl2[m].count = 0
  <2>1. SlotsOf(sl) BY DEF BookOf
  <2> QED BY <2>1 DEF SlotsOf, Slot, Vacated, Blank, Keyed
<1>2. DOMAIN ix2 \subseteq DOMAIN ix /\ \A k \in DOMAIN ix2 : ix2[k] = ix[k]
  BY DEF Without
<1>3. DOMAIN mo2 = DOMAIN mo \ cs /\ \A c \in DOMAIN mo2 : mo2[c] = mo[c]
  BY DEF Without
<1>4. DOMAIN tk2 = DOMAIN tk \ rs /\ \A r \in DOMAIN tk2 : tk2[r] = tk[r]
  BY DEF Without
<1>5. IndexOf(sl2, ix2) BY IndexKept DEF BookOf, TypedOf
<1> HIDE DEF sl2, ix2, mo2, tk2
<1>6. \A m \in gone : sl[m].status = "compiling"
  BY DEF BookOf, TasksOf
<1>7. \A c \in DOMAIN ls : ls[c].module \in Module \ gone
  BY <1>6 DEF BookOf, PinsOf, TypedOf, Lease
<1>8. TypedOf(ix2, rec, ls, mo2, tk2)
  BY <1>2, <1>3, <1>4 DEF BookOf, TypedOf
<1>9. PinsOf(sl2, ls, ep) BY <1>1, <1>7 DEF BookOf, PinsOf
<1>10. CountsOf(sl2, ls)
  <2> SUFFICES ASSUME NEW m \in Module PROVE sl2[m].count = Cardinality(Owners(ls, m))
    BY DEF CountsOf
  <2>1. CASE m \in gone
    <3>1. Owners(ls, m) = {} BY <2>1, <1>7 DEF Owners
    <3> QED BY <3>1, <2>1, <1>1, FS_EmptySet
  <2>2. CASE m \notin gone BY <2>2, <1>1 DEF BookOf, CountsOf
  <2> QED BY <2>1, <2>2
<1>11. TasksOf(sl2, tk2)
  <2>1. \A r \in DOMAIN tk : r \in rs <=> tk[r] \in gone
    BY DEF BookOf, TasksOf, TypedOf
  <2>2. ASSUME NEW m \in Module
        PROVE  sl2[m].status = "compiling" <=> \E r \in DOMAIN tk2 : tk2[r] = m
    <3>1. sl[m].status = "compiling" <=> \E r \in DOMAIN tk : tk[r] = m
      BY DEF BookOf, TasksOf
    <3>2. CASE m \in gone BY <3>2, <1>1, <1>4, <2>1 DEF Keyed
    <3>3. CASE m \notin gone BY <3>1, <3>3, <1>1, <1>4, <2>1
    <3> QED BY <3>2, <3>3
  <2>3. \A p, r \in DOMAIN tk2 : tk2[p] = tk2[r] => p = r
    BY <1>4 DEF BookOf, TasksOf
  <2> QED BY <2>2, <2>3 DEF TasksOf
<1>12. OrderOf(sl2, rec)
  <2>1. {m \in Module : sl2[m].status = "ready"} = {m \in Module : sl[m].status = "ready"}
    BY <1>1, <1>6 DEF Keyed
  <2> QED BY <2>1 DEF BookOf, OrderOf
<1>13. MonitorsOf(sl2, ls, mo2)
  <2>1. \A m \in Module : sl2[m].waiters # {} => sl2[m].status = "compiling"
    BY <1>1 DEF BookOf, MonitorsOf
  <2>2. ASSUME NEW c \in Client, NEW m \in Module
        PROVE  /\ c \in sl2[m].waiters <=> (c \in DOMAIN mo2 /\ mo2[c] = Waiting(m))
               /\ (c \in DOMAIN ls /\ ls[c].module = m)
                     <=> (c \in DOMAIN mo2 /\ mo2[c] = Leasing(m))
    <3>1. \A n \in Module :
             /\ c \in sl[n].waiters <=> (c \in DOMAIN mo /\ mo[c] = Waiting(n))
             /\ (c \in DOMAIN ls /\ ls[c].module = n)
                   <=> (c \in DOMAIN mo /\ mo[c] = Leasing(n))
      BY DEF BookOf, MonitorsOf
    <3>2. \A n \in Module : Waiting(n) # Leasing(m) /\ (Waiting(n) = Waiting(m) => n = m)
      BY DEF Waiting, Leasing
    <3>3. CASE c \in cs
      <4>1. PICK n \in gone : c \in sl[n].waiters BY <3>3
      <4>2. mo[c] = Waiting(n) BY <3>1, <4>1
      <4>3. c \notin sl2[m].waiters
        <5>1. CASE m \in gone BY <5>1, <1>1
        <5>2. CASE m \notin gone BY <5>2, <1>1, <3>1, <3>2, <4>1, <4>2
        <5> QED BY <5>1, <5>2
      <4> QED BY <3>1, <3>2, <3>3, <4>2, <4>3, <1>3
    <3>4. CASE c \notin cs
      <4>1. c \in sl2[m].waiters <=> c \in sl[m].waiters
        <5>1. CASE m \in gone BY <5>1, <1>1, <3>4
        <5>2. CASE m \notin gone BY <5>2, <1>1
        <5> QED BY <5>1, <5>2
      <4> QED BY <4>1, <3>1, <3>4, <1>3
    <3> QED BY <3>3, <3>4
  <2> QED BY <2>1, <2>2 DEF MonitorsOf
<1> QED BY <1>1, <1>5, <1>8, <1>9, <1>10, <1>11, <1>12, <1>13
        DEF BookOf, sl2, ix2, mo2, tk2

LEMMA KeyUnindexed ==
    ASSUME NEW sl, NEW ix, NEW rec, NEW ls, NEW mo, NEW tk, NEW ep,
           BookOf(sl, ix, rec, ls, mo, tk, ep), NEW k, k \notin DOMAIN ix
    PROVE  BookOf(sl, Without(ix, {k}), rec, ls, mo, tk, ep)
<1> DEFINE ix2 == Without(ix, {k})
<1>1. DOMAIN ix2 = DOMAIN ix /\ \A j \in DOMAIN ix : ix2[j] = ix[j] BY DEF Without
<1> HIDE DEF ix2
<1>2. TypedOf(ix2, rec, ls, mo, tk) BY <1>1 DEF BookOf, TypedOf
<1>3. IndexOf(sl, ix2) BY <1>1 DEF BookOf, IndexOf
<1> QED BY <1>2, <1>3 DEF BookOf, ix2

-----------------------------------------------------------------------------
(* The code loaded is the artifacts of the ready slots; what could not be     *)
(* unloaded is in quarantined ones.                                           *)
Code == Key \cup {NoKey, OldCode}
LoadedOf(sl, cd) ==
    /\ cd \in [Module -> Code]
    /\ \A m \in Module : sl[m].status # "quarantined" =>
          cd[m] = IF sl[m].status = "ready" THEN sl[m].key ELSE NoKey

LEMMA LoadedKept ==
    ASSUME NEW sl, NEW sl2, NEW cd, LoadedOf(sl, cd),
           \A m \in Module : sl2[m].status = "ready" <=> sl[m].status = "ready",
           \A m \in Module : sl[m].status = "quarantined" => sl2[m].status = "quarantined",
           \A m \in Module : sl[m].status = "ready" => sl2[m].key = sl[m].key
    PROVE  LoadedOf(sl2, cd)
BY DEF LoadedOf

(* What a retirement leaves of the code. *)
LEMMA RetiredIs ==
    ASSUME NEW ms, NEW failed, code \in [Module -> Code], Retire(ms, failed)
    PROVE  /\ code' \in [Module -> Code]
           /\ \A m \in Module \ ms : code'[m] = code[m]
           /\ \A m \in (Module \cap ms) \ failed : code'[m] = NoKey
BY DEF Retire, Code

(* Of the slots that go, the modules ms are retired; the others are free.     *)
LEMMA LoadedVacated ==
    ASSUME NEW sl, SlotsOf(sl), LoadedOf(sl, code),
           NEW gone \in SUBSET Module, NEW q \in SUBSET gone,
           NEW ms \in SUBSET gone, \A m \in gone \ ms : sl[m].status = "free",
           Retire(ms, q)
    PROVE  LoadedOf(Vacated(sl, gone, q), code')
<1> DEFINE sl2 == Vacated(sl, gone, q)
<1>1. /\ \A m \in Module \ gone : sl2[m] = sl[m]
      /\ \A m \in gone : ~Keyed(sl2[m])
      /\ \A m \in q : sl2[m].status = "quarantined"
  BY DEF SlotsOf, Slot, Vacated, Blank, Keyed
<1>2. /\ code' \in [Module -> Code]
      /\ \A m \in Module \ ms : code'[m] = code[m]
      /\ \A m \in ms \ q : code'[m] = NoKey
  BY RetiredIs DEF LoadedOf
<1> HIDE DEF sl2
<1>3. ASSUME NEW m \in Module, sl2[m].status # "quarantined"
      PROVE  code'[m] = IF sl2[m].status = "ready" THEN sl2[m].key ELSE NoKey
  <2>1. CASE m \in ms
    <3>1. m \notin q /\ m \in gone BY <1>1, <1>3, <2>1
    <3> QED BY <3>1, <2>1, <1>1, <1>2 DEF Keyed
  <2>2. CASE m \in gone \ ms
    <3>1. code[m] = NoKey BY <2>2 DEF LoadedOf
    <3> QED BY <3>1, <2>2, <1>1, <1>2 DEF Keyed
  <2>3. CASE m \notin gone BY <1>3, <2>3, <1>1, <1>2 DEF LoadedOf
  <2> QED BY <2>1, <2>2, <2>3
<1> QED BY <1>2, <1>3 DEF LoadedOf, sl2

(* What the clients know, of given positions cl, monitors and leases: who     *)
(* waits is monitored for that, whose lease is on the books holds it, leases  *)
(* are of this life of the pool or an earlier one, and who runs in this life  *)
(* runs the code of its lease.                                                *)
Owning == {"leased", "validated", "running", "returning"}

ClientsOf(cl, mo, ls, ep) ==
    /\ cl \in [Client -> ClientState]
    /\ \A c \in Client : cl[c].pc = "waiting" <=> c \in DOMAIN mo /\ mo[c].for = "waiter"
    /\ \A c \in DOMAIN ls : cl[c].pc \in Owning /\ cl[c].lease = ls[c]
    /\ \A c \in Client : cl[c].pc \in Owning => cl[c].lease.epoch \leq ep
    /\ \A c \in Client : cl[c].pc = "running" =>
          cl[c].runs = cl[c].lease.key \/ cl[c].lease.epoch # ep

(* A validated lease is on the books, or the pool has died since: then the    *)
(* code is still there.                                                       *)
ValidOf(cl, ls, ep, md, cd) ==
    \A c \in Client : cl[c].pc = "validated" /\ cl[c].lease.epoch = ep =>
        IF md = "down" THEN cd[cl[c].lease.module] = cl[c].lease.key
        ELSE c \in DOMAIN ls

(* What drain promises, and what is left of a pool that is down. *)
QuietOf(md, call, sl, ix, rec, ls, mo, tk) ==
    /\ md \in {"running", "draining", "drained", "down"}
    /\ call \in {"none", "waiting", "ok", "quarantined", "timeout"}
    /\ md = "down" => /\ DOMAIN ix = {} /\ rec = {} /\ DOMAIN ls = {}
                      /\ DOMAIN mo = {} /\ DOMAIN tk = {} /\ call = "none"
    /\ md = "drained" => /\ DOMAIN ls = {} /\ DOMAIN tk = {}
                         /\ \A m \in Module : sl[m].status # "ready"
    /\ call \in {"ok", "quarantined"} => md = "drained"
    /\ md = "drained" => call # "waiting"

MailTyped ==
    /\ skips \subseteq Key \X Key
    /\ epoch \in Nat
    /\ inbox \subseteq [kind : {"artifact", "error", "down", "timeout"}, ref : Ref]
    /\ alive \subseteq Client

Books == BookOf(slots, keyIndex, recent, leases, monitors, tasks, epoch)
Loaded == /\ code \in [Module -> Code]
          /\ mode # "down" => LoadedOf(slots, code)
Clients == ClientsOf(client, monitors, leases, epoch)
Valid == ValidOf(client, leases, epoch, mode, code)
Quiet == QuietOf(mode, drain, slots, keyIndex, recent, leases, monitors, tasks)

IInv == Books /\ Loaded /\ Clients /\ Valid /\ Quiet /\ MailTyped

-----------------------------------------------------------------------------
(* The fields of a client's state. *)
LEMMA ClientFields ==
    ASSUME NEW s \in ClientState
    PROVE  /\ s.pc \in Owning => s.lease \in Lease
           /\ s.pc \in Requests \cup {"waiting"} => s.key \in Key
           /\ s.pc \in {"idle", "waiting"} \cup Requests \cup Owning
BY DEF ClientState, Owning, Requests, Idle

LEMMA ClientStates ==
    /\ Idle \in ClientState /\ Idle.pc = "idle"
    /\ \A pc \in Requests \cup {"waiting"}, k \in Key :
          Asking(pc, k) \in ClientState /\ Asking(pc, k).pc = pc
    /\ \A pc \in {"leased", "validated", "returning"}, l \in Lease :
          /\ Holding(pc, l) \in ClientState
          /\ Holding(pc, l).pc = pc /\ Holding(pc, l).lease = l
BY DEF ClientState, Owning, Requests, Idle, Asking, Holding

(* One client moves on; the entries of the others stay. *)
LEMMA OneMoves ==
    ASSUME NEW cl, NEW mo, NEW ls, NEW ep, ClientsOf(cl, mo, ls, ep),
           NEW c \in Client, NEW s \in ClientState, NEW mo2, NEW ls2,
           DOMAIN ls2 \subseteq Client,
           \A d \in Client : d # c =>
              /\ d \in DOMAIN mo2 <=> d \in DOMAIN mo
              /\ d \in DOMAIN mo => mo2[d] = mo[d]
              /\ d \in DOMAIN ls2 <=> d \in DOMAIN ls
              /\ d \in DOMAIN ls => ls2[d] = ls[d],
           s.pc = "waiting" <=> c \in DOMAIN mo2 /\ mo2[c].for = "waiter",
           c \in DOMAIN ls2 => s.pc \in Owning /\ s.lease = ls2[c],
           s.pc \in Owning => s.lease.epoch \leq ep,
           s.pc = "running" => s.runs = s.lease.key \/ s.lease.epoch # ep
    PROVE  ClientsOf([cl EXCEPT ![c] = s], mo2, ls2, ep)
<1> DEFINE cl2 == [cl EXCEPT ![c] = s]
<1>1. /\ cl2 \in [Client -> ClientState] /\ cl2[c] = s
      /\ \A d \in Client : d # c => cl2[d] = cl[d]
  BY DEF ClientsOf
<1> HIDE DEF cl2
<1>2. \A d \in Client : cl2[d].pc = "waiting" <=> d \in DOMAIN mo2 /\ mo2[d].for = "waiter"
  BY <1>1 DEF ClientsOf
<1>3. \A d \in DOMAIN ls2 : cl2[d].pc \in Owning /\ cl2[d].lease = ls2[d]
  BY <1>1 DEF ClientsOf
<1>4. \A d \in Client : cl2[d].pc \in Owning => cl2[d].lease.epoch \leq ep
  BY <1>1 DEF ClientsOf
<1>5. \A d \in Client : cl2[d].pc = "running" =>
          cl2[d].runs = cl2[d].lease.key \/ cl2[d].lease.epoch # ep
  BY <1>1 DEF ClientsOf
<1> QED BY <1>1, <1>2, <1>3, <1>4, <1>5 DEF ClientsOf, cl2

LEMMA OneMovesValid ==
    ASSUME NEW cl, cl \in [Client -> ClientState], NEW ls, NEW ep, NEW md, NEW cd,
           ValidOf(cl, ls, ep, md, cd), NEW c \in Client, NEW s, NEW ls2, NEW md2, NEW cd2,
           s.pc # "validated", DOMAIN ls \ {c} \subseteq DOMAIN ls2,
           (md # "down" /\ md2 # "down") \/ (md2 = md /\ cd2 = cd)
    PROVE  ValidOf([cl EXCEPT ![c] = s], ls2, ep, md2, cd2)
BY DEF ValidOf

(* Who has asked for something is not on the books. *)
LEMMA AskingIsNew ==
    ASSUME Books, Clients, NEW c \in Client, client[c].pc \notin Owning \cup {"waiting"}
    PROVE  c \notin DOMAIN monitors /\ c \notin DOMAIN leases
<1>1. c \notin DOMAIN leases BY DEF Clients, ClientsOf
<1>2. ASSUME c \in DOMAIN monitors PROVE FALSE
  <2>1. monitors[c].for # "waiter" BY <1>2 DEF Clients, ClientsOf
  <2>2. monitors[c] \in [for : {"waiter", "lease"}, module : Module]
    BY <1>2 DEF Books, BookOf, TypedOf
  <2>3. monitors[c] = Leasing(monitors[c].module) /\ monitors[c].module \in Module
    BY <2>1, <2>2 DEF Leasing
  <2> QED BY <1>1, <1>2, <2>3 DEF Books, BookOf, MonitorsOf
<1> QED BY <1>1, <1>2

(* Whoever is monitored for a lease has one on the books. *)
LEMMA LeasingHasLease ==
    ASSUME Books, NEW c \in DOMAIN monitors, monitors[c].for = "lease"
    PROVE  c \in Client /\ c \in DOMAIN leases
<1>1. c \in Client /\ monitors[c] \in [for : {"waiter", "lease"}, module : Module]
  BY DEF Books, BookOf, TypedOf
<1>2. monitors[c] = Leasing(monitors[c].module) /\ monitors[c].module \in Module
  BY <1>1 DEF Leasing
<1> QED BY <1>1, <1>2 DEF Books, BookOf, MonitorsOf

-----------------------------------------------------------------------------
(* maybe_complete_drain keeps the books it is given. *)
LEMMA Settled ==
    ASSUME NEW md, NEW call, NEW sl, NEW ix, NEW ls, NEW rec, NEW mo, NEW ep,
           Settle(md, call, sl, ix, ls, rec),
           BookOf(sl, ix, rec, ls, mo, tasks', ep), LoadedOf(sl, code),
           md \in {"running", "draining", "drained"},
           call \in {"none", "waiting", "ok", "quarantined", "timeout"},
           md = "drained" => DOMAIN ls = {} /\ DOMAIN tasks' = {},
           call \in {"ok", "quarantined"} => md = "drained",
           md = "drained" => call # "waiting"
    PROVE  /\ BookOf(slots', keyIndex', recent', ls, mo, tasks', ep)
           /\ LoadedOf(slots', code') /\ mode' # "down"
           /\ QuietOf(mode', drain', slots', keyIndex', recent', ls, mo, tasks')
<1>1. CASE /\ md = "running" \/ DOMAIN ls # {} \/ DOMAIN tasks' # {}
           /\ slots' = sl /\ keyIndex' = ix /\ recent' = rec
           /\ mode' = md /\ drain' = call
           /\ UNCHANGED code
  <2>1. QuietOf(mode', drain', slots', keyIndex', recent', ls, mo, tasks')
    BY <1>1 DEF QuietOf
  <2> QED BY <1>1, <2>1
<1> DEFINE ready == {m \in Module : sl[m].status = "ready" /\ sl[m].count = 0}
<1>2. CASE /\ md # "running" /\ DOMAIN ls = {} /\ DOMAIN tasks' = {}
           /\ \E failed \in SUBSET ready :
                /\ slots' = Vacated(sl, ready, failed)
                /\ keyIndex' = Without(ix, {sl[m].key : m \in ready})
                /\ recent' = Except(rec, ready)
                /\ Retire(ready, failed)
                /\ drain' = IF call # "waiting" THEN call
                            ELSE IF failed = {} THEN "ok" ELSE "quarantined"
           /\ mode' = "drained"
  <2>1. PICK failed \in SUBSET ready :
                /\ slots' = Vacated(sl, ready, failed)
                /\ keyIndex' = Without(ix, {sl[m].key : m \in ready})
                /\ recent' = Except(rec, ready)
                /\ Retire(ready, failed)
                /\ drain' = IF call # "waiting" THEN call
                            ELSE IF failed = {} THEN "ok" ELSE "quarantined"
    BY <1>2
  <2>2. \A m \in Module : m \in ready <=> sl[m].status = "ready"
    <3>1. \A m \in Module : Owners(ls, m) = {} BY <1>2 DEF Owners
    <3> QED BY <3>1, FS_EmptySet DEF BookOf, CountsOf
  <2>3. ready \in SUBSET Module /\ \A m \in ready : sl[m].status = "ready" /\ sl[m].count = 0
    OBVIOUS
  <2> HIDE DEF ready
  <2>4. \A k \in DOMAIN ix : k \in {sl[m].key : m \in ready} <=> ix[k] \in ready
    BY <2>3, KeysGone DEF BookOf, TypedOf
  <2>5. BookOf(slots', keyIndex', recent', ls, mo, tasks', ep)
    BY <2>1, <2>3, <2>4, SlotsRetired
  <2>6. LoadedOf(slots', code')
    <3>1. SlotsOf(sl) BY DEF BookOf
    <3> QED BY <2>1, <2>3, <3>1, LoadedVacated
  <2>7. \A m \in Module : slots'[m].status # "ready"
    <3>1. /\ \A m \in Module \ ready : slots'[m] = sl[m]
          /\ \A m \in ready : ~Keyed(slots'[m])
      <4>1. SlotsOf(sl) BY DEF BookOf
      <4>2. /\ \A m \in Module \ ready : Vacated(sl, ready, failed)[m] = sl[m]
            /\ \A m \in ready : ~Keyed(Vacated(sl, ready, failed)[m])
        BY <2>3, <4>1 DEF SlotsOf, Slot, Vacated, Blank, Keyed
      <4> QED BY <2>1, <4>2
    <3> QED BY <3>1, <2>2 DEF Keyed
  <2>8. QuietOf(mode', drain', slots', keyIndex', recent', ls, mo, tasks')
    BY <1>2, <2>1, <2>7 DEF QuietOf
  <2> QED BY <1>2, <2>5, <2>6, <2>8
<1> QED BY <1>1, <1>2 DEF Settle

(* A client becomes a waiter. *)
LEMMA Waits ==
    ASSUME IInv, NEW c \in Client, NEW k \in Key, NEW m, c \notin DOMAIN leases,
           monitors' = Put(monitors, c, Waiting(m)),
           client' = [client EXCEPT ![c] = Asking("waiting", k)],
           UNCHANGED <<leases, epoch>>, mode # "down", mode' # "down"
    PROVE  Clients' /\ Valid'
<1> DEFINE s == Asking("waiting", k)
           mo2 == Put(monitors, c, Waiting(m))
<1>1. s \in ClientState /\ s.pc = "waiting" BY ClientStates
<1>2. DOMAIN mo2 = DOMAIN monitors \cup {c} /\ mo2[c] = Waiting(m)
      /\ \A d \in DOMAIN monitors : d # c => mo2[d] = monitors[d]
  BY DEF Put
<1> HIDE DEF s, mo2
<1>3. ClientsOf(client, monitors, leases, epoch) /\ DOMAIN leases \subseteq Client
  BY DEF IInv, Clients, Books, BookOf, TypedOf
<1>4. Waiting(m).for = "waiter" BY DEF Waiting
<1>5. s.pc \notin Owning /\ s.pc # "running" BY <1>1 DEF Owning
<1>6. ClientsOf([client EXCEPT ![c] = s], mo2, leases, epoch)
  BY <1>1, <1>2, <1>3, <1>4, <1>5, OneMoves
<1>7. client \in [Client -> ClientState] /\ ValidOf(client, leases, epoch, mode, code)
  BY DEF IInv, Clients, ClientsOf, Valid
<1>8. ValidOf([client EXCEPT ![c] = s], leases, epoch, mode', code')
  BY <1>1, <1>7, OneMovesValid
<1> QED BY <1>6, <1>8 DEF Clients, Valid, s, mo2

(* A client that does not wait and has no lease becomes idle. *)
LEMMA GoesIdle ==
    ASSUME IInv, NEW c \in Client,
           c \in DOMAIN monitors' => monitors'[c].for # "waiter",
           c \notin DOMAIN leases',
           \A d \in Client : d # c =>
              /\ d \in DOMAIN monitors' <=> d \in DOMAIN monitors
              /\ d \in DOMAIN monitors => monitors'[d] = monitors[d]
              /\ d \in DOMAIN leases' <=> d \in DOMAIN leases
              /\ d \in DOMAIN leases => leases'[d] = leases[d],
           DOMAIN leases' \subseteq Client,
           client' = [client EXCEPT ![c] = Idle], epoch' = epoch,
           (mode # "down" /\ mode' # "down") \/ (mode' = mode /\ code' = code)
    PROVE  Clients' /\ Valid'
<1>1. Idle \in ClientState /\ Idle.pc = "idle" BY ClientStates
<1>2. ClientsOf(client, monitors, leases, epoch) BY DEF IInv, Clients
<1>3. "idle" \notin Owning BY DEF Owning
<1>4. ClientsOf([client EXCEPT ![c] = Idle], monitors', leases', epoch)
  BY <1>1, <1>2, <1>3, OneMoves
<1>5. client \in [Client -> ClientState] /\ ValidOf(client, leases, epoch, mode, code)
      /\ DOMAIN leases \subseteq Client
  BY DEF IInv, Clients, ClientsOf, Valid, Books, BookOf, TypedOf
<1>6. DOMAIN leases \ {c} \subseteq DOMAIN leases' BY <1>5
<1>7. ValidOf([client EXCEPT ![c] = Idle], leases', epoch, mode', code')
  <2>1. Idle.pc # "validated" BY <1>1
  <2> DEFINE next == [client EXCEPT ![c] = Idle]
  <2>2. next[c] = Idle /\ \A d \in Client : d # c => next[d] = client[d] BY <1>5
  <2> HIDE DEF next
  <2>3. ValidOf(next, leases', epoch, mode', code') BY <1>5, <1>6, <2>1, <2>2 DEF ValidOf
  <2> QED BY <2>3 DEF next
<1> QED BY <1>4, <1>7 DEF Clients, Valid

-----------------------------------------------------------------------------
(* The invariant, where a step leaves its parts alone. *)
LEMMA PoolKept ==
    ASSUME IInv, UNCHANGED <<mode, books, tasks, drain, epoch, code>>
    PROVE  Books' /\ Loaded' /\ Quiet'
BY DEF IInv, Books, Loaded, Quiet, books

LEMMA QuietRunning ==
    ASSUME Quiet, mode = "running", mode' = mode, drain' = drain
    PROVE  Quiet'
BY DEF Quiet, QuietOf

LEMMA LoadedStays ==
    ASSUME LoadedOf(slots', code') PROVE Loaded'
BY DEF Loaded, LoadedOf

LEMMA MailKept ==
    ASSUME MailTyped, UNCHANGED <<skips, epoch, inbox, alive>>
    PROVE  MailTyped'
BY DEF MailTyped

LEMMA SkipsTyped ==
    ASSUME skips \subseteq Key \X Key, NEW k \in Key, RememberSkip(k)
    PROVE  skips' \subseteq Key \X Key
<1>1. Listed(skips) \subseteq Key
  <2> SUFFICES ASSUME NEW x \in Listed(skips) PROVE x \in Key OBVIOUS
  <2>1. PICK pair \in skips : x = pair[1] BY DEF Listed
  <2>2. pair \in Key \X Key BY <2>1
  <2> QED BY <2>1, <2>2
<1>2. Last(skips, k) \subseteq Key \X Key BY <1>1 DEF Last, Except
<1>3. \A xs : Except(Last(skips, k), xs) \subseteq Last(skips, k) BY DEF Except
<1>4. skips' = Last(skips, k) \/ \E xs : skips' = Except(Last(skips, k), xs)
  BY DEF RememberSkip
<1> QED BY <1>2, <1>3, <1>4

(* A key that hits is indexed to a module, and one that misses not at all. *)
LEMMA HitIsIndexed ==
    ASSUME Books, NEW k \in Key
    PROVE  /\ k \in DOMAIN keyIndex => keyIndex[k] \in Module
           /\ k \in DOMAIN keyIndex <=> Ready(k) \/ Compiling(k)
BY DEF Books, BookOf, TypedOf, IndexOf, Keyed, Ready, Compiling

LEMMA LeaseOnTyped ==
    ASSUME NEW sl, SlotsOf(sl), epoch \in Nat, NEW m \in Module, Keyed(sl[m])
    PROVE  /\ LeaseOn(m, sl) \in Lease
           /\ LeaseOn(m, sl).module = m /\ LeaseOn(m, sl).key = sl[m].key
           /\ LeaseOn(m, sl).epoch = epoch /\ LeaseOn(m, sl).generation = sl[m].generation
BY DEF SlotsOf, Slot, LeaseOn, Lease

(* A request that hits. *)
LEMMA HitKeeps ==
    ASSUME IInv, NEW c \in Client, At(c, {"checkout", "cached"}), Hit(c),
           mode = "running", UNCHANGED <<mode, drain, epoch, alive>>
    PROVE  IInv'
<1> DEFINE k == client[c].key
           m == keyIndex[k]
           lease == LeaseOn(m, slots)
<1>1. k \in Key /\ client[c].pc \in Requests /\ client[c].pc \notin Owning \cup {"waiting"}
  BY ClientFields DEF IInv, Clients, ClientsOf, At, Requests, Owning
<1>2. c \notin DOMAIN monitors /\ c \notin DOMAIN leases BY <1>1, AskingIsNew DEF IInv
<1>3. m \in Module BY <1>1, HitIsIndexed DEF IInv, Hit, Ready, Compiling
<1>4. MailTyped' BY MailKept DEF IInv, Hit
<1>5. Quiet' BY QuietRunning DEF IInv
<1>6. LoadedOf(slots, code) BY DEF IInv, Loaded
<1>7. CASE Ready(k) /\ IssueLease(c, m)
  <2>1. slots[m].status = "ready" BY <1>7 DEF Ready
  <2>2. /\ lease \in Lease /\ lease.module = m /\ lease.key = slots[m].key
        /\ lease.epoch = epoch /\ lease.generation = slots[m].generation
    <3>1. SlotsOf(slots) /\ epoch \in Nat /\ Keyed(slots[m])
      BY <2>1 DEF IInv, Books, BookOf, MailTyped, Keyed
    <3> QED BY <1>3, <3>1, LeaseOnTyped
  <2> HIDE DEF lease, m
  <2>3. /\ leases' = Put(leases, c, lease)
        /\ monitors' = Put(monitors, c, Leasing(m))
        /\ slots' = [slots EXCEPT ![m].count = @ + 1]
        /\ recent' = Last(recent, m)
        /\ client' = [client EXCEPT ![c] = Holding("leased", lease)]
        /\ UNCHANGED <<keyIndex, skips, tasks, inbox, code>>
    BY <1>7 DEF IssueLease, Hit, Become, lease, m
  <2>4. Books'
    <3>1. BookOf(slots, keyIndex, recent, leases, monitors, tasks, epoch) BY DEF IInv, Books
    <3>2. BookOf([slots EXCEPT ![m].count = @ + 1], keyIndex, Last(recent, m),
                 Put(leases, c, lease), Put(monitors, c, Leasing(m)), tasks, epoch)
      BY <3>1, <1>2, <1>3, <2>1, <2>2, LeaseIssued
    <3> QED BY <3>2, <2>3 DEF Books
  <2>5. Loaded'
    <3>1. /\ \A n \in Module : slots'[n].status = slots[n].status
          /\ \A n \in Module : slots'[n].key = slots[n].key
      BY <2>3 DEF IInv, Books, BookOf, SlotsOf, Slot
    <3>2. LoadedOf(slots', code) BY <3>1, <1>6, LoadedKept
    <3> QED BY <3>2, <2>3, LoadedStays
  <2>6. Clients'
    <3> DEFINE s == Holding("leased", lease)
               mo2 == Put(monitors, c, Leasing(m))
               ls2 == Put(leases, c, lease)
    <3>1. s \in ClientState /\ s.pc = "leased" /\ s.lease = lease
      BY <2>2, ClientStates
    <3>2. DOMAIN mo2 = DOMAIN monitors \cup {c} /\ mo2[c] = Leasing(m)
          /\ \A d \in DOMAIN monitors : d # c => mo2[d] = monitors[d]
      BY DEF Put
    <3>3. DOMAIN ls2 = DOMAIN leases \cup {c} /\ ls2[c] = lease
          /\ \A d \in DOMAIN leases : d # c => ls2[d] = leases[d]
      BY DEF Put
    <3> HIDE DEF s, mo2, ls2
    <3>4. ClientsOf(client, monitors, leases, epoch) /\ DOMAIN leases \subseteq Client
          /\ epoch \in Nat
      BY DEF IInv, Clients, Books, BookOf, TypedOf, MailTyped
    <3>5. Leasing(m).for # "waiter" BY DEF Leasing
    <3>6. s.pc \in Owning /\ s.pc # "waiting" /\ s.pc # "running" /\ s.lease.epoch \leq epoch
      BY <3>1, <2>2, <3>4 DEF Owning
    <3>7. ClientsOf([client EXCEPT ![c] = s], mo2, ls2, epoch)
      BY <3>1, <3>2, <3>3, <3>4, <3>5, <3>6, OneMoves
    <3> QED BY <3>7, <2>3 DEF Clients, s, mo2, ls2
  <2>7. Valid'
    <3>1. Holding("leased", lease).pc # "validated" BY DEF Holding
    <3>2. DOMAIN leases \subseteq DOMAIN leases' BY <2>3 DEF Put
    <3>3. client \in [Client -> ClientState] /\ ValidOf(client, leases, epoch, mode, code)
      BY DEF IInv, Clients, ClientsOf, Valid
    <3>4. ValidOf([client EXCEPT ![c] = Holding("leased", lease)], leases', epoch, mode, code)
      BY <3>1, <3>2, <3>3, OneMovesValid
    <3> QED BY <3>4, <2>3 DEF Valid
  <2> QED BY <1>4, <1>5, <2>4, <2>5, <2>6, <2>7 DEF IInv
<1>8. CASE Compiling(k) /\ AddWaiter(c, m)
  <2>1. slots[m].status = "compiling" BY <1>8 DEF Compiling
  <2> HIDE DEF m, k
  <2>2. /\ monitors' = Put(monitors, c, Waiting(m))
        /\ slots' = [slots EXCEPT ![m].waiters = @ \cup {c}]
        /\ client' = [client EXCEPT ![c] = Asking("waiting", k)]
        /\ UNCHANGED <<recent, leases, keyIndex, skips, tasks, inbox, code>>
    BY <1>8 DEF AddWaiter, Hit, Become, k, m
  <2>3. Books'
    <3>1. BookOf(slots, keyIndex, recent, leases, monitors, tasks, epoch) BY DEF IInv, Books
    <3>2. BookOf([slots EXCEPT ![m].waiters = @ \cup {c}], keyIndex, recent, leases,
                 Put(monitors, c, Waiting(m)), tasks, epoch)
      BY <3>1, <1>2, <1>3, <2>1, WaiterAdded
    <3> QED BY <3>2, <2>2 DEF Books
  <2>4. Loaded'
    <3>1. /\ \A n \in Module : slots'[n].status = slots[n].status
          /\ \A n \in Module : slots'[n].key = slots[n].key
      BY <2>2 DEF IInv, Books, BookOf, SlotsOf, Slot
    <3>2. LoadedOf(slots', code) BY <3>1, <1>6, LoadedKept
    <3> QED BY <3>2, <2>2, LoadedStays
  <2>5. Clients' /\ Valid' BY <1>1, <1>2, <2>2, Waits
  <2> QED BY <1>4, <1>5, <2>3, <2>4, <2>5 DEF IInv
<1> QED BY <1>7, <1>8 DEF Hit

(* The slots that checkout_miss retires are free or idle. *)
LEMMA ChosenAreIdle ==
    ASSUME Books, NEW m \in Module, NEW failed \in SUBSET Module, Chosen(m, failed)
    PROVE  /\ m \notin failed
           /\ \A n \in failed \cup {m} :
                 slots[n].status \in {"free", "ready"} /\ slots[n].count = 0
<1>1. ASSUME NEW n \in Module, slots[n].status = "free" PROVE slots[n].count = 0
  <2>1. Owners(leases, n) = {} BY <1>1 DEF Books, BookOf, PinsOf, Owners
  <2> QED BY <2>1, FS_EmptySet DEF Books, BookOf, CountsOf
<1> QED BY <1>1 DEF Chosen, Free, Evictable

LEMMA StartKeeps ==
    ASSUME IInv, NEW c \in Client, At(c, {"checkout"}),
           ~Ready(client[c].key), ~Compiling(client[c].key),
           NEW m \in Module, NEW failed \in SUBSET Module, Chosen(m, failed),
           StartCompilation(c, m, failed),
           mode = "running", UNCHANGED <<mode, drain, epoch, alive>>
    PROVE  IInv'
<1> DEFINE k == client[c].key
           gone == failed \cup {m}
           sl == Vacated(slots, gone, failed)
           ix == Without(keyIndex, KeysOf(gone))
           rec == Except(recent, gone)
<1>1. k \in Key /\ client[c].pc \in Requests /\ client[c].pc \notin Owning \cup {"waiting"}
  BY ClientFields DEF IInv, Clients, ClientsOf, At, Requests, Owning
<1>2. c \notin DOMAIN monitors /\ c \notin DOMAIN leases BY <1>1, AskingIsNew DEF IInv
<1>3. k \notin DOMAIN keyIndex BY <1>1, HitIsIndexed DEF IInv
<1>4. PICK r \in Ref : Fresh(r) /\ tasks' = Put(tasks, r, m) BY DEF StartCompilation
<1>5. /\ slots' = [sl EXCEPT ![m].status = "compiling", ![m].key = k, ![m].waiters = {c}]
      /\ recent' = rec
      /\ keyIndex' = Put(ix, k, m)
      /\ skips' = Except(skips, {k})
      /\ monitors' = Put(monitors, c, Waiting(m))
      /\ Retire(gone \ Free, failed)
      /\ client' = [client EXCEPT ![c] = Asking("waiting", k)]
      /\ UNCHANGED <<leases, inbox>>
  BY DEF StartCompilation, Become
<1>6. BookOf(slots, keyIndex, recent, leases, monitors, tasks, epoch) BY DEF IInv, Books
<1>7. gone \in SUBSET Module /\ failed \in SUBSET gone
      /\ \A n \in gone : slots[n].status \in {"free", "ready"} /\ slots[n].count = 0
      /\ m \in gone \ failed
  BY ChosenAreIdle DEF IInv
<1>8. \A j \in DOMAIN keyIndex : j \in KeysOf(gone) <=> keyIndex[j] \in gone
  <2> HIDE DEF gone
  <2> QED BY <1>6, <1>7, KeysGone DEF BookOf, TypedOf, KeysOf
<1>9. sl[m].status = "free"
  <2>1. m \in gone /\ m \notin failed BY <1>7
  <2> HIDE DEF gone
  <2>2. sl[m] = Blank("free", slots[m].generation) BY <2>1 DEF Vacated
  <2> QED BY <2>2 DEF Blank
<1>10. k \notin DOMAIN ix BY <1>3 DEF Without
<1>11. r \notin DOMAIN tasks BY <1>4 DEF Fresh
<1>12. LoadedOf(slots, code) BY DEF IInv, Loaded
<1>13. LoadedOf(sl, code')
  <2>1. SlotsOf(slots) BY <1>6 DEF BookOf
  <2> HIDE DEF gone
  <2>2. gone \ Free \in SUBSET gone /\ \A n \in gone \ (gone \ Free) : slots[n].status = "free"
    BY DEF Free
  <2>3. Retire(gone \ Free, failed) BY <1>5
  <2> QED BY <1>7, <1>12, <2>1, <2>2, <2>3, LoadedVacated
<1>14. BookOf(sl, ix, rec, leases, monitors, tasks, epoch)
  <2> HIDE DEF gone
  <2> QED BY <1>6, <1>7, <1>8, SlotsRetired
<1> HIDE DEF k, gone, sl, ix, rec
<1>15. BookOf([sl EXCEPT ![m].status = "compiling", ![m].key = k, ![m].waiters = {c}],
              Put(ix, k, m), rec, leases, Put(monitors, c, Waiting(m)), Put(tasks, r, m), epoch)
  BY <1>1, <1>2, <1>4, <1>9, <1>10, <1>11, <1>14, CompilationStarted
<1>16. Books' BY <1>4, <1>5, <1>15 DEF Books
<1>17. Loaded'
  <2>1. /\ \A n \in Module : n # m => slots'[n] = sl[n]
        /\ slots'[m].status = "compiling"
    BY <1>5, <1>14 DEF BookOf, SlotsOf, Slot
  <2>2. LoadedOf(slots', code') BY <1>9, <1>13, <2>1, LoadedKept
  <2> QED BY <2>2, LoadedStays
<1>18. Clients' /\ Valid' BY <1>1, <1>2, <1>5, Waits
<1>19. Quiet' BY QuietRunning DEF IInv
<1>20. MailTyped' BY <1>5 DEF IInv, MailTyped, Except
<1> QED BY <1>16, <1>17, <1>18, <1>19, <1>20 DEF IInv

LEMMA BusyKeeps ==
    ASSUME IInv, NEW c \in Client, At(c, {"checkout"}),
           ~Ready(client[c].key), ~Compiling(client[c].key), Busy(c),
           mode = "running", UNCHANGED <<mode, drain, epoch, alive>>
    PROVE  IInv'
<1> DEFINE k == client[c].key
           gone == Evictable
           ks == KeysOf(gone) \cup {k}
<1>1. k \in Key /\ client[c].pc \in Requests /\ client[c].pc \notin Owning \cup {"waiting"}
  BY ClientFields DEF IInv, Clients, ClientsOf, At, Requests, Owning
<1>2. c \notin DOMAIN monitors /\ c \notin DOMAIN leases BY <1>1, AskingIsNew DEF IInv
<1>3. k \notin DOMAIN keyIndex BY <1>1, HitIsIndexed DEF IInv
<1>4. Vacated(slots, {}, gone) = Vacated(slots, gone, gone) BY DEF Vacated
<1>5. BookOf(slots, keyIndex, recent, leases, monitors, tasks, epoch) /\ SlotsOf(slots)
      /\ LoadedOf(slots, code)
  BY DEF IInv, Books, BookOf, Loaded
<1>6. gone \in SUBSET Module /\ gone \in SUBSET gone
      /\ \A n \in gone : slots[n].status \in {"free", "ready"} /\ slots[n].count = 0
  BY DEF Evictable
<1>7. /\ slots' = Vacated(slots, gone, gone)
      /\ recent' = Except(recent, gone)
      /\ keyIndex' = Without(keyIndex, ks)
      /\ Retire(gone, gone)
      /\ client' = [client EXCEPT ![c] = Idle]
      /\ UNCHANGED <<skips, leases, monitors, tasks, inbox>>
  BY <1>4 DEF Busy, Become
<1> HIDE DEF gone
<1>8. \A j \in DOMAIN keyIndex : j \in ks <=> keyIndex[j] \in gone
  <2>1. \A j \in DOMAIN keyIndex : j \in KeysOf(gone) <=> keyIndex[j] \in gone
    BY <1>5, <1>6, KeysGone DEF BookOf, TypedOf, KeysOf
  <2> QED BY <2>1, <1>3
<1> HIDE DEF k, ks
<1>9. BookOf(Vacated(slots, gone, gone), Without(keyIndex, ks), Except(recent, gone), leases,
             monitors, tasks, epoch)
  BY <1>5, <1>6, <1>8, SlotsRetired
<1>10. Books' BY <1>7, <1>9 DEF Books
<1>11. Loaded'
  <2>1. LoadedOf(Vacated(slots, gone, gone), code') BY <1>5, <1>6, <1>7, LoadedVacated
  <2>2. LoadedOf(slots', code') BY <2>1, <1>7
  <2> QED BY <2>2, LoadedStays
<1>12. DOMAIN leases \subseteq Client BY <1>5 DEF BookOf, TypedOf
<1>13. Clients' /\ Valid' BY <1>2, <1>7, <1>12, GoesIdle
<1>14. Quiet' BY QuietRunning DEF IInv
<1>15. MailTyped' BY <1>7, MailKept DEF IInv
<1> QED BY <1>10, <1>11, <1>13, <1>14, <1>15 DEF IInv

LEMMA CheckoutKeeps ==
    ASSUME IInv, NEW c \in Client, Checkout(c) PROVE IInv'
<1>1. CASE Hit(c) BY <1>1, HitKeeps DEF Checkout, At
<1>2. CASE /\ ~Ready(client[c].key) /\ ~Compiling(client[c].key)
           /\ \E m \in Module, failed \in SUBSET Module :
                 Chosen(m, failed) /\ StartCompilation(c, m, failed)
  BY <1>2, StartKeeps DEF Checkout
<1>3. CASE ~Ready(client[c].key) /\ ~Compiling(client[c].key) /\ Busy(c)
  BY <1>3, BusyKeeps DEF Checkout
<1> QED BY <1>1, <1>2, <1>3 DEF Checkout

LEMMA CheckoutCachedKeeps ==
    ASSUME IInv, NEW c \in Client, CheckoutCached(c) PROVE IInv'
<1> DEFINE k == client[c].key
<1>1. CASE Hit(c) BY <1>1, HitKeeps DEF CheckoutCached, At
<1>2. CASE /\ ~Ready(k) /\ ~Compiling(k)
           /\ keyIndex' = Without(keyIndex, {k})
           /\ IF k \in Listed(skips) \ DOMAIN keyIndex
              THEN RememberSkip(k) ELSE UNCHANGED skips
           /\ Become(c, Idle)
           /\ UNCHANGED <<slots, recent, leases, monitors, tasks, inbox, code>>
  <2>1. k \in Key /\ client[c].pc \in Requests /\ client[c].pc \notin Owning \cup {"waiting"}
    BY ClientFields DEF IInv, Clients, ClientsOf, CheckoutCached, At, Requests, Owning
  <2>2. c \notin DOMAIN monitors /\ c \notin DOMAIN leases BY <2>1, AskingIsNew DEF IInv
  <2>3. k \notin DOMAIN keyIndex BY <1>2, <2>1, HitIsIndexed DEF IInv
  <2>4. mode = "running" /\ UNCHANGED <<mode, drain, epoch, alive>> BY DEF CheckoutCached
  <2>5. BookOf(slots, keyIndex, recent, leases, monitors, tasks, epoch) BY DEF IInv, Books
  <2>6. BookOf(slots, Without(keyIndex, {k}), recent, leases, monitors, tasks, epoch)
    BY <2>3, <2>5, KeyUnindexed
  <2>7. Books' BY <1>2, <2>4, <2>6 DEF Books
  <2>8. Loaded' BY <1>2, <2>4 DEF IInv, Loaded
  <2>9. DOMAIN leases \subseteq Client BY <2>5 DEF BookOf, TypedOf
  <2>10. Clients' /\ Valid' BY <1>2, <2>2, <2>4, <2>9, GoesIdle DEF Become
  <2>11. Quiet' BY <2>4, QuietRunning DEF IInv
  <2>12. skips' \subseteq Key \X Key BY <1>2, <2>1, SkipsTyped DEF IInv, MailTyped
  <2>13. MailTyped' BY <1>2, <2>4, <2>12 DEF IInv, MailTyped
  <2> QED BY <2>7, <2>8, <2>10, <2>11, <2>13 DEF IInv
<1> QED BY <1>1, <1>2 DEF CheckoutCached

LEMMA SkipKeeps ==
    ASSUME IInv, NEW c \in Client, Skip(c) PROVE IInv'
<1>1. client[c].key \in Key /\ client[c].pc \notin Owning \cup {"waiting"}
  BY ClientFields DEF IInv, Clients, ClientsOf, Skip, At, Requests, Owning
<1>2. c \notin DOMAIN monitors /\ c \notin DOMAIN leases BY <1>1, AskingIsNew DEF IInv
<1>3. Books' /\ Loaded' /\ Quiet' BY PoolKept DEF Skip
<1>4. DOMAIN leases \subseteq Client BY DEF IInv, Books, BookOf, TypedOf
<1>5. Clients' /\ Valid' BY <1>2, <1>4, GoesIdle DEF Skip, Become, books
<1>6. skips' \subseteq Key \X Key BY <1>1, SkipsTyped DEF IInv, MailTyped, Skip
<1>7. MailTyped' BY <1>6 DEF IInv, MailTyped, Skip
<1> QED BY <1>3, <1>5, <1>7 DEF IInv

LEMMA RefuseKeeps ==
    ASSUME IInv, NEW c \in Client, Refuse(c) PROVE IInv'
<1>1. client[c].pc \notin Owning \cup {"waiting"} BY DEF Refuse, At, Requests, Owning
<1>2. c \notin DOMAIN monitors /\ c \notin DOMAIN leases BY <1>1, AskingIsNew DEF IInv
<1>3. Books' /\ Loaded' /\ Quiet' BY PoolKept DEF Refuse, pool
<1>4. DOMAIN leases \subseteq Client BY DEF IInv, Books, BookOf, TypedOf
<1>5. Clients' /\ Valid' BY <1>2, <1>4, GoesIdle DEF Refuse, Become, pool, books
<1>6. MailTyped' BY MailKept DEF IInv, Refuse, pool
<1> QED BY <1>3, <1>5, <1>6 DEF IInv

-----------------------------------------------------------------------------
LEMMA ReleaseKeeps ==
    ASSUME IInv, NEW c \in DOMAIN leases, Release(c), Become(c, Idle), mode # "down",
           UNCHANGED <<tasks, skips, epoch, inbox, alive>>
    PROVE  IInv'
<1> DEFINE m == leases[c].module
           sl == [slots EXCEPT ![m].count = @ - 1]
           rec == Last(recent, m)
           ls == Without(leases, {c})
           mo == Without(monitors, {c})
<1>1. BookOf(slots, keyIndex, recent, leases, monitors, tasks, epoch)
      /\ LoadedOf(slots, code) /\ c \in Client /\ DOMAIN leases \subseteq Client
  BY DEF IInv, Books, BookOf, TypedOf, Loaded
<1>2. BookOf(sl, keyIndex, rec, ls, mo, tasks', epoch) BY <1>1, LeaseReleased
<1>3. LoadedOf(sl, code)
  <2>1. \A n \in Module : sl[n].status = slots[n].status /\ sl[n].key = slots[n].key
    BY <1>1 DEF BookOf, SlotsOf, Slot
  <2> HIDE DEF sl
  <2> QED BY <1>1, <2>1, LoadedKept
<1>4. /\ leases' = ls /\ monitors' = mo
      /\ Settle(mode, drain, sl, keyIndex, ls, rec)
      /\ client' = [client EXCEPT ![c] = Idle]
  BY DEF Release, Become
<1>5. /\ DOMAIN ls = DOMAIN leases \ {c}
      /\ \A d \in DOMAIN leases : d # c => ls[d] = leases[d]
      /\ DOMAIN mo = DOMAIN monitors \ {c}
      /\ \A d \in DOMAIN monitors : d # c => mo[d] = monitors[d]
  BY DEF Without
<1> HIDE DEF m, sl, rec, ls, mo
<1>6. /\ mode \in {"running", "draining", "drained"}
      /\ drain \in {"none", "waiting", "ok", "quarantined", "timeout"}
      /\ mode = "drained" => DOMAIN ls = {} /\ DOMAIN tasks' = {}
      /\ drain \in {"ok", "quarantined"} => mode = "drained"
      /\ mode = "drained" => drain # "waiting"
  BY <1>5 DEF IInv, Quiet, QuietOf
<1>7. /\ BookOf(slots', keyIndex', recent', ls, mo, tasks', epoch)
      /\ LoadedOf(slots', code') /\ mode' # "down"
      /\ QuietOf(mode', drain', slots', keyIndex', recent', ls, mo, tasks')
  BY <1>2, <1>3, <1>4, <1>6, Settled
<1>8. Books' /\ Loaded' /\ Quiet' BY <1>4, <1>7, LoadedStays DEF Books, Quiet
<1>9. Clients' /\ Valid' BY <1>1, <1>4, <1>5, <1>7, GoesIdle
<1>10. MailTyped' BY MailKept DEF IInv
<1> QED BY <1>8, <1>9, <1>10 DEF IInv

LEMMA CheckInKeeps ==
    ASSUME IInv, NEW c \in Client, CheckIn(c) PROVE IInv'
<1>1. CASE OnBooks(c) BY <1>1, ReleaseKeeps DEF CheckIn, OnBooks
<1>2. CASE ~OnBooks(c)
  <2>1. /\ UNCHANGED <<leases, monitors, tasks, skips, epoch, inbox, alive>>
        /\ Settle(mode, drain, slots, keyIndex, leases, recent)
        /\ client' = [client EXCEPT ![c] = Idle] /\ mode # "down"
    BY <1>2 DEF CheckIn, Become
  <2>2. BookOf(slots, keyIndex, recent, leases, monitors, tasks', epoch)
        /\ LoadedOf(slots, code) /\ DOMAIN leases \subseteq Client
    BY <2>1 DEF IInv, Books, BookOf, TypedOf, Loaded
  <2>3. /\ mode \in {"running", "draining", "drained"}
        /\ drain \in {"none", "waiting", "ok", "quarantined", "timeout"}
        /\ mode = "drained" => DOMAIN leases = {} /\ DOMAIN tasks' = {}
        /\ drain \in {"ok", "quarantined"} => mode = "drained"
        /\ mode = "drained" => drain # "waiting"
    BY <2>1 DEF IInv, Quiet, QuietOf
  <2>4. /\ BookOf(slots', keyIndex', recent', leases, monitors, tasks', epoch)
        /\ LoadedOf(slots', code') /\ mode' # "down"
        /\ QuietOf(mode', drain', slots', keyIndex', recent', leases, monitors, tasks')
    BY <2>1, <2>2, <2>3, Settled
  <2>5. Books' /\ Loaded' /\ Quiet' BY <2>1, <2>4, LoadedStays DEF Books, Quiet
  <2>6. c \notin DOMAIN leases /\ (c \in DOMAIN monitors => monitors[c].for # "waiter")
    BY <1>2 DEF IInv, Clients, ClientsOf, CheckIn, At, OnBooks
  <2>7. Clients' /\ Valid' BY <2>1, <2>2, <2>4, <2>6, GoesIdle
  <2>8. MailTyped' BY <2>1, MailKept DEF IInv
  <2> QED BY <2>5, <2>7, <2>8 DEF IInv
<1> QED BY <1>1, <1>2

LEMMA OwnerDownKeeps ==
    ASSUME IInv, NEW c \in Client, OwnerDown(c) PROVE IInv'
<1>1. /\ mode # "down" /\ c \in DOMAIN monitors /\ Become(c, Idle)
      /\ UNCHANGED <<tasks, skips, epoch, inbox, alive>>
  BY DEF OwnerDown
<1>2. CASE monitors[c].for = "lease" /\ Release(c)
  BY <1>1, <1>2, LeasingHasLease, ReleaseKeeps DEF IInv
<1>3. CASE /\ monitors[c].for = "waiter"
           /\ monitors' = Without(monitors, {c})
           /\ UNCHANGED leases
           /\ Settle(mode, drain, [slots EXCEPT ![monitors[c].module].waiters = @ \ {c}],
                     keyIndex, leases, recent)
  <2> DEFINE sl == [slots EXCEPT ![monitors[c].module].waiters = @ \ {c}]
             mo == Without(monitors, {c})
  <2>1. BookOf(slots, keyIndex, recent, leases, monitors, tasks, epoch)
        /\ LoadedOf(slots, code) /\ DOMAIN leases \subseteq Client
    BY <1>1 DEF IInv, Books, BookOf, TypedOf, Loaded
  <2>2. BookOf(sl, keyIndex, recent, leases, mo, tasks', epoch)
    BY <1>1, <1>3, <2>1, WaiterGone
  <2>3. LoadedOf(sl, code)
    <3>1. \A n \in Module : sl[n].status = slots[n].status /\ sl[n].key = slots[n].key
      BY <2>1 DEF BookOf, SlotsOf, Slot
    <3> HIDE DEF sl
    <3> QED BY <2>1, <3>1, LoadedKept
  <2>4. DOMAIN mo = DOMAIN monitors \ {c}
        /\ \A d \in DOMAIN monitors : d # c => mo[d] = monitors[d]
    BY DEF Without
  <2>5. Settle(mode, drain, sl, keyIndex, leases, recent) /\ monitors' = mo BY <1>3
  <2> HIDE DEF sl, mo
  <2>6. /\ mode \in {"running", "draining", "drained"}
        /\ drain \in {"none", "waiting", "ok", "quarantined", "timeout"}
        /\ mode = "drained" => DOMAIN leases = {} /\ DOMAIN tasks' = {}
        /\ drain \in {"ok", "quarantined"} => mode = "drained"
        /\ mode = "drained" => drain # "waiting"
    BY <1>1 DEF IInv, Quiet, QuietOf
  <2>7. /\ BookOf(slots', keyIndex', recent', leases, mo, tasks', epoch)
        /\ LoadedOf(slots', code') /\ mode' # "down"
        /\ QuietOf(mode', drain', slots', keyIndex', recent', leases, mo, tasks')
    BY <2>2, <2>3, <2>5, <2>6, Settled
  <2>8. Books' /\ Loaded' /\ Quiet' BY <1>1, <1>3, <2>5, <2>7, LoadedStays DEF Books, Quiet
  <2>9. c \notin DOMAIN leases
    BY <1>1, <1>3 DEF IInv, Clients, ClientsOf, Owning
  <2>10. Clients' /\ Valid'
    BY <1>1, <1>3, <2>1, <2>4, <2>5, <2>7, <2>9, GoesIdle DEF Become
  <2>11. MailTyped' BY <1>1, MailKept DEF IInv
  <2> QED BY <2>8, <2>10, <2>11 DEF IInv
<1> QED BY <1>2, <1>3 DEF OwnerDown

-----------------------------------------------------------------------------
(* Waiters who get an error are idle again. *)
LEMMA TurnedAway ==
    ASSUME IInv, NEW cs, \A c \in cs : c \in Client /\ client[c].pc = "waiting",
           monitors' = Without(monitors, cs),
           client' = [c \in Client |-> IF c \in cs THEN Idle ELSE client[c]],
           UNCHANGED <<leases, epoch>>, mode # "down", mode' # "down"
    PROVE  Clients' /\ Valid'
<1>1. Idle \in ClientState /\ Idle.pc = "idle" BY ClientStates
<1>2. ClientsOf(client, monitors, leases, epoch) /\ ValidOf(client, leases, epoch, mode, code)
      /\ DOMAIN leases \subseteq Client
  BY DEF IInv, Clients, Valid, Books, BookOf, TypedOf
<1>3. DOMAIN monitors' = DOMAIN monitors \ cs
      /\ \A c \in DOMAIN monitors' : monitors'[c] = monitors[c]
  BY DEF Without
<1>4. /\ client' \in [Client -> ClientState]
      /\ \A c \in Client : c \in cs => client'[c] = Idle
      /\ \A c \in Client : c \notin cs => client'[c] = client[c]
  BY <1>1, <1>2 DEF ClientsOf
<1>5. \A c \in cs : c \notin DOMAIN leases BY <1>2 DEF ClientsOf, Owning
<1>6. \A c \in Client : client'[c].pc \in Owning => client'[c] = client[c]
  BY <1>1, <1>4 DEF Owning
<1>7. \A c \in Client : client'[c].pc = "waiting"
                          <=> c \in DOMAIN monitors' /\ monitors'[c].for = "waiter"
  BY <1>1, <1>2, <1>3, <1>4 DEF ClientsOf
<1>8. \A c \in DOMAIN leases : client'[c].pc \in Owning /\ client'[c].lease = leases[c]
  BY <1>2, <1>4, <1>5 DEF ClientsOf
<1>9. \A c \in Client : client'[c].pc \in Owning => client'[c].lease.epoch \leq epoch
  BY <1>2, <1>6 DEF ClientsOf
<1>10. \A c \in Client : client'[c].pc = "running" =>
          client'[c].runs = client'[c].lease.key \/ client'[c].lease.epoch # epoch
  BY <1>2, <1>6 DEF ClientsOf, Owning
<1>11. Clients' BY <1>4, <1>7, <1>8, <1>9, <1>10 DEF Clients, ClientsOf
<1>12. Valid' BY <1>2, <1>6 DEF Valid, ValidOf, Owning
<1> QED BY <1>11, <1>12

(* Waiters of a compilation wait. *)
LEMMA WaitersWait ==
    ASSUME IInv, NEW m \in Module, NEW c \in slots[m].waiters
    PROVE  c \in Client /\ client[c].pc = "waiting"
<1>1. c \in Client BY DEF IInv, Books, BookOf, SlotsOf, Slot
<1>2. c \in DOMAIN monitors /\ monitors[c] = Waiting(m)
  BY <1>1 DEF IInv, Books, BookOf, MonitorsOf
<1> QED BY <1>1, <1>2 DEF IInv, Clients, ClientsOf, Waiting

LEMMA FailedKeeps ==
    ASSUME IInv, NEW r \in DOMAIN tasks, NEW quarantine \in BOOLEAN,
           CompilationFailed(tasks[r], quarantine), tasks' = Without(tasks, {r}),
           mode # "down", UNCHANGED <<mode, skips, drain, epoch, alive>>, MailTyped'
    PROVE  IInv'
<1> DEFINE m == tasks[r]
           q == IF quarantine THEN {m} ELSE {}
           sl == Vacated(slots, {m}, q)
<1>1. BookOf(slots, keyIndex, recent, leases, monitors, tasks, epoch)
      /\ LoadedOf(slots, code) /\ m \in Module /\ slots[m].status = "compiling"
      /\ SlotsOf(slots)
  BY DEF IInv, Books, BookOf, TypedOf, TasksOf, Loaded
<1>2. /\ slots' = sl
      /\ keyIndex' = Without(keyIndex, {slots[m].key})
      /\ monitors' = Without(monitors, slots[m].waiters)
      /\ client' = [c \in Client |-> IF c \in slots[m].waiters THEN Idle ELSE client[c]]
      /\ UNCHANGED <<recent, leases, code>>
  BY DEF CompilationFailed
<1>3. q \in SUBSET {m} OBVIOUS
<1> HIDE DEF q
<1>4. \A k \in DOMAIN keyIndex : k \in {slots[m].key} <=> keyIndex[k] \in {m}
  <2>1. {slots[n].key : n \in {m}} = {slots[m].key} OBVIOUS
  <2>2. \A k \in DOMAIN keyIndex :
            k \in {slots[n].key : n \in {m}} <=> keyIndex[k] \in {m}
    BY <1>1, KeysGone DEF BookOf, TypedOf
  <2> QED BY <2>1, <2>2
<1>5. BookOf(sl, Without(keyIndex, {slots[m].key}), recent, leases,
             Without(monitors, slots[m].waiters), Without(tasks, {r}), epoch)
  <2>1. {r} \in SUBSET DOMAIN tasks /\ {m} \in SUBSET Module
        /\ \A n \in Module : n \in {m} <=> \E p \in {r} : tasks[p] = n
    BY <1>1
  <2>2. \A c : c \in slots[m].waiters <=> \E n \in {m} : c \in slots[n].waiters OBVIOUS
  <2> HIDE DEF m
  <2> QED BY <1>1, <1>3, <1>4, <2>1, <2>2, CompilationsGone
<1>6. \A n \in Module : /\ n # m => sl[n] = slots[n]
                        /\ n = m => sl[n].status # "ready"
  BY <1>1, <1>3 DEF Vacated, Blank
<1> HIDE DEF m, sl
<1>7. Books' BY <1>2, <1>5 DEF Books, m
<1>8. Loaded'
  <2>1. LoadedOf(slots', code) BY <1>1, <1>2, <1>6, LoadedKept
  <2> QED BY <1>2, <2>1, LoadedStays
<1>9. Clients' /\ Valid'
  <2>1. \A c \in slots[m].waiters : c \in Client /\ client[c].pc = "waiting"
    BY <1>1, WaitersWait
  <2> QED BY <1>2, <2>1, TurnedAway
<1>10. Quiet'
  <2>1. mode # "drained" BY DEF IInv, Quiet, QuietOf
  <2> QED BY <2>1 DEF IInv, Quiet, QuietOf
<1> QED BY <1>7, <1>8, <1>9, <1>10 DEF IInv

(* Waiters who are served have their lease. *)
LEMMA Served ==
    ASSUME IInv, NEW cs, \A c \in cs : c \in Client /\ client[c].pc = "waiting",
           NEW l \in Lease, l.epoch = epoch, NEW m,
           monitors' = [c \in DOMAIN monitors \cup cs |->
                           IF c \in cs THEN Leasing(m) ELSE monitors[c]],
           leases' = [c \in DOMAIN leases \cup cs |-> IF c \in cs THEN l ELSE leases[c]],
           client' = [c \in Client |-> IF c \in cs THEN Holding("leased", l) ELSE client[c]],
           epoch' = epoch, mode # "down", mode' # "down"
    PROVE  Clients' /\ Valid'
<1> DEFINE s == Holding("leased", l)
<1>1. s \in ClientState /\ s.pc = "leased" /\ s.lease = l BY ClientStates
<1>2. ClientsOf(client, monitors, leases, epoch) /\ ValidOf(client, leases, epoch, mode, code)
      /\ DOMAIN leases \subseteq Client /\ epoch \in Nat
  BY DEF IInv, Clients, Valid, Books, BookOf, TypedOf, MailTyped
<1>3. /\ DOMAIN monitors' = DOMAIN monitors \cup cs
      /\ \A c \in cs : monitors'[c] = Leasing(m)
      /\ \A c \in DOMAIN monitors : c \notin cs => monitors'[c] = monitors[c]
  OBVIOUS
<1>4. /\ DOMAIN leases' = DOMAIN leases \cup cs
      /\ \A c \in cs : leases'[c] = l
      /\ \A c \in DOMAIN leases : c \notin cs => leases'[c] = leases[c]
  OBVIOUS
<1> HIDE DEF s
<1>5. /\ client' \in [Client -> ClientState]
      /\ \A c \in Client : c \in cs => client'[c] = s
      /\ \A c \in Client : c \notin cs => client'[c] = client[c]
  BY <1>1, <1>2 DEF ClientsOf, s
<1>6. Leasing(m).for # "waiter" BY DEF Leasing
<1>7. s.pc \in Owning /\ s.lease.epoch \leq epoch BY <1>1, <1>2 DEF Owning
<1>8. \A c \in Client : client'[c].pc = "waiting"
                          <=> c \in DOMAIN monitors' /\ monitors'[c].for = "waiter"
  BY <1>1, <1>2, <1>3, <1>5, <1>6 DEF ClientsOf
<1>9. \A c \in DOMAIN leases' : client'[c].pc \in Owning /\ client'[c].lease = leases'[c]
  BY <1>1, <1>2, <1>4, <1>5, <1>7 DEF ClientsOf
<1>10. \A c \in Client : client'[c].pc \in Owning => client'[c].lease.epoch \leq epoch
  BY <1>2, <1>5, <1>7 DEF ClientsOf
<1>11. \A c \in Client : client'[c].pc = "running" =>
          client'[c].runs = client'[c].lease.key \/ client'[c].lease.epoch # epoch
  BY <1>1, <1>2, <1>5 DEF ClientsOf
<1>12. Clients' BY <1>5, <1>8, <1>9, <1>10, <1>11 DEF Clients, ClientsOf
<1>13. Valid' BY <1>1, <1>2, <1>4, <1>5 DEF Valid, ValidOf
<1> QED BY <1>12, <1>13

LEMMA ReadyKeeps ==
    ASSUME IInv, NEW r \in DOMAIN tasks, CompilationReady(tasks[r]),
           tasks' = Without(tasks, {r}),
           mode # "down", UNCHANGED <<mode, skips, drain, epoch, alive>>, MailTyped'
    PROVE  IInv'
<1> DEFINE m == tasks[r]
           new == [status |-> "ready", key |-> slots[m].key,
                   generation |-> slots[m].generation + 1,
                   waiters |-> {}, count |-> Cardinality(slots[m].waiters)]
           sl == [slots EXCEPT ![m] = new]
           l == LeaseOn(m, sl)
           served == slots[m].waiters
           ls == Handed(leases, served, l)
           mo == Handed(monitors, served, Leasing(m))
<1>1. BookOf(slots, keyIndex, recent, leases, monitors, tasks, epoch)
      /\ LoadedOf(slots, code) /\ m \in Module /\ slots[m].status = "compiling"
      /\ SlotsOf(slots) /\ epoch \in Nat
  BY DEF IInv, Books, BookOf, TypedOf, TasksOf, Loaded, MailTyped
<1>2. /\ slots' = sl /\ recent' = Last(recent, m) /\ leases' = ls /\ monitors' = mo
      /\ client' = [c \in Client |-> IF c \in served THEN Holding("leased", l) ELSE client[c]]
      /\ code' = [code EXCEPT ![m] = slots[m].key]
      /\ UNCHANGED keyIndex
  BY DEF CompilationReady, Handed
<1> HIDE DEF m
<1>3. /\ new.status = "ready" /\ new.key = slots[m].key /\ new.waiters = {}
      /\ new.count = Cardinality(slots[m].waiters) /\ new \in Slot
  <2>1. slots[m].key \in Key /\ slots[m].generation \in Nat /\ slots[m].waiters \subseteq Client
    BY <1>1 DEF SlotsOf, Slot, Keyed
  <2>2. Cardinality(slots[m].waiters) \in Nat
    BY <2>1, PoolAssumption, FS_Subset, FS_CardinalityType
  <2> QED BY <2>1, <2>2 DEF Slot
<1> HIDE DEF new
<1>4. /\ sl \in [Module -> Slot] /\ sl[m] = new
      /\ \A n \in Module : n # m => sl[n] = slots[n]
  BY <1>1, <1>3 DEF SlotsOf
<1> HIDE DEF sl
<1>5. slots[m].key \in Key BY <1>1 DEF SlotsOf, Keyed
<1>6. /\ l \in Lease /\ l.module = m /\ l.key = sl[m].key
      /\ l.epoch = epoch /\ l.generation = sl[m].generation
  BY <1>1, <1>3, <1>4, <1>5 DEF LeaseOn, Lease, Slot
<1> HIDE DEF l
<1>7. BookOf(sl, keyIndex, Last(recent, m), ls, mo, Without(tasks, {r}), epoch)
  <2>1. m = tasks[r] BY DEF m
  <2>2. /\ sl[m].status = "ready" /\ sl[m].key = slots[m].key /\ sl[m].waiters = {}
        /\ sl[m].count = Cardinality(slots[m].waiters)
    BY <1>3, <1>4
  <2> QED BY <1>1, <1>4, <1>6, <2>1, <2>2, WaitersServed
<1>8. Books' BY <1>2, <1>7 DEF Books
<1>9. Loaded'
  <2>1. /\ code' \in [Module -> Code] /\ code'[m] = slots[m].key
        /\ \A n \in Module : n # m => code'[n] = code[n]
    BY <1>1, <1>2, <1>5 DEF LoadedOf, Code
  <2>2. \A n \in Module : slots'[n].status # "quarantined" =>
           code'[n] = IF slots'[n].status = "ready" THEN slots'[n].key ELSE NoKey
    BY <1>1, <1>2, <1>3, <1>4, <2>1 DEF LoadedOf
  <2>3. LoadedOf(slots', code') BY <2>1, <2>2 DEF LoadedOf
  <2> QED BY <2>3, LoadedStays
<1>10. Clients' /\ Valid'
  <2>1. \A c \in served : c \in Client /\ client[c].pc = "waiting"
    BY <1>1, WaitersWait
  <2> HIDE DEF served
  <2> QED BY <1>2, <1>6, <2>1, Served DEF Handed
<1>11. Quiet'
  <2>1. mode # "drained" BY DEF IInv, Quiet, QuietOf
  <2> QED BY <2>1 DEF IInv, Quiet, QuietOf
<1> QED BY <1>8, <1>9, <1>10, <1>11 DEF IInv

LEMMA HandleKeeps ==
    ASSUME IInv, NEW r \in Ref, Handle(r) PROVE IInv'
<1>1. PICK msg \in inbox :
         \/ /\ r \notin DOMAIN tasks
            /\ inbox' = inbox \ {msg}
            /\ UNCHANGED <<tasks, books, code, client>>
         \/ /\ r \in DOMAIN tasks
            /\ inbox' = inbox \ {msg, [kind |-> "down", ref |-> r]}
            /\ tasks' = Without(tasks, {r})
            /\ \/ CompilationReady(tasks[r])
               \/ CompilationFailed(tasks[r], TRUE)
               \/ CompilationFailed(tasks[r], FALSE)
  BY DEF Handle
<1>2. mode # "down" /\ UNCHANGED <<mode, skips, drain, epoch, alive>> BY DEF Handle
<1>3. MailTyped' BY <1>1, <1>2 DEF IInv, MailTyped
<1>4. CASE UNCHANGED <<tasks, books, code, client>>
  <2>1. Books' /\ Loaded' /\ Quiet' BY <1>2, <1>4, PoolKept
  <2>2. Clients' /\ Valid' BY <1>2, <1>4 DEF IInv, Clients, Valid, books
  <2> QED BY <1>3, <2>1, <2>2 DEF IInv
<1>5. CASE r \in DOMAIN tasks /\ tasks' = Without(tasks, {r}) /\ CompilationReady(tasks[r])
  BY <1>2, <1>3, <1>5, ReadyKeeps
<1>6. ASSUME NEW quarantine \in BOOLEAN, r \in DOMAIN tasks, tasks' = Without(tasks, {r}),
             CompilationFailed(tasks[r], quarantine)
      PROVE  IInv'
  BY <1>2, <1>3, <1>6, FailedKeeps
<1> QED BY <1>1, <1>4, <1>5, <1>6

LEMMA DrainKeeps ==
    ASSUME IInv, Drain PROVE IInv'
<1> DEFINE gone == {tasks[r] : r \in DOMAIN tasks}
           cs == UNION {slots[m].waiters : m \in gone}
           sl == Vacated(slots, gone, {})
           ix == Without(keyIndex, KeysOf(gone))
           mo == Without(monitors, cs)
<1>1. /\ mode = "running" /\ tasks' = << >>
      /\ inbox' \subseteq inbox
      /\ monitors' = mo
      /\ client' = [c \in Client |-> IF c \in cs THEN Idle ELSE client[c]]
      /\ Settle("draining", "waiting", sl, ix, leases, recent)
      /\ UNCHANGED <<leases, skips, epoch, alive>>
  BY DEF Drain
<1>2. BookOf(slots, keyIndex, recent, leases, monitors, tasks, epoch)
      /\ LoadedOf(slots, code) /\ SlotsOf(slots)
  BY <1>1 DEF IInv, Books, BookOf, Loaded
<1>3. gone \in SUBSET Module /\ (\A m \in Module : m \in gone <=> \E r \in DOMAIN tasks : tasks[r] = m)
      /\ \A m \in gone : slots[m].status = "compiling"
  BY <1>2 DEF BookOf, TypedOf, TasksOf
<1>4. \A c : c \in cs <=> \E m \in gone : c \in slots[m].waiters OBVIOUS
<1> HIDE DEF gone, cs
<1>5. \A k \in DOMAIN keyIndex : k \in KeysOf(gone) <=> keyIndex[k] \in gone
  BY <1>2, <1>3, KeysGone DEF BookOf, TypedOf, KeysOf
<1>6. BookOf(sl, ix, recent, leases, mo, Without(tasks, DOMAIN tasks), epoch)
  BY <1>2, <1>3, <1>4, <1>5, CompilationsGone
<1>7. BookOf(sl, ix, recent, leases, mo, tasks', epoch)
  <2> DEFINE tk == Without(tasks, DOMAIN tasks)
  <2>1. DOMAIN tk = {} BY DEF Without
  <2>2. DOMAIN tasks' = {} BY <1>1
  <2> HIDE DEF tk, sl, ix, mo
  <2>3. BookOf(sl, ix, recent, leases, mo, tk, epoch) BY <1>6 DEF tk
  <2>4. TypedOf(ix, recent, leases, mo, tasks') /\ TasksOf(sl, tasks')
    BY <2>1, <2>2, <2>3 DEF BookOf, TypedOf, TasksOf
  <2> QED BY <2>3, <2>4 DEF BookOf
<1>8. LoadedOf(sl, code)
  <2>1. /\ \A m \in Module \ gone : sl[m] = slots[m]
        /\ \A m \in gone : ~Keyed(sl[m])
    BY <1>2, <1>3 DEF SlotsOf, Slot, Vacated, Blank, Keyed
  <2> HIDE DEF sl
  <2>2. \A m \in Module : /\ sl[m].status = "ready" <=> slots[m].status = "ready"
                          /\ slots[m].status = "quarantined" => sl[m].status = "quarantined"
                          /\ slots[m].status = "ready" => sl[m].key = slots[m].key
    BY <1>3, <2>1 DEF Keyed
  <2> QED BY <1>2, <2>2, LoadedKept
<1> HIDE DEF sl, ix, mo
<1>9. /\ BookOf(slots', keyIndex', recent', leases, mo, tasks', epoch)
      /\ LoadedOf(slots', code') /\ mode' # "down"
      /\ QuietOf(mode', drain', slots', keyIndex', recent', leases, mo, tasks')
  BY <1>1, <1>7, <1>8, Settled
<1>10. Books' /\ Loaded' /\ Quiet' BY <1>1, <1>9, LoadedStays DEF Books, Quiet
<1>11. Clients' /\ Valid'
  <2>1. \A c \in cs : c \in Client /\ client[c].pc = "waiting"
    BY <1>3, <1>4, WaitersWait
  <2> QED BY <1>1, <1>9, <2>1, TurnedAway DEF mo
<1>12. MailTyped' BY <1>1 DEF IInv, MailTyped
<1> QED BY <1>10, <1>11, <1>12 DEF IInv

LEMMA DrainTimeoutKeeps ==
    ASSUME IInv, DrainTimeout PROVE IInv'
<1>1. UNCHANGED <<mode, books, skips, tasks, epoch, inbox, code, client, alive>>
      /\ mode # "down" /\ drain' = "timeout"
  BY DEF DrainTimeout
<1>2. Books' /\ Loaded' /\ Clients' /\ Valid' /\ MailTyped'
  BY <1>1 DEF IInv, Books, Loaded, Clients, Valid, MailTyped, books
<1>3. Quiet' BY <1>1 DEF IInv, Quiet, QuietOf, books
<1> QED BY <1>2, <1>3 DEF IInv

-----------------------------------------------------------------------------
LEMMA AskKeeps ==
    ASSUME IInv, NEW c \in Client, Ask(c) PROVE IInv'
<1>1. PICK op \in Requests, k \in Key : client' = [client EXCEPT ![c] = Asking(op, k)]
  BY DEF Ask, Become
<1>2. UNCHANGED <<pool, inbox, code, alive>> /\ mode # "down" /\ client[c].pc = "idle"
  BY DEF Ask, At
<1>3. Books' /\ Loaded' /\ Quiet' BY <1>2, PoolKept DEF pool
<1>4. MailTyped' BY <1>2, MailKept DEF IInv, pool
<1> DEFINE s == Asking(op, k)
<1>5. s \in ClientState /\ s.pc = op BY ClientStates
<1> HIDE DEF s
<1>6. s.pc # "waiting" /\ s.pc \notin Owning /\ s.pc # "running" /\ s.pc # "validated"
  BY <1>5 DEF Requests, Owning
<1>7. c \notin DOMAIN monitors /\ c \notin DOMAIN leases
  BY <1>2, AskingIsNew DEF IInv, Owning
<1>8. ClientsOf(client, monitors, leases, epoch) /\ ValidOf(client, leases, epoch, mode, code)
      /\ DOMAIN leases \subseteq Client
  BY DEF IInv, Clients, Valid, Books, BookOf, TypedOf
<1>9. ClientsOf([client EXCEPT ![c] = s], monitors, leases, epoch)
  BY <1>5, <1>6, <1>7, <1>8, OneMoves
<1>10. ValidOf([client EXCEPT ![c] = s], leases, epoch, mode, code)
  BY <1>6, <1>8, OneMovesValid DEF ClientsOf
<1>11. Clients' /\ Valid' BY <1>1, <1>2, <1>9, <1>10 DEF Clients, Valid, pool, books, s
<1> QED BY <1>3, <1>4, <1>11 DEF IInv

LEMMA ValidateKeeps ==
    ASSUME IInv, NEW c \in Client, Validate(c) PROVE IInv'
<1> DEFINE lease == client[c].lease
           s == [client[c] EXCEPT !.pc = IF OnBooks(c) THEN "validated" ELSE "returning"]
<1>1. UNCHANGED <<pool, inbox, code, alive>> /\ client[c].pc = "leased"
      /\ client' = [client EXCEPT ![c] = IF mode = "down" THEN Idle ELSE s]
  BY DEF Validate, At, Become
<1>2. Books' /\ Loaded' /\ Quiet' BY <1>1, PoolKept DEF pool
<1>3. MailTyped' BY <1>1, MailKept DEF IInv, pool
<1>4. ClientsOf(client, monitors, leases, epoch) /\ ValidOf(client, leases, epoch, mode, code)
      /\ DOMAIN leases \subseteq Client /\ client \in [Client -> ClientState]
  BY DEF IInv, Clients, ClientsOf, Valid, Books, BookOf, TypedOf
<1>5. ~(c \in DOMAIN monitors /\ monitors[c].for = "waiter")
  BY <1>1, <1>4 DEF ClientsOf
<1>6. CASE mode = "down"
  <2>1. c \notin DOMAIN leases BY <1>6 DEF IInv, Quiet, QuietOf
  <2>2. Clients' /\ Valid' BY <1>1, <1>4, <1>5, <1>6, <2>1, GoesIdle DEF pool, books
  <2> QED BY <1>2, <1>3, <2>2 DEF IInv
<1>7. CASE mode # "down"
  <2>1. lease \in Lease BY <1>1, <1>4, ClientFields DEF Owning
  <2>2. client[c] = Holding("leased", lease)
    BY <1>1, <1>4 DEF ClientState, Holding, Idle, Requests
  <2>3. PICK pc \in {"validated", "returning"} :
           s = Holding(pc, lease) /\ (pc = "validated" <=> OnBooks(c))
    BY <2>2 DEF Holding
  <2>4. s \in ClientState /\ s.pc = pc /\ s.lease = lease BY <2>1, <2>3, ClientStates
  <2> HIDE DEF s
  <2>5. s.pc \in Owning /\ s.pc # "waiting" /\ s.pc # "running" /\ s.lease.epoch \leq epoch
        /\ (c \in DOMAIN leases => s.lease = leases[c])
    BY <1>1, <1>4, <2>4 DEF Owning, ClientsOf
  <2>6. ClientsOf([client EXCEPT ![c] = s], monitors, leases, epoch)
    BY <1>4, <1>5, <2>4, <2>5, OneMoves
  <2>7. ValidOf([client EXCEPT ![c] = s], leases, epoch, mode, code)
    BY <1>4, <1>7, <2>3, <2>4 DEF ValidOf, OnBooks
  <2>8. Clients' /\ Valid' BY <1>1, <1>7, <2>6, <2>7 DEF Clients, Valid, pool, books
  <2> QED BY <1>2, <1>3, <2>8 DEF IInv
<1> QED BY <1>6, <1>7

(* An evaluation enters the code of its lease, unless the pool was started    *)
(* anew since: the lease is on the books and pins the code, or the pool is    *)
(* down and the code is still there.                                          *)
LEMMA EntersItsCode ==
    ASSUME IInv, NEW c \in Client, client[c].pc = "validated", client[c].lease.epoch = epoch
    PROVE  code[client[c].lease.module] = client[c].lease.key
<1>1. client[c].lease \in Lease
  BY ClientFields DEF IInv, Clients, ClientsOf, Owning
<1>2. CASE mode = "down" BY <1>2 DEF IInv, Valid, ValidOf
<1>3. CASE mode # "down"
  <2>1. c \in DOMAIN leases /\ leases[c] = client[c].lease
    BY <1>3 DEF IInv, Valid, ValidOf, Clients, ClientsOf
  <2>2. slots[leases[c].module].status = "ready" /\ slots[leases[c].module].key = leases[c].key
    BY <2>1 DEF IInv, Books, BookOf, PinsOf
  <2>3. leases[c].module \in Module BY <1>1, <2>1 DEF Lease
  <2> QED BY <1>3, <2>1, <2>2, <2>3 DEF IInv, Loaded, LoadedOf
<1> QED BY <1>2, <1>3

(* A validated lease of a living pool is counted by its slot. *)
LEMMA LeaseIsCounted ==
    ASSUME IInv, mode # "down",
           NEW c \in Client, client[c].pc = "validated", client[c].lease.epoch = epoch
    PROVE  client[c].lease.module \in Module \ Evictable
<1>1. BookOf(slots, keyIndex, recent, leases, monitors, tasks, epoch) BY DEF IInv, Books
<1>2. c \in DOMAIN leases /\ leases[c] = client[c].lease
  BY DEF IInv, Valid, ValidOf, Clients, ClientsOf
<1> DEFINE m == client[c].lease.module
<1>3. m \in Module /\ c \in Owners(leases, m)
  BY <1>1, <1>2 DEF BookOf, TypedOf, Lease, Owners
<1>4. slots[m].count = Cardinality(Owners(leases, m)) BY <1>1, <1>3 DEF BookOf, CountsOf
<1>5. IsFiniteSet(Owners(leases, m)) BY <1>1, OwnersAreFinite DEF BookOf, TypedOf
<1>6. slots[m].count # 0 BY <1>3, <1>4, <1>5, FS_EmptySet
<1> QED BY <1>3, <1>6 DEF Evictable

LEMMA EnterKeeps ==
    ASSUME IInv, NEW c \in Client, Enter(c) PROVE IInv'
<1> DEFINE lease == client[c].lease
           runs == IF code[lease.module] \in Key THEN code[lease.module] ELSE NoKey
           s == [pc |-> "running", lease |-> lease, runs |-> runs]
<1>1. UNCHANGED <<pool, inbox, code, alive>> /\ client[c].pc = "validated"
      /\ client' = [client EXCEPT ![c] = s]
  BY DEF Enter, At, Become
<1>2. Books' /\ Loaded' /\ Quiet' BY <1>1, PoolKept DEF pool
<1>3. MailTyped' BY <1>1, MailKept DEF IInv, pool
<1>4. ClientsOf(client, monitors, leases, epoch) /\ ValidOf(client, leases, epoch, mode, code)
      /\ DOMAIN leases \subseteq Client /\ client \in [Client -> ClientState]
  BY DEF IInv, Clients, ClientsOf, Valid, Books, BookOf, TypedOf
<1>5. lease \in Lease BY <1>1, <1>4, ClientFields DEF Owning
<1>6. /\ s \in ClientState /\ s.pc = "running" /\ s.lease = lease
      /\ s.runs = runs
  BY <1>4, <1>5 DEF ClientState, Lease
<1>7. lease.epoch = epoch => runs = lease.key
  BY <1>1, <1>5, EntersItsCode DEF Lease
<1> HIDE DEF s
<1>8. s.pc \in Owning /\ s.pc # "waiting" /\ s.lease.epoch \leq epoch /\ s.pc # "validated"
      /\ (c \in DOMAIN leases => s.lease = leases[c])
      /\ ~(c \in DOMAIN monitors /\ monitors[c].for = "waiter")
  BY <1>1, <1>4, <1>6 DEF Owning, ClientsOf
<1>9. ClientsOf([client EXCEPT ![c] = s], monitors, leases, epoch)
  BY <1>4, <1>6, <1>7, <1>8, OneMoves
<1>10. ValidOf([client EXCEPT ![c] = s], leases, epoch, mode, code)
  BY <1>4, <1>8, OneMovesValid
<1>11. Clients' /\ Valid' BY <1>1, <1>9, <1>10 DEF Clients, Valid, pool, books
<1> QED BY <1>2, <1>3, <1>11 DEF IInv

LEMMA ReturnKeeps ==
    ASSUME IInv, NEW c \in Client, Return(c) PROVE IInv'
<1> DEFINE lease == client[c].lease
           s == Holding("returning", lease)
<1>1. UNCHANGED <<pool, inbox, code, alive>> /\ client[c].pc = "running"
      /\ client' = [client EXCEPT ![c] = IF mode = "down" THEN Idle ELSE s]
  BY DEF Return, At, Become
<1>2. Books' /\ Loaded' /\ Quiet' BY <1>1, PoolKept DEF pool
<1>3. MailTyped' BY <1>1, MailKept DEF IInv, pool
<1>4. ClientsOf(client, monitors, leases, epoch) /\ ValidOf(client, leases, epoch, mode, code)
      /\ DOMAIN leases \subseteq Client /\ client \in [Client -> ClientState]
  BY DEF IInv, Clients, ClientsOf, Valid, Books, BookOf, TypedOf
<1>5. ~(c \in DOMAIN monitors /\ monitors[c].for = "waiter")
  BY <1>1, <1>4 DEF ClientsOf
<1>6. CASE mode = "down"
  <2>1. c \notin DOMAIN leases BY <1>6 DEF IInv, Quiet, QuietOf
  <2>2. Clients' /\ Valid' BY <1>1, <1>4, <1>5, <1>6, <2>1, GoesIdle DEF pool, books
  <2> QED BY <1>2, <1>3, <2>2 DEF IInv
<1>7. CASE mode # "down"
  <2>1. lease \in Lease BY <1>1, <1>4, ClientFields DEF Owning
  <2>2. s \in ClientState /\ s.pc = "returning" /\ s.lease = lease BY <2>1, ClientStates
  <2> HIDE DEF s
  <2>3. s.pc \in Owning /\ s.pc # "waiting" /\ s.pc # "running" /\ s.lease.epoch \leq epoch
        /\ (c \in DOMAIN leases => s.lease = leases[c]) /\ s.pc # "validated"
    BY <1>1, <1>4, <2>2 DEF Owning, ClientsOf
  <2>4. ClientsOf([client EXCEPT ![c] = s], monitors, leases, epoch)
    BY <1>4, <1>5, <2>2, <2>3, OneMoves
  <2>5. ValidOf([client EXCEPT ![c] = s], leases, epoch, mode, code)
    BY <1>4, <2>3, OneMovesValid
  <2>6. Clients' /\ Valid' BY <1>1, <1>7, <2>4, <2>5 DEF Clients, Valid, pool, books
  <2> QED BY <1>2, <1>3, <2>6 DEF IInv
<1> QED BY <1>6, <1>7

(* The steps of which the pool learns later: a process ends, a message comes. *)
LEMMA OutsideKeeps ==
    ASSUME IInv, UNCHANGED <<pool, code, client>>, MailTyped' PROVE IInv'
<1>1. Books' /\ Loaded' /\ Quiet' BY PoolKept DEF pool
<1>2. Clients' /\ Valid' BY DEF IInv, Clients, Valid, pool, books
<1> QED BY <1>1, <1>2 DEF IInv

-----------------------------------------------------------------------------
(* The books of a pool that has just started. *)
LEMMA EmptyBooks ==
    ASSUME NEW failed \in SUBSET Module, NEW ix, NEW ls, NEW mo, NEW tk, NEW ep,
           DOMAIN ix = {}, DOMAIN ls = {}, DOMAIN mo = {}, DOMAIN tk = {}
    PROVE  BookOf(Started(failed), ix, {}, ls, mo, tk, ep)
<1> DEFINE sl == Started(failed)
<1>1. /\ sl \in [Module -> Slot]
      /\ \A m \in Module : ~Keyed(sl[m]) /\ sl[m].key = NoKey
      /\ \A m \in Module : sl[m].waiters = {} /\ sl[m].count = 0
  BY DEF Started, Blank, Slot, Keyed
<1> HIDE DEF sl
<1>2. SlotsOf(sl) BY <1>1 DEF SlotsOf
<1>3. TypedOf(ix, {}, ls, mo, tk) BY DEF TypedOf
<1>4. IndexOf(sl, ix) BY <1>1 DEF IndexOf
<1>5. PinsOf(sl, ls, ep) BY DEF PinsOf
<1>6. CountsOf(sl, ls)
  <2>1. \A m \in Module : Owners(ls, m) = {} BY DEF Owners
  <2> QED BY <1>1, <2>1, FS_EmptySet DEF CountsOf
<1>7. TasksOf(sl, tk) BY <1>1 DEF TasksOf, Keyed
<1>8. MonitorsOf(sl, ls, mo) BY <1>1 DEF MonitorsOf
<1>9. OrderOf(sl, {})
  <2>1. Listed({}) = {} BY DEF Listed
  <2>2. {m \in Module : sl[m].status = "ready"} = {} BY <1>1 DEF Keyed
  <2> QED BY <2>1, <2>2 DEF OrderOf
<1> QED BY <1>2, <1>3, <1>4, <1>5, <1>6, <1>7, <1>8, <1>9 DEF BookOf, sl

LEMMA InitIInv ==
    ASSUME Init PROVE IInv
<1>1. PICK failed \in SUBSET Module :
          /\ slots = Started(failed)
          /\ code = [m \in Module |-> IF m \in failed THEN OldCode ELSE NoKey]
  BY DEF Init
<1>2. /\ DOMAIN keyIndex = {} /\ DOMAIN leases = {} /\ DOMAIN monitors = {}
      /\ DOMAIN tasks = {} /\ recent = {}
  BY DEF Init
<1>3. Books BY <1>1, <1>2, EmptyBooks DEF Books
<1>4. \A m \in Module : slots[m].status # "ready" BY <1>1 DEF Started, Blank
<1>5. Loaded
  <2>1. \A m \in failed : slots[m].status = "quarantined" BY <1>1 DEF Started, Blank
  <2> QED BY <1>1, <1>4, <2>1 DEF Loaded, LoadedOf, Code
<1>6. \A c \in Client : client[c] = Idle /\ client[c].pc = "idle" /\ Idle \in ClientState
  BY ClientStates DEF Init
<1>7. client \in [Client -> ClientState] BY <1>6 DEF Init
<1>8. Clients BY <1>2, <1>6, <1>7 DEF Clients, ClientsOf, Owning
<1>9. Valid BY <1>6 DEF Valid, ValidOf
<1>10. Quiet BY DEF Init, Quiet, QuietOf
<1>11. MailTyped BY DEF Init, MailTyped
<1> QED BY <1>3, <1>5, <1>8, <1>9, <1>10, <1>11 DEF IInv

LEMMA CrashKeeps ==
    ASSUME IInv, Crash PROVE IInv'
<1>1. /\ DOMAIN keyIndex' = {} /\ DOMAIN leases' = {} /\ DOMAIN monitors' = {}
      /\ DOMAIN tasks' = {} /\ recent' = {} /\ drain' = "none" /\ mode' = "down"
      /\ slots' = Started({}) /\ UNCHANGED epoch
      /\ UNCHANGED code \/ \E failed \in SUBSET Evictable : Retire(Evictable, failed)
  BY DEF Crash
<1>11. code' \in [Module -> Code] /\ \A m \in Module \ Evictable : code'[m] = code[m]
  BY <1>1, RetiredIs DEF IInv, Loaded
<1>2. Books' BY <1>1, EmptyBooks DEF Books
<1>3. Loaded' BY <1>1, <1>11 DEF Loaded
<1>4. ClientsOf(client, monitors, leases, epoch) /\ client \in [Client -> ClientState]
      /\ Idle \in ClientState /\ Idle.pc = "idle"
  BY ClientStates DEF IInv, Clients, ClientsOf
<1>5. /\ client' \in [Client -> ClientState]
      /\ \A c \in Client : client'[c] \in {client[c], Idle} /\ client'[c].pc # "waiting"
  BY <1>4 DEF Crash, At
<1>6. \A c \in Client : client'[c].pc \in Owning => client'[c] = client[c]
  BY <1>4, <1>5 DEF Owning
<1>7. Clients' BY <1>1, <1>4, <1>5, <1>6 DEF Clients, ClientsOf, Owning
<1>8. Valid'
  <2> SUFFICES ASSUME NEW c \in Client, client'[c].pc = "validated",
                      client'[c].lease.epoch = epoch
               PROVE  code'[client[c].lease.module] = client[c].lease.key
                      /\ client'[c] = client[c]
    BY <1>1 DEF Valid, ValidOf
  <2>1. client'[c] = client[c] BY <1>6 DEF Owning
  <2>2. code[client[c].lease.module] = client[c].lease.key BY <2>1, EntersItsCode
  <2>3. client[c].lease.module \in Module \ Evictable
    BY <2>1, LeaseIsCounted DEF Crash
  <2> QED BY <2>1, <2>2, <2>3, <1>11
<1>9. Quiet' BY <1>1 DEF Quiet, QuietOf
<1>10. MailTyped' BY DEF Crash, IInv, MailTyped
<1> QED BY <1>2, <1>3, <1>7, <1>8, <1>9, <1>10 DEF IInv

LEMMA RestartKeeps ==
    ASSUME IInv, Restart PROVE IInv'
<1>1. PICK failed \in SUBSET Module : Retire(Module, failed) /\ slots' = Started(failed)
  BY DEF Restart
<1>2. /\ mode = "down" /\ mode' = "running" /\ epoch' = epoch + 1 /\ epoch \in Nat
      /\ UNCHANGED <<recent, keyIndex, skips, leases, monitors, tasks, drain,
                     inbox, client, alive>>
  BY DEF Restart, IInv, MailTyped
<1>3. /\ DOMAIN keyIndex' = {} /\ DOMAIN leases' = {} /\ DOMAIN monitors' = {}
      /\ DOMAIN tasks' = {} /\ recent' = {} /\ drain' = "none"
  BY <1>2 DEF IInv, Quiet, QuietOf
<1>4. Books' BY <1>1, <1>3, EmptyBooks DEF Books
<1>5. \A m \in Module : slots'[m].status # "ready" BY <1>1 DEF Started, Blank
<1>6. Loaded'
  <2>1. \A m \in failed : slots'[m].status = "quarantined" BY <1>1 DEF Started, Blank
  <2>2. /\ code' \in [Module -> Code]
        /\ \A m \in Module \ failed : code'[m] = NoKey
    BY <1>1, RetiredIs DEF IInv, Loaded
  <2> QED BY <1>5, <2>1, <2>2 DEF Loaded, LoadedOf
<1>7. ClientsOf(client, monitors, leases, epoch) BY DEF IInv, Clients
<1>8. \A c \in Client : client[c].pc \in Owning =>
          /\ client[c].lease.epoch \leq epoch /\ client[c].lease.epoch \in Nat
  BY <1>7, ClientFields DEF ClientsOf, Lease
<1>9. \A c \in Client : client[c].pc \in Owning =>
          client[c].lease.epoch \leq epoch' /\ client[c].lease.epoch # epoch'
  BY <1>2, <1>8
<1>10. Clients' BY <1>2, <1>7, <1>9 DEF Clients, ClientsOf, Owning
<1>11. Valid' BY <1>2, <1>9 DEF Valid, ValidOf, Owning
<1>12. Quiet' BY <1>2, <1>3 DEF Quiet, QuietOf
<1>13. MailTyped' BY <1>2 DEF IInv, MailTyped
<1> QED BY <1>4, <1>6, <1>10, <1>11, <1>12, <1>13 DEF IInv

-----------------------------------------------------------------------------
LEMMA StepKeepsIInv ==
    ASSUME IInv, [Next]_vars PROVE IInv'
<1>1. ASSUME NEW c \in Client, Serve(c) PROVE IInv'
  BY <1>1, CheckoutKeeps, CheckoutCachedKeeps, SkipKeeps, RefuseKeeps, CheckInKeeps,
     OwnerDownKeeps DEF Serve
<1>2. ASSUME NEW c \in Client, Evaluate(c) PROVE IInv'
  BY <1>2, ValidateKeeps, EnterKeeps, ReturnKeeps DEF Evaluate
<1>3. ASSUME NEW c \in Client, Ask(c) PROVE IInv' BY <1>3, AskKeeps
<1>4. ASSUME NEW c \in Client, Die(c) PROVE IInv'
  <2>1. UNCHANGED <<pool, code, client>> BY <1>4 DEF Die
  <2>2. MailTyped' BY <1>4 DEF Die, IInv, MailTyped, pool
  <2> QED BY <2>1, <2>2, OutsideKeeps
<1>5. ASSUME NEW r \in Ref, TaskEnds(r) \/ TimerFires(r) PROVE IInv'
  <2>1. UNCHANGED <<pool, code, client>> BY <1>5 DEF TaskEnds, TimerFires
  <2>2. inbox' \subseteq [kind : {"artifact", "error", "down", "timeout"}, ref : Ref]
    BY <1>5 DEF TaskEnds, TimerFires, IInv, MailTyped
  <2>3. UNCHANGED alive BY <1>5 DEF TaskEnds, TimerFires
  <2>4. MailTyped' BY <2>1, <2>2, <2>3 DEF IInv, MailTyped, pool
  <2> QED BY <2>1, <2>4, OutsideKeeps
<1>6. ASSUME NEW r \in Ref, Handle(r) PROVE IInv' BY <1>6, HandleKeeps
<1>7. CASE Drain BY <1>7, DrainKeeps
<1>8. CASE DrainTimeout BY <1>8, DrainTimeoutKeeps
<1>9. CASE Crash BY <1>9, CrashKeeps
<1>10. CASE Restart BY <1>10, RestartKeeps
<1>11. CASE UNCHANGED vars
  <2>1. UNCHANGED <<pool, code, client>> BY <1>11 DEF vars
  <2>2. MailTyped' BY <1>11 DEF vars, IInv, MailTyped, pool
  <2> QED BY <2>1, <2>2, OutsideKeeps
<1> QED BY <1>1, <1>2, <1>3, <1>4, <1>5, <1>6, <1>7, <1>8, <1>9, <1>10, <1>11 DEF Next

(* The invariant of the proofs: the books agree, the code loaded is that of   *)
(* the ready slots or left in quarantined ones, the clients know what the     *)
(* books say of them, and a pool that has drained or died has nothing on its  *)
(* books.                                                                     *)
THEOREM Invariant == Spec => []IInv
<1>1. Init => IInv BY InitIInv
<1>2. IInv /\ [Next]_vars => IInv' BY StepKeepsIInv
<1> QED BY <1>1, <1>2, PTL DEF Spec

(* The slots, key_index, monitor_index, the leases, the tasks and last_used   *)
(* of the pool agree after every handler, also after a crash and restart, and *)
(* no slot but a quarantined one has code that the books do not know.         *)
THEOREM BooksAgree == Spec => []BooksExact
<1>1. IInv => BooksExact
  <2> SUFFICES ASSUME IInv PROVE BooksExact OBVIOUS
  <2>1. BookOf(slots, keyIndex, recent, leases, monitors, tasks, epoch)
    BY DEF IInv, Books
  <2>2. TypeOK
    BY <2>1 DEF TypeOK, IInv, BookOf, SlotsOf, TypedOf, Loaded, Code, Clients,
                ClientsOf, Quiet, QuietOf, MailTyped
  <2>3. LeasesPinSlots
    <3>1. ASSUME NEW c \in DOMAIN leases
          PROVE  /\ slots[leases[c].module].status = "ready"
                 /\ slots[leases[c].module].key = leases[c].key
                 /\ slots[leases[c].module].generation = leases[c].generation
                 /\ leases[c].epoch = epoch
                 /\ code[leases[c].module] = slots[leases[c].module].key
      <4>1. leases[c].module \in Module BY <2>1 DEF BookOf, TypedOf, Lease
      <4>2. LoadedOf(slots, code) BY DEF IInv, Loaded, Quiet, QuietOf
      <4> QED BY <2>1, <4>1, <4>2 DEF BookOf, PinsOf, LoadedOf
    <3> QED BY <2>1, <3>1 DEF BookOf, CountsOf, Owners, LeasesPinSlots
  <2>4. IndexExact BY <2>1 DEF BookOf, IndexOf, IndexExact, Keyed
  <2>5. WaitersAccounted BY <2>1 DEF BookOf, TasksOf, MonitorsOf, WaitersAccounted
  <2>6. RecentExact BY <2>1 DEF BookOf, OrderOf, RecentExact
  <2>7. CodeOnBooks BY DEF IInv, Loaded, LoadedOf, CodeOnBooks
  <2> QED BY <2>2, <2>3, <2>4, <2>5, <2>6, <2>7 DEF BooksExact
<1> QED BY <1>1, Invariant, PTL

(* maybe_complete_drain: a pool that has drained holds no lease, task or key, *)
(* has answered unless the call timed out, and what code could not be purged  *)
(* is that of quarantined slots.                                              *)
THEOREM DrainedPoolIsIdle == Spec => []DrainedIsIdle
<1>1. IInv => DrainedIsIdle
  <2> SUFFICES ASSUME IInv PROVE DrainedIsIdle OBVIOUS
  <2>1. BookOf(slots, keyIndex, recent, leases, monitors, tasks, epoch)
    BY DEF IInv, Books
  <2>2. drain \in {"ok", "quarantined"} => mode = "drained" BY DEF IInv, Quiet, QuietOf
  <2>3. ASSUME mode = "drained"
        PROVE  /\ DOMAIN leases = {} /\ DOMAIN tasks = {} /\ DOMAIN keyIndex = {}
               /\ \A m \in Module : slots[m].status \in {"free", "quarantined"}
               /\ \A m \in Module : code[m] # NoKey => slots[m].status = "quarantined"
               /\ drain # "waiting"
    <3>1. DOMAIN leases = {} /\ DOMAIN tasks = {} /\ \A m \in Module : slots[m].status # "ready"
      BY <2>3 DEF IInv, Quiet, QuietOf
    <3>2. \A m \in Module : slots[m].status # "compiling"
      BY <2>1, <3>1 DEF BookOf, TasksOf
    <3>3. \A m \in Module : slots[m].status \in {"free", "quarantined"}
      BY <2>1, <3>1, <3>2 DEF BookOf, SlotsOf, Slot
    <3>4. DOMAIN keyIndex = {}
      <4> SUFFICES ASSUME NEW k \in DOMAIN keyIndex PROVE FALSE OBVIOUS
      <4>1. k \in Key /\ keyIndex[k] \in Module BY <2>1 DEF BookOf, TypedOf
      <4>2. Keyed(slots[keyIndex[k]]) BY <2>1, <4>1 DEF BookOf, IndexOf
      <4> QED BY <3>1, <3>2, <4>1, <4>2 DEF Keyed
    <3>5. \A m \in Module : code[m] # NoKey => slots[m].status = "quarantined"
      BY <2>3, <3>1 DEF IInv, Loaded, LoadedOf
    <3>6. drain # "waiting" BY <2>3 DEF IInv, Quiet, QuietOf
    <3> QED BY <3>1, <3>3, <3>4, <3>5, <3>6
  <2> QED BY <2>2, <2>3 DEF DrainedIsIdle
<1> QED BY <1>1, Invariant, PTL

(* invoke_lease: between the validation of a lease and the entry into its     *)
(* module nobody replaces the code, unless the pool dies and starts anew.     *)
THEOREM LeasedCodeRuns == Spec => []RunsLeasedCode
<1>1. IInv => RunsLeasedCode
  BY DEF IInv, Clients, ClientsOf, RunsLeasedCode, At, MailTyped
<1> QED BY <1>1, Invariant, PTL

(* A pool has as many lives as it crashes, and one more. *)
Lives == epoch \leq MaxCrashes /\ (mode = "down" => epoch < MaxCrashes)

LEMMA StepKeepsLives ==
    ASSUME IInv, Lives, [Next]_vars PROVE Lives'
<1> USE PoolAssumption
<1>1. epoch \in Nat BY DEF IInv, MailTyped
<1>2. ASSUME UNCHANGED epoch, mode # "down" => mode' # "down" PROVE Lives'
  BY <1>2 DEF Lives
<1>3. ASSUME NEW md, NEW call, NEW sl, NEW ix, NEW ls, NEW rec,
             Settle(md, call, sl, ix, ls, rec), md # "down"
      PROVE  mode' # "down"
  BY <1>3 DEF Settle
<1>4. ASSUME NEW c \in Client, CheckIn(c) \/ OwnerDown(c) PROVE Lives'
  BY <1>2, <1>3, <1>4 DEF CheckIn, OwnerDown, Release
<1>5. ASSUME NEW c \in Client,
             Checkout(c) \/ CheckoutCached(c) \/ Skip(c) \/ Refuse(c)
             \/ Evaluate(c) \/ Ask(c) \/ Die(c)
      PROVE  Lives'
  BY <1>2, <1>5
     DEF Checkout, CheckoutCached, Skip, Refuse, Evaluate, Validate, Enter, Return, Ask, Die, pool
<1>6. ASSUME NEW r \in Ref, TaskEnds(r) \/ TimerFires(r) \/ Handle(r) PROVE Lives'
  BY <1>2, <1>6 DEF TaskEnds, TimerFires, Handle, pool
<1>7. CASE Drain
  <2>1. mode' # "down" BY <1>3, <1>7 DEF Drain
  <2> QED BY <1>2, <1>7, <2>1 DEF Drain
<1>8. CASE DrainTimeout BY <1>2, <1>8 DEF DrainTimeout
<1>9. CASE Crash BY <1>1, <1>9 DEF Crash, Lives
<1>10. CASE Restart BY <1>1, <1>10 DEF Restart, Lives
<1>11. CASE UNCHANGED vars BY <1>2, <1>11 DEF vars, pool
<1> QED BY <1>4, <1>5, <1>6, <1>7, <1>8, <1>9, <1>10, <1>11 DEF Next, Serve

(* invoke_lease in a pool that never dies: whoever is in generated code is in *)
(* the code of its lease, whatever was evicted, drained or killed meanwhile.  *)
THEOREM WithoutCrashLeasedCodeRuns ==
    ASSUME MaxCrashes = 0
    PROVE  Spec => [](\A c \in Client : At(c, {"running"}) =>
                          client[c].runs = client[c].lease.key)
<1>1. Init => Lives BY PoolAssumption DEF Init, Lives
<1>2. IInv /\ Lives /\ [Next]_vars => Lives' BY StepKeepsLives
<1>3. IInv /\ Lives => \A c \in Client : At(c, {"running"}) =>
                           client[c].runs = client[c].lease.key
  <2> SUFFICES ASSUME IInv, Lives, NEW c \in Client, At(c, {"running"})
               PROVE  client[c].runs = client[c].lease.key
    OBVIOUS
  <2>1. epoch = 0 BY DEF IInv, MailTyped, Lives
  <2>2. client[c].pc \in Owning /\ client[c].pc = "running" BY DEF At, Owning
  <2>3. client[c].lease.epoch \in Nat /\ client[c].lease.epoch \leq epoch
    BY <2>2, ClientFields DEF IInv, Clients, ClientsOf, Lease
  <2> QED BY <2>1, <2>2, <2>3 DEF IInv, Clients, ClientsOf
<1> QED BY <1>1, <1>2, <1>3, Invariant, PTL DEF Spec
=============================================================================
