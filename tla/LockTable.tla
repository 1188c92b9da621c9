------------------------------ MODULE LockTable ------------------------------
(***************************************************************************)
(* What the lock server promises, without its queue, its mailbox or the    *)
(* sessions: a table of locks that changes one holder at a time and never  *)
(* holds two incompatible locks.                                           *)
(***************************************************************************)
CONSTANT Lock        \* records with fields name, mode, holder and ref
VARIABLE table       \* the locks held

Compatible(locks) ==
    \A l, m \in locks : l # m /\ l.name = m.name =>
                            l.mode = "shared" /\ m.mode = "shared"

Init == table = {}

(* One request is granted from the free state of its name. *)
Grant(l) == /\ l \notin table
            /\ table' = table \cup {l}

(* One holder gives up locks of one name; only that name is granted anew. *)
HandOver ==
    LET gone == table \ table'
        fresh == table' \ table
    IN  /\ gone # {}
        /\ \A l, m \in gone : l.holder = m.holder /\ l.name = m.name
        /\ \A l \in fresh, m \in gone : l.name = m.name

Next == /\ table' \subseteq Lock
        /\ Compatible(table')
        /\ HandOver \/ \E l \in Lock : Grant(l)

Spec == Init /\ [][Next]_table
=============================================================================
