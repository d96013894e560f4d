---------------------------- MODULE AdapterTable ----------------------------
(***************************************************************************)
(* What the router promises to the datapath, which reads it without a      *)
(* lock: a table from controllers to adapters that changes in whole steps. *)
(* An adapter drives one controller and a controller drives one adapter    *)
(* (server/router.py, Router.assign), at every instant.  Router implements *)
(* this with several dictionaries, a lock and fields that change one by    *)
(* one.                                                                    *)
(***************************************************************************)
CONSTANTS Adapters, Clients, Slots, None

Keys == Clients \X Slots

VARIABLE table       \* controller -> the adapter it drives, or None

Init == table = [k \in Keys |-> None]

Give(x, k) ==
    table' = [j \in Keys |-> IF j = k THEN x
                             ELSE IF table[j] = x THEN None ELSE table[j]]

Release(x) == table' = [j \in Keys |-> IF table[j] = x THEN None ELSE table[j]]

ReleaseClient(c) == table' = [j \in Keys |-> IF j[1] = c THEN None ELSE table[j]]

Next == \/ \E x \in Adapters, k \in Keys : Give(x, k)
        \/ \E x \in Adapters : Release(x)
        \/ \E c \in Clients : ReleaseClient(c)

Spec == Init /\ [][Next]_table

OneToOne == \A j, k \in Keys : j # k /\ table[j] = table[k] => table[j] = None
=============================================================================
