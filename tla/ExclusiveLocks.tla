--------------------------- MODULE ExclusiveLocks ---------------------------
(***************************************************************************)
(* What a caller expects of MutationLocks: one lock per key, held by one   *)
(* call at a time.                                                         *)
(***************************************************************************)
CONSTANTS Call, Key, None

VARIABLE holder

Init == holder = [k \in Key |-> None]

Take(c, k) == holder[k] = None /\ holder' = [holder EXCEPT ![k] = c]

\* The guards of a lock set drop one after another.
Release(c, k) == holder[k] = c /\ holder' = [holder EXCEPT ![k] = None]

Next == \E c \in Call, k \in Key : Take(c, k) \/ Release(c, k)

Spec == Init /\ [][Next]_holder
=============================================================================
