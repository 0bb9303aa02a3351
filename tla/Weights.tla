------------------------------ MODULE Weights ------------------------------
(***************************************************************************)
(* Finite maps whose values are sizes, and what they add up to.            *)
(*                                                                         *)
(* The Path Session charges every object it retains against one byte       *)
(* ceiling.  The models keep those objects in maps from a key to a size;   *)
(* the total of such a map is the number of its units, one unit being a    *)
(* pair <<key, i>> with i in 1..size.  Counting units instead of folding   *)
(* an addition keeps the definition free of recursion, so its laws follow  *)
(* from the cardinality of finite sets (PathSessionProofs).                *)
(***************************************************************************)
EXTENDS Naturals, FiniteSets

\* Map insertion: HashMap::insert.
Put(f, k, v) == [x \in DOMAIN f \cup {k} |-> IF x = k THEN v ELSE f[x]]

\* Map removal of every key of S: HashMap::remove.
Without(f, S) == [x \in DOMAIN f \ S |-> f[x]]

\* The part of the map S names.
Only(f, S) == [x \in DOMAIN f \cap S |-> f[x]]

Units(f) == UNION {{k} \X (1 .. f[k]) : k \in DOMAIN f}

Weight(f) == Cardinality(Units(f))

\* f is a finite map with keys in K and values in V.
IsMap(f, K, V) ==
    /\ f = [k \in DOMAIN f |-> f[k]]
    /\ IsFiniteSet(DOMAIN f)
    /\ DOMAIN f \subseteq K
    /\ \A k \in DOMAIN f : f[k] \in V
=============================================================================
