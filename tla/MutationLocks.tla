---------------------------- MODULE MutationLocks ----------------------------
(***************************************************************************)
(* The registry of per-Resource mutexes: MutationLocks::acquire in         *)
(* crates/resourcefs-core/src/mutation.rs.                                 *)
(*                                                                         *)
(* A map from a key to a Weak reference to a tokio Mutex.  acquire() locks *)
(* the map, prunes the entries whose mutex nobody holds an Arc of, takes   *)
(* an Arc for each of its keys (creating the mutex when there is none, or  *)
(* when the last Arc went away since), unlocks the map, and only then      *)
(* awaits the mutexes one after another in key order.  A guard owns its    *)
(* Arc, and dropping one touches neither the map nor its lock.             *)
(*                                                                         *)
(* Mutexes are told apart by an identity that is given out again once      *)
(* nobody holds an Arc of the old one, as memory is.  A Weak whose mutex   *)
(* is gone cannot be upgraded, so pruning and inserting under the lock of  *)
(* the map are one step here.                                              *)
(***************************************************************************)
EXTENDS Naturals, FiniteSets

CONSTANTS
    Call,    \* calls of acquire
    Key,     \* lock keys, ordered as sort_unstable orders them
    Mutex,   \* identities of mutexes
    None

ASSUME KeyAssumption == Key \subseteq Nat

ASSUME NoneAssumption == None \notin Call /\ None \notin Mutex

VARIABLES
    registry, \* key -> the mutex its Weak points to, or None
    arcs,     \* call -> the mutex it holds an Arc of, by key, or None
    held,     \* call -> the keys it holds the guard of
    phase     \* call -> "out", "locking" or "leaving"

vars == <<registry, arcs, held, phase>>

\* Arc::strong_count is their number.
Owners(m) == {c \in Call : \E k \in Key : arcs[c][k] = m}

\* The keys of a call's lock set.
Wanted(c) == {k \in Key : arcs[c][k] # None}

Locked(m) == \E c \in Call : \E k \in held[c] : arcs[c][k] = m

Init ==
    /\ registry = [k \in Key |-> None]
    /\ arcs = [c \in Call |-> [k \in Key |-> None]]
    /\ held = [c \in Call |-> {}]
    /\ phase = [c \in Call |-> "out"]

\* The entry survives entries.retain and its Weak can be upgraded.
Usable(k) == registry[k] # None /\ Owners(registry[k]) # {}

\* Under the lock of the map: prune it, and take an Arc for every key, of a
\* new mutex where there is none.
Enter(c, keys) ==
    /\ phase[c] = "out"
    /\ \E fresh \in [{k \in keys : ~Usable(k)} -> Mutex] :
         /\ \A k \in DOMAIN fresh : Owners(fresh[k]) = {}
         /\ \A k, j \in DOMAIN fresh : fresh[k] = fresh[j] => k = j
         /\ registry' = [k \in Key |-> CASE Usable(k) -> registry[k]
                                         [] k \in DOMAIN fresh -> fresh[k]
                                         [] OTHER -> None]
    /\ arcs' = [arcs EXCEPT ![c] =
                  [k \in Key |-> IF k \in keys THEN registry'[k] ELSE None]]
    /\ phase' = [phase EXCEPT ![c] = "locking"]
    /\ UNCHANGED held

\* Mutant: the largest key comes first for some calls.
IsNextUnsorted(c, k) ==
    \A j \in Wanted(c) \ held[c] :
        IF c = CHOOSE d \in Call : TRUE THEN k >= j ELSE k <= j

\* k is the smallest key that is not locked yet.
IsNext(c, k) == \A j \in Wanted(c) \ held[c] : k <= j

\* Mutant: a try_lock whose failure goes unnoticed.
MayLockAlways(m) == TRUE

MayLock(m) == ~Locked(m)

\* lock_owned() of the next mutex.
Lock(c, k) ==
    /\ phase[c] = "locking"
    /\ k \in Wanted(c) \ held[c]
    /\ IsNext(c, k)
    /\ MayLock(arcs[c][k])
    /\ held' = [held EXCEPT ![c] = @ \cup {k}]
    /\ UNCHANGED <<registry, arcs, phase>>

\* The lock set drops, or the future that is still waiting for it: guards and
\* Arcs go one by one.
Leave(c, k) ==
    /\ phase[c] # "out"
    /\ k \in Wanted(c)
    /\ held' = [held EXCEPT ![c] = @ \ {k}]
    /\ arcs' = [arcs EXCEPT ![c][k] = None]
    /\ phase' = [phase EXCEPT ![c] = IF Wanted(c) = {k} THEN "out"
                                     ELSE "leaving"]
    /\ UNCHANGED registry

Next ==
    \E c \in Call :
        \/ \E keys \in (SUBSET Key) \ {{}} : Enter(c, keys)
        \/ \E k \in Key : Lock(c, k) \/ Leave(c, k)

Spec == Init /\ [][Next]_vars

\* tokio mutexes are FIFO; a call that has its locks, or lost interest in
\* them, gives them back.
Depart(c) == /\ phase[c] = "leaving" \/ held[c] = Wanted(c)
             /\ \E k \in Key : Leave(c, k)

LocksFairness ==
    \A c \in Call : SF_vars(\E k \in Key : Lock(c, k)) /\ WF_vars(Depart(c))

-----------------------------------------------------------------------------
(* Properties.                                                             *)

\* Every variable has its shape, nobody holds a guard without its Arc, and a
\* call outside acquire holds neither.
TypeOK ==
    /\ registry \in [Key -> Mutex \cup {None}]
    /\ arcs \in [Call -> [Key -> Mutex \cup {None}]]
    /\ held \in [Call -> SUBSET Key]
    /\ \A c \in Call : held[c] \subseteq Wanted(c)
    /\ phase \in [Call -> {"out", "locking", "leaving"}]
    /\ \A c \in Call : phase[c] = "out" => Wanted(c) = {}

\* Mutations of one Resource serialize: a key is never held by two calls,
\* although its mutex may have been forgotten and made anew in between.
Exclusion ==
    \A c, d \in Call : c # d => held[c] \cap held[d] = {}

\* Why: all calls that share a key share the mutex the registry has for it,
\* and no mutex stands for two keys.
Agreement ==
    /\ \A c \in Call, k \in Key :
         arcs[c][k] # None => registry[k] = arcs[c][k]
    /\ \A k, j \in Key :
         registry[k] # None /\ registry[k] = registry[j] => k = j

\* No set of calls with crossing lock sets waits for itself.
LocksGranted ==
    \A c \in Call : (phase[c] = "locking") ~>
        (phase[c] # "locking" \/ held[c] = Wanted(c))

\* The registry behaves like one lock per key.
Simple == INSTANCE ExclusiveLocks WITH
    holder <- [k \in Key |-> IF \E c \in Call : k \in held[c]
                             THEN CHOOSE c \in Call : k \in held[c] ELSE None]

ImplementsLocks == Simple!Spec
=============================================================================
