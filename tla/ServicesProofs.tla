--------------------------- MODULE ServicesProofs ---------------------------
(***************************************************************************)
(* Proofs about the four services, for any number of calls, keys, mutexes,  *)
(* commands, events, files and requests.                                    *)
(*                                                                         *)
(* The locks have an inductive invariant of their own: TypeOK, Agreement    *)
(* and Exclusion.  Agreement is what the registry is for: whoever holds an  *)
(* Arc for a key holds the one the registry points to, so the entry is      *)
(* usable and the next call gets the same mutex, whatever has been pruned   *)
(* meanwhile.                                                               *)
(***************************************************************************)
EXTENDS Services, Integers, Sequences, Weights, FiniteSetTheorems, TLAPS

-----------------------------------------------------------------------------
(* The mutation locks *)

LocksInv == TypeOK /\ Agreement /\ Exclusion

\* At first the registry is empty.
LEMMA LocksInit == Init => LocksInv
  BY NoneAssumption DEF Init, LocksInv, TypeOK, Agreement, Exclusion, Wanted

\* What an acquire finds in the registry under a key somebody has an Arc for.
LEMMA UsedKeys ==
    ASSUME TypeOK, Agreement, NEW c \in Call, NEW k \in Key, arcs[c][k] # None
    PROVE  Usable(k) /\ registry[k] = arcs[c][k] /\ c \in Owners(registry[k])
  BY NoneAssumption DEF TypeOK, Agreement, Usable, Owners

\* A call that finds a live mutex shares it, and one that finds none makes one
\* that nobody uses.
LEMMA EnterStep ==
    ASSUME LocksInv, NEW c \in Call, NEW keys \in SUBSET Key, Enter(c, keys)
    PROVE  LocksInv'
  <1>1. PICK fresh \in [{k \in keys : ~Usable(k)} -> Mutex] :
          /\ \A k \in DOMAIN fresh : Owners(fresh[k]) = {}
          /\ \A k, j \in DOMAIN fresh : fresh[k] = fresh[j] => k = j
          /\ registry' = [k \in Key |-> CASE Usable(k) -> registry[k]
                                          [] k \in DOMAIN fresh -> fresh[k]
                                          [] OTHER -> None]
    BY DEF Enter
  <1>2. /\ phase[c] = "out" /\ held' = held
        /\ arcs' = [arcs EXCEPT ![c] =
                      [k \in Key |-> IF k \in keys THEN registry'[k] ELSE None]]
        /\ phase' = [phase EXCEPT ![c] = "locking"]
    BY DEF Enter
  <1>3. TypeOK /\ Agreement /\ Exclusion
    BY DEF LocksInv
  <1>4. /\ registry \in [Key -> Mutex \cup {None}]
        /\ arcs \in [Call -> [Key -> Mutex \cup {None}]]
        /\ Wanted(c) = {} /\ held[c] = {}
    BY <1>2, <1>3 DEF TypeOK
  <1>5. \A k \in Key : /\ Usable(k) => registry'[k] = registry[k]
                       /\ ~Usable(k) /\ k \in keys => registry'[k] = fresh[k]
                       /\ ~Usable(k) /\ k \notin keys => registry'[k] = None
    BY <1>1
  <1>6. /\ registry' \in [Key -> Mutex \cup {None}]
        /\ \A k \in keys : registry'[k] # None
    BY <1>1, <1>4, <1>5, NoneAssumption DEF Usable
  <1>7. \A d \in Call, k \in Key :
          arcs'[d][k] = IF d # c THEN arcs[d][k]
                        ELSE IF k \in keys THEN registry'[k] ELSE None
    BY <1>2, <1>4
  <1>8. arcs' \in [Call -> [Key -> Mutex \cup {None}]]
    BY <1>2, <1>4, <1>6
  <1>9. TypeOK'
    <2>1. \A d \in Call : held'[d] \subseteq Wanted(d)'
      BY <1>2, <1>3, <1>4, <1>7 DEF TypeOK, Wanted
    <2>2. \A d \in Call : phase'[d] = "out" => Wanted(d)' = {}
      BY <1>2, <1>3, <1>7 DEF TypeOK, Wanted
    <2> QED
      BY <1>2, <1>3, <1>6, <1>8, <2>1, <2>2 DEF TypeOK
  <1>10. \A d \in Call, k \in Key : arcs'[d][k] # None => registry'[k] = arcs'[d][k]
    <2> SUFFICES ASSUME NEW d \in Call, NEW k \in Key, arcs'[d][k] # None
                 PROVE  registry'[k] = arcs'[d][k]
      OBVIOUS
    <2>1. CASE d = c
      BY <2>1, <1>7
    <2>2. CASE d # c
      <3>1. arcs[d][k] # None /\ arcs'[d][k] = arcs[d][k]
        BY <2>2, <1>7
      <3> QED
        BY <3>1, <1>3, <1>5, UsedKeys
    <2> QED
      BY <2>1, <2>2
  \* No mutex of the new registry stands for two keys.
  <1>11. \A k, j \in Key : registry'[k] # None /\ registry'[k] = registry'[j] => k = j
    <2> SUFFICES ASSUME NEW k \in Key, NEW j \in Key,
                        registry'[k] # None, registry'[k] = registry'[j]
                 PROVE  k = j
      OBVIOUS
    <2>2. CASE Usable(k) /\ Usable(j)
      BY <2>2, <1>3, <1>5 DEF Usable, Agreement
    <2>3. CASE ~Usable(k) /\ ~Usable(j)
      <3>1. k \in DOMAIN fresh /\ j \in DOMAIN fresh /\ fresh[k] = fresh[j]
        BY <2>3, <1>1, <1>5
      <3> QED
        BY <3>1, <1>1
    <2>4. ASSUME NEW i \in Key, NEW e \in Key, Usable(i), ~Usable(e), e \in keys
          PROVE  registry'[i] # registry'[e]
      BY <2>4, <1>1, <1>5 DEF Usable
    <2> QED
      BY <2>2, <2>3, <2>4, <1>5
  <1>12. Agreement'
    BY <1>10, <1>11 DEF Agreement
  <1>13. Exclusion'
    BY <1>2, <1>3 DEF Exclusion
  <1> QED
    BY <1>9, <1>12, <1>13 DEF LocksInv

\* Whoever locks a key's mutex takes the key from nobody, because all who want
\* it have that mutex.
LEMMA LockStep ==
    ASSUME LocksInv, NEW c \in Call, NEW k \in Key, Lock(c, k)
    PROVE  /\ LocksInv'
           /\ \A d \in Call : k \notin held[d]
           /\ held' = [held EXCEPT ![c] = held[c] \cup {k}]
  <1>1. /\ held' = [held EXCEPT ![c] = held[c] \cup {k}]
        /\ UNCHANGED <<registry, arcs, phase>>
        /\ k \in Wanted(c) \ held[c]
        /\ ~Locked(arcs[c][k])
    BY DEF Lock, MayLock
  <1>2. TypeOK /\ Agreement /\ Exclusion
    BY DEF LocksInv
  \* A guard of another call for k would be a guard of the same mutex.
  <1>3. \A d \in Call : k \notin held[d]
    <2> SUFFICES ASSUME NEW d \in Call, k \in held[d] PROVE FALSE
      OBVIOUS
    <2>1. arcs[d][k] # None /\ arcs[c][k] # None
      BY <1>1, <1>2 DEF TypeOK, Wanted
    <2>2. arcs[d][k] = arcs[c][k]
      BY <2>1, <1>2 DEF Agreement
    <2> QED
      BY <1>1, <2>2 DEF Locked
  <1>4. TypeOK'
    BY <1>1, <1>2 DEF TypeOK, Wanted
  <1>5. Agreement'
    BY <1>1, <1>2 DEF Agreement
  <1>6. Exclusion'
    BY <1>1, <1>2, <1>3 DEF Exclusion, TypeOK
  <1> QED
    BY <1>1, <1>3, <1>4, <1>5, <1>6 DEF LocksInv

\* A call that leaves takes its guard with it, and the entry stays as long as
\* others own it.
LEMMA LeaveStep ==
    ASSUME LocksInv, NEW c \in Call, NEW k \in Key, Leave(c, k)
    PROVE  LocksInv' /\ held' = [held EXCEPT ![c] = held[c] \ {k}]
  <1>1. /\ held' = [held EXCEPT ![c] = held[c] \ {k}]
        /\ arcs' = [arcs EXCEPT ![c][k] = None]
        /\ phase' = [phase EXCEPT ![c] = IF Wanted(c) = {k} THEN "out"
                                         ELSE "leaving"]
        /\ registry' = registry
        /\ phase[c] # "out"
    BY DEF Leave
  <1>2. TypeOK /\ Agreement /\ Exclusion
    BY DEF LocksInv
  <1>3. arcs' \in [Call -> [Key -> Mutex \cup {None}]]
    BY <1>1, <1>2 DEF TypeOK
  <1>4. \A d \in Call, j \in Key :
          arcs'[d][j] = IF d = c /\ j = k THEN None ELSE arcs[d][j]
    BY <1>1, <1>2 DEF TypeOK
  <1>5. \A d \in Call : Wanted(d)' = IF d = c THEN Wanted(d) \ {k} ELSE Wanted(d)
    BY <1>4 DEF Wanted
  <1>6. TypeOK'
    BY <1>1, <1>2, <1>3, <1>5 DEF TypeOK
  <1>7. Agreement'
    BY <1>1, <1>2, <1>4 DEF Agreement
  <1>8. Exclusion'
    BY <1>1, <1>2 DEF Exclusion, TypeOK
  <1> QED
    BY <1>1, <1>6, <1>7, <1>8 DEF LocksInv

\* The steps together.
LEMMA LocksStep == LocksInv /\ [Next]_vars => LocksInv'
  <1> SUFFICES ASSUME LocksInv, [Next]_vars PROVE LocksInv'
    OBVIOUS
  <1>1. CASE UNCHANGED vars
    BY <1>1 DEF vars, LocksInv, TypeOK, Agreement, Exclusion, Wanted
  <1>2. ASSUME NEW c \in Call, NEW keys \in (SUBSET Key) \ {{}}, Enter(c, keys)
        PROVE  LocksInv'
    BY <1>2, EnterStep
  <1>3. ASSUME NEW c \in Call, NEW k \in Key, Lock(c, k) PROVE LocksInv'
    BY <1>3, LockStep
  <1>4. ASSUME NEW c \in Call, NEW k \in Key, Leave(c, k) PROVE LocksInv'
    BY <1>4, LeaveStep
  <1> QED
    BY <1>1, <1>2, <1>3, <1>4 DEF Next

\* Hence the invariant.
LEMMA LocksInvariant == Spec => []LocksInv
  BY LocksInit, LocksStep, PTL DEF Spec

\* The maps keep their shape, and a guard always comes with its Arc.
THEOREM LocksTypeCorrect == Spec => []TypeOK
  BY LocksInvariant, PTL DEF LocksInv

\* Everyone who has an Arc for a key has the registry's.
THEOREM LocksAgree == Spec => []Agreement
  BY LocksInvariant, PTL DEF LocksInv

\* No two mutating calls ever hold the lock of the same Resource.
THEOREM LocksExclude == Spec => []Exclusion
  BY LocksInvariant, PTL DEF LocksInv

-----------------------------------------------------------------------------
(* The registry implements one lock per key.                               *)

HolderOf == [k \in Key |-> IF \E c \in Call : k \in held[c]
                           THEN CHOOSE c \in Call : k \in held[c] ELSE None]

\* Only one call can be chosen.
LEMMA HolderUnique ==
    ASSUME Exclusion, NEW c \in Call, NEW k \in Key, k \in held[c]
    PROVE  HolderOf[k] = c
  <1> DEFINE d == CHOOSE d \in Call : k \in held[d]
  <1>1. d \in Call /\ k \in held[d]
    OBVIOUS
  <1>2. d = c
    BY <1>1 DEF Exclusion
  <1> QED
    BY <1>2 DEF HolderOf

\* In the next state too, the holder of a key is the one call that has it.
LEMMA HolderUniqueNext ==
    ASSUME Exclusion', NEW c \in Call, NEW k \in Key, k \in held'[c]
    PROVE  HolderOf'[k] = c
  <1> DEFINE d == CHOOSE d \in Call : k \in held'[d]
  <1>1. d \in Call /\ k \in held'[d]
    OBVIOUS
  <1>2. d = c
    BY <1>1 DEF Exclusion
  <1> QED
    BY <1>2 DEF HolderOf

\* A key that no call has is free.
LEMMA HolderNone ==
    ASSUME NEW k \in Key, \A c \in Call : k \notin held[c]
    PROVE  HolderOf[k] = None
  BY DEF HolderOf

\* Taking and leaving a key are the steps of the simple lock, all others
\* stutter.
LEMMA SimpleStep == LocksInv /\ LocksInv' /\ [Next]_vars => [Simple!Next]_HolderOf
  <1> SUFFICES ASSUME LocksInv, LocksInv', [Next]_vars
               PROVE  Simple!Next \/ HolderOf' = HolderOf
    OBVIOUS
  <1>1. ASSUME held' = held PROVE HolderOf' = HolderOf
    BY <1>1 DEF HolderOf
  <1>2. TypeOK /\ Exclusion /\ Exclusion' /\ TypeOK'
    BY DEF LocksInv
  \* A key whose guards did not change keeps its holder.
  <1>3. ASSUME NEW j \in Key, \A d \in Call : j \in held'[d] <=> j \in held[d]
        PROVE  HolderOf'[j] = HolderOf[j]
    <2>1. CASE \E d \in Call : j \in held[d]
      <3>1. PICK d \in Call : j \in held[d] /\ j \in held'[d]
        BY <2>1, <1>3
      <3>2. HolderOf[j] = d
        BY <3>1, <1>2, HolderUnique
      <3>3. HolderOf'[j] = d
        BY <3>1, <1>2, HolderUniqueNext
      <3> QED
        BY <3>2, <3>3
    <2>2. CASE \A d \in Call : j \notin held[d]
      BY <2>2, <1>3 DEF HolderOf
    <2> QED
      BY <2>1, <2>2
  <1>4. ASSUME NEW c \in Call, NEW k \in Key, Lock(c, k) PROVE Simple!Take(c, k)
    <2>1. /\ \A d \in Call : k \notin held[d]
          /\ held' = [held EXCEPT ![c] = held[c] \cup {k}]
      BY <1>4, LockStep
    <2>2. HolderOf[k] = None
      BY <2>1, HolderNone
    <2>3. k \in held'[c]
      BY <2>1, <1>2 DEF TypeOK
    <2>4. HolderOf'[k] = c
      BY <2>3, <1>2, HolderUniqueNext
    <2>5. \A j \in Key : j # k => HolderOf'[j] = HolderOf[j]
      BY <2>1, <1>2, <1>3 DEF TypeOK
    <2>6. /\ HolderOf = [j \in Key |-> HolderOf[j]]
          /\ HolderOf' = [j \in Key |-> HolderOf'[j]]
      BY DEF HolderOf
    <2>7. HolderOf' = [HolderOf EXCEPT ![k] = c]
      BY <2>4, <2>5, <2>6
    <2> QED
      BY <2>2, <2>7 DEF Simple!Take, HolderOf
  <1>5. ASSUME NEW c \in Call, NEW k \in Key, Leave(c, k)
        PROVE  Simple!Release(c, k) \/ HolderOf' = HolderOf
    <2>1. held' = [held EXCEPT ![c] = held[c] \ {k}]
      BY <1>5, LeaveStep
    <2>2. CASE k \notin held[c]
      BY <2>1, <2>2, <1>1, <1>2 DEF TypeOK
    <2>3. CASE k \in held[c]
      <3>1. HolderOf[k] = c
        BY <2>3, <1>2, HolderUnique
      <3>2. \A d \in Call : k \notin held'[d]
        BY <2>1, <2>3, <1>2 DEF TypeOK, Exclusion
      <3>3. HolderOf'[k] = None
        BY <3>2 DEF HolderOf
      <3>4. \A j \in Key : j # k => HolderOf'[j] = HolderOf[j]
        BY <2>1, <1>2, <1>3 DEF TypeOK
      <3>5. HolderOf' = [HolderOf EXCEPT ![k] = None]
        BY <3>3, <3>4 DEF HolderOf
      <3> QED
        BY <3>1, <3>5 DEF Simple!Release, HolderOf
    <2> QED
      BY <2>2, <2>3
  <1>6. ASSUME NEW c \in Call, NEW keys \in SUBSET Key, Enter(c, keys)
        PROVE  HolderOf' = HolderOf
    BY <1>6, <1>1 DEF Enter
  <1>7. CASE UNCHANGED vars
    BY <1>7, <1>1 DEF vars
  <1> QED
    BY <1>4, <1>5, <1>6, <1>7 DEF Next, Simple!Next

\* Whatever is pruned, forgotten and made anew, callers see one lock per key
\* that is taken when it is free and given back by its holder.
THEOREM LocksImplement == Spec => ImplementsLocks
  <1>1. Init => Simple!Init
    BY DEF Init, Simple!Init
  <1>2. LocksInv /\ LocksInv' /\ [Next]_vars => [Simple!Next]_HolderOf
    BY SimpleStep
  <1>3. HolderOf = [k \in Key |-> IF \E c \in Call : k \in held[c]
                                  THEN CHOOSE c \in Call : k \in held[c] ELSE None]
    BY DEF HolderOf
  <1> QED
    BY <1>1, <1>2, LocksInvariant, PTL
      DEF Spec, ImplementsLocks, Simple!Spec, HolderOf

-----------------------------------------------------------------------------
(* The command executor *)

Held == {c \in Commands : step[c] \in Runner!Holding}

RunnerTyped ==
    /\ step \in [Commands -> {"idle", "waiting", "returned"} \cup Runner!Holding]
    /\ answer \in [Commands -> {"none"} \cup Runner!Outcomes]
    /\ stop \in [Commands -> {"none", "limit", "cancelled", "io"}]
    /\ child \in [Commands -> {"none", "live", "exited", "reaped"}]
    /\ rest \in [Commands -> {"none", "live", "gone"}]
    /\ failed \in [Commands -> BOOLEAN]

\* A permit is out for every call between admission and return.
PermitsOut == free \in Nat /\ free + Cardinality(Held) = Permits

\* Nothing runs before the spawn; what outlives the clean-up has made it fail;
\* what outlives the return can not be signalled, and a stop has said so.
TreesKept ==
    \A c \in Commands :
        /\ step[c] \in {"idle", "waiting", "admitted"} => child[c] = "none" /\ rest[c] = "none"
        /\ step[c] \in {"reaping", "again", "joining"} /\ Runner!GroupLive(c) => failed[c]
        /\ step[c] = "returned" /\ Runner!GroupLive(c) =>
             /\ c \in Immune
             /\ answer[c] \in {"cleanup", "ok", "dropped", "panicked"}

RunnerInv == RunnerTyped /\ PermitsOut /\ TreesKept

\* The disjuncts of the next-state relation of the executor, for one command.
RunnerStep(c) ==
    \/ Runner!Enter(c) \/ Runner!InputRefused(c) \/ Runner!Executor(c) \/ Runner!Pipes(c)
    \/ Runner!Abandon(c) \/ Runner!Cancel(c) \/ Runner!DeadlinePasses(c) \/ Runner!Processes(c)

\* Every step of a command keeps the types.
LEMMA RunnerTypedKept ==
    ASSUME RunnerTyped, NEW c \in Commands, RunnerStep(c)
    PROVE  RunnerTyped'
  <1>1. ASSUME Runner!Enter(c) PROVE RunnerTyped'
    BY <1>1 DEF Runner!Enter, Runner!io, Runner!tree, Runner!Stays, Runner!Goto, RunnerTyped,
           Runner!Holding, Runner!Outcomes
  <1>2. ASSUME Runner!InputRefused(c) PROVE RunnerTyped'
    BY <1>2 DEF Runner!InputRefused, Runner!tree, Runner!Return, Runner!Goto, Runner!Holding,
           RunnerTyped, Runner!Outcomes
  <1>3. ASSUME Runner!CancelledWaiting(c) PROVE RunnerTyped'
    BY <1>3 DEF Runner!CancelledWaiting, Runner!tree, Runner!Return, Runner!Goto,
           Runner!Holding, RunnerTyped, Runner!Outcomes
  <1>4. ASSUME Runner!ExpiredWaiting(c) PROVE RunnerTyped'
    BY <1>4 DEF Runner!ExpiredWaiting, Runner!tree, Runner!Return, Runner!Goto, Runner!Holding,
           RunnerTyped, Runner!Outcomes
  <1>5. ASSUME Runner!Admit(c) PROVE RunnerTyped'
    BY <1>5 DEF Runner!Admit, Runner!io, Runner!tree, Runner!Goto, RunnerTyped, Runner!Holding,
           Runner!Outcomes
  <1>6. ASSUME Runner!BuildFails(c) PROVE RunnerTyped'
    BY <1>6 DEF Runner!BuildFails, Runner!tree, Runner!Return, Runner!Goto, Runner!Holding,
           RunnerTyped, Runner!Outcomes
  <1>7. ASSUME Runner!Spawn(c) PROVE RunnerTyped'
    BY <1>7 DEF Runner!Spawn, Runner!Stays, Runner!Goto, RunnerTyped, Runner!Holding,
           Runner!Outcomes
  <1>8. ASSUME Runner!OutputLimit(c) PROVE RunnerTyped'
    BY <1>8 DEF Runner!OutputLimit, Runner!StopWith, Runner!Stays, Runner!Goto, Runner!tree,
           RunnerTyped, Runner!Holding, Runner!Outcomes
  <1>9. ASSUME Runner!Succeed(c) PROVE RunnerTyped'
    BY <1>9 DEF Runner!Succeed, Runner!Return, Runner!Goto, Runner!Holding, Runner!TreeDropped,
           Runner!Killed, RunnerTyped, Runner!Outcomes
  <1>10. ASSUME Runner!StopCancelled(c) PROVE RunnerTyped'
    BY <1>10 DEF Runner!StopCancelled, Runner!StopWith, Runner!Stays, Runner!Goto, Runner!tree,
           RunnerTyped, Runner!Holding, Runner!Outcomes
  <1>11. ASSUME Runner!StopExpired(c) PROVE RunnerTyped'
    BY <1>11 DEF Runner!StopExpired, Runner!StopWith, Runner!Stays, Runner!Goto, Runner!tree,
           RunnerTyped, Runner!Holding, Runner!Outcomes
  <1>12. ASSUME Runner!TakeExit(c) PROVE RunnerTyped'
    BY <1>12 DEF Runner!TakeExit, Runner!Stays, RunnerTyped, Runner!Holding, Runner!Outcomes
  <1>13. ASSUME Runner!GroupGone(c) PROVE RunnerTyped'
    BY <1>13 DEF Runner!GroupGone, Runner!io, Runner!Stays, Runner!Goto, Runner!GroupLive,
           RunnerTyped, Runner!Holding, Runner!Outcomes
  <1>14. ASSUME Runner!GraceOver(c) PROVE RunnerTyped'
    BY <1>14 DEF Runner!GraceOver, Runner!io, Runner!Stays, Runner!Goto, Runner!TreeDropped,
           Runner!Killed, Runner!GroupLive, RunnerTyped, Runner!Holding, Runner!Outcomes
  <1>15. ASSUME Runner!Reap(c) PROVE RunnerTyped'
    BY <1>15 DEF Runner!Reap, Runner!io, Runner!Stays, Runner!Goto, RunnerTyped, Runner!Holding,
           Runner!Outcomes
  <1>16. ASSUME Runner!ReapTimesOut(c) PROVE RunnerTyped'
    BY <1>16 DEF Runner!ReapTimesOut, Runner!io, Runner!tree, Runner!Stays, Runner!Goto,
           RunnerTyped, Runner!Holding, Runner!Outcomes
  <1>17. ASSUME Runner!AnswerStop(c) PROVE RunnerTyped'
    BY <1>17 DEF Runner!AnswerStop, Runner!Return, Runner!Goto, Runner!Holding,
           Runner!TreeDropped, Runner!Killed, RunnerTyped, Runner!Outcomes
  <1>18. ASSUME NEW s \in Runner!Streams, Runner!FinishReader(c, s) PROVE RunnerTyped'
    BY <1>18 DEF Runner!FinishReader, Runner!tree, Runner!Stays, RunnerTyped, Runner!Holding,
           Runner!Outcomes
  <1>19. ASSUME NEW s \in Runner!Streams, Runner!JoinTwice(c, s) PROVE RunnerTyped'
    BY <1>19 DEF Runner!JoinTwice, Runner!Return, Runner!Goto, Runner!Holding,
           Runner!TreeDropped, Runner!Killed, RunnerTyped, Runner!Outcomes
  <1>20. ASSUME Runner!InputEnds(c) PROVE RunnerTyped'
    BY <1>20 DEF Runner!InputEnds, Runner!tree, Runner!Stays, RunnerTyped, Runner!Holding,
           Runner!Outcomes
  <1>21. ASSUME Runner!InputFails(c) PROVE RunnerTyped'
    BY <1>21 DEF Runner!InputFails, Runner!StopWith, Runner!Stays, Runner!Goto, Runner!io,
           Runner!tree, RunnerTyped, Runner!Holding, Runner!Outcomes
  <1>22. ASSUME NEW s \in Runner!Streams, Runner!ReadEnds(c, s) PROVE RunnerTyped'
    BY <1>22 DEF Runner!ReadEnds, Runner!tree, Runner!Stays, RunnerTyped, Runner!Holding,
           Runner!Outcomes
  <1>23. ASSUME NEW s \in Runner!Streams, Runner!ReadFails(c, s) PROVE RunnerTyped'
    BY <1>23 DEF Runner!ReadFails, Runner!StopWith, Runner!Stays, Runner!Goto, Runner!io,
           Runner!tree, RunnerTyped, Runner!Holding, Runner!Outcomes
  <1>24. ASSUME Runner!Abandon(c) PROVE RunnerTyped'
    BY <1>24 DEF Runner!Abandon, Runner!Return, Runner!Goto, Runner!Holding, Runner!TreeDropped,
           Runner!Killed, RunnerTyped, Runner!Outcomes
  <1>25. ASSUME Runner!Cancel(c) PROVE RunnerTyped'
    BY <1>25 DEF Runner!Cancel, Runner!io, Runner!tree, RunnerTyped, Runner!Holding,
           Runner!Outcomes
  <1>26. ASSUME Runner!DeadlinePasses(c) PROVE RunnerTyped'
    BY <1>26 DEF Runner!DeadlinePasses, Runner!io, Runner!tree, RunnerTyped, Runner!Holding,
           Runner!Outcomes
  <1>27. ASSUME Runner!ChildExits(c) PROVE RunnerTyped'
    BY <1>27 DEF Runner!ChildExits, Runner!io, RunnerTyped, Runner!Holding, Runner!Outcomes
  <1>28. ASSUME Runner!Fork(c) PROVE RunnerTyped'
    BY <1>28 DEF Runner!Fork, Runner!io, RunnerTyped, Runner!Holding, Runner!Outcomes
  <1>29. ASSUME Runner!RestEnds(c) PROVE RunnerTyped'
    BY <1>29 DEF Runner!RestEnds, Runner!io, RunnerTyped, Runner!Holding, Runner!Outcomes
  <1>q. QED
    BY <1>1, <1>2, <1>3, <1>4, <1>5, <1>6, <1>7, <1>8, <1>9, <1>10, <1>11, <1>12,
       <1>13, <1>14, <1>15, <1>16, <1>17, <1>18, <1>19, <1>20, <1>21, <1>22, <1>23, <1>24,
       <1>25, <1>26, <1>27, <1>28, <1>29
    DEF RunnerStep, Runner!Executor, Runner!Pipes, Runner!Processes

\* Every way out of a run kills the group, or says that it could not.
LEMMA TreesStep ==
    ASSUME RunnerTyped, TreesKept, NEW c \in Commands, RunnerStep(c)
    PROVE  TreesKept'
  <1>1. ASSUME Runner!Enter(c) PROVE TreesKept'
    BY <1>1 DEF Runner!Enter, Runner!io, Runner!tree, Runner!Stays, Runner!Goto, RunnerTyped,
           Runner!Holding, Runner!Outcomes, TreesKept, Runner!GroupLive
  <1>2. ASSUME Runner!InputRefused(c) PROVE TreesKept'
    BY <1>2 DEF Runner!InputRefused, Runner!tree, Runner!Return, Runner!Goto, Runner!Holding,
           RunnerTyped, Runner!Outcomes, TreesKept, Runner!GroupLive
  <1>3. ASSUME Runner!CancelledWaiting(c) PROVE TreesKept'
    BY <1>3 DEF Runner!CancelledWaiting, Runner!tree, Runner!Return, Runner!Goto,
           Runner!Holding, RunnerTyped, Runner!Outcomes, TreesKept, Runner!GroupLive
  <1>4. ASSUME Runner!ExpiredWaiting(c) PROVE TreesKept'
    BY <1>4 DEF Runner!ExpiredWaiting, Runner!tree, Runner!Return, Runner!Goto, Runner!Holding,
           RunnerTyped, Runner!Outcomes, TreesKept, Runner!GroupLive
  <1>5. ASSUME Runner!Admit(c) PROVE TreesKept'
    BY <1>5 DEF Runner!Admit, Runner!io, Runner!tree, Runner!Goto, RunnerTyped, Runner!Holding,
           Runner!Outcomes, TreesKept, Runner!GroupLive
  <1>6. ASSUME Runner!BuildFails(c) PROVE TreesKept'
    BY <1>6 DEF Runner!BuildFails, Runner!tree, Runner!Return, Runner!Goto, Runner!Holding,
           RunnerTyped, Runner!Outcomes, TreesKept, Runner!GroupLive
  <1>7. ASSUME Runner!Spawn(c) PROVE TreesKept'
    BY <1>7 DEF Runner!Spawn, Runner!Stays, Runner!Goto, RunnerTyped, Runner!Holding,
           Runner!Outcomes, TreesKept, Runner!GroupLive
  <1>8. ASSUME Runner!OutputLimit(c) PROVE TreesKept'
    BY <1>8 DEF Runner!OutputLimit, Runner!StopWith, Runner!Stays, Runner!Goto, Runner!tree,
           RunnerTyped, Runner!Holding, Runner!Outcomes, TreesKept, Runner!GroupLive
  <1>9. ASSUME Runner!Succeed(c) PROVE TreesKept'
    BY <1>9 DEF Runner!Succeed, Runner!Return, Runner!Goto, Runner!Holding, Runner!TreeDropped,
           Runner!Killed, RunnerTyped, Runner!Outcomes, TreesKept, Runner!GroupLive
  <1>10. ASSUME Runner!StopCancelled(c) PROVE TreesKept'
    BY <1>10 DEF Runner!StopCancelled, Runner!StopWith, Runner!Stays, Runner!Goto, Runner!tree,
           RunnerTyped, Runner!Holding, Runner!Outcomes, TreesKept, Runner!GroupLive
  <1>11. ASSUME Runner!StopExpired(c) PROVE TreesKept'
    BY <1>11 DEF Runner!StopExpired, Runner!StopWith, Runner!Stays, Runner!Goto, Runner!tree,
           RunnerTyped, Runner!Holding, Runner!Outcomes, TreesKept, Runner!GroupLive
  <1>12. ASSUME Runner!TakeExit(c) PROVE TreesKept'
    BY <1>12 DEF Runner!TakeExit, Runner!Stays, RunnerTyped, Runner!Holding, Runner!Outcomes,
           TreesKept, Runner!GroupLive
  <1>13. ASSUME Runner!GroupGone(c) PROVE TreesKept'
    BY <1>13 DEF Runner!GroupGone, Runner!io, Runner!Stays, Runner!Goto, Runner!GroupLive,
           RunnerTyped, Runner!Holding, Runner!Outcomes, TreesKept
  <1>14. ASSUME Runner!GraceOver(c) PROVE TreesKept'
    <2>1. /\ step' = [step EXCEPT ![c] = "reaping"] /\ answer' = answer
          /\ failed' = [failed EXCEPT ![c] = c \in Immune]
      BY <1>14 DEF Runner!GraceOver, Runner!Goto, Runner!Stays
    <2>2. CASE c \in Immune
      <3>1. UNCHANGED <<child, rest>>
        BY <1>14, <2>2 DEF Runner!GraceOver, Runner!TreeDropped
      <3>2. failed'[c] /\ \A d \in Commands \ {c} : failed'[d] = failed[d]
        BY <2>1, <2>2 DEF RunnerTyped
      <3>3. QED
        BY <2>1, <3>1, <3>2 DEF RunnerTyped, Runner!Holding, TreesKept, Runner!GroupLive
    <2>3. CASE c \notin Immune
      <3>1. Runner!Killed(c)
        BY <1>14, <2>3 DEF Runner!GraceOver, Runner!TreeDropped
      <3>2. ~Runner!GroupLive(c)'
        BY <3>1 DEF Runner!Killed, RunnerTyped, Runner!GroupLive
      <3>3. \A d \in Commands \ {c} : /\ failed'[d] = failed[d] /\ child'[d] = child[d]
                                      /\ rest'[d] = rest[d] /\ step'[d] = step[d]
        BY <2>1, <3>1 DEF Runner!Killed, RunnerTyped
      <3>4. step'[c] = "reaping"
        BY <2>1 DEF RunnerTyped
      <3>5. QED
        BY <2>1, <3>2, <3>3, <3>4 DEF TreesKept, Runner!GroupLive
    <2>4. QED
      BY <2>2, <2>3
  <1>15. ASSUME Runner!Reap(c) PROVE TreesKept'
    BY <1>15 DEF Runner!Reap, Runner!io, Runner!Stays, Runner!Goto, RunnerTyped, Runner!Holding,
           Runner!Outcomes, TreesKept, Runner!GroupLive
  <1>16. ASSUME Runner!ReapTimesOut(c) PROVE TreesKept'
    BY <1>16 DEF Runner!ReapTimesOut, Runner!io, Runner!tree, Runner!Stays, Runner!Goto,
           RunnerTyped, Runner!Holding, Runner!Outcomes, TreesKept, Runner!GroupLive
  <1>17. ASSUME Runner!AnswerStop(c) PROVE TreesKept'
    BY <1>17 DEF Runner!AnswerStop, Runner!Return, Runner!Goto, Runner!Holding,
           Runner!TreeDropped, Runner!Killed, RunnerTyped, Runner!Outcomes, TreesKept,
           Runner!GroupLive
  <1>18. ASSUME NEW s \in Runner!Streams, Runner!FinishReader(c, s) PROVE TreesKept'
    BY <1>18 DEF Runner!FinishReader, Runner!tree, Runner!Stays, RunnerTyped, Runner!Holding,
           Runner!Outcomes, TreesKept, Runner!GroupLive
  <1>19. ASSUME NEW s \in Runner!Streams, Runner!JoinTwice(c, s) PROVE TreesKept'
    BY <1>19 DEF Runner!JoinTwice, Runner!Return, Runner!Goto, Runner!Holding,
           Runner!TreeDropped, Runner!Killed, RunnerTyped, Runner!Outcomes, TreesKept,
           Runner!GroupLive
  <1>20. ASSUME Runner!InputEnds(c) PROVE TreesKept'
    BY <1>20 DEF Runner!InputEnds, Runner!tree, Runner!Stays, RunnerTyped, Runner!Holding,
           Runner!Outcomes, TreesKept, Runner!GroupLive
  <1>21. ASSUME Runner!InputFails(c) PROVE TreesKept'
    BY <1>21 DEF Runner!InputFails, Runner!StopWith, Runner!Stays, Runner!Goto, Runner!io,
           Runner!tree, RunnerTyped, Runner!Holding, Runner!Outcomes, TreesKept,
           Runner!GroupLive
  <1>22. ASSUME NEW s \in Runner!Streams, Runner!ReadEnds(c, s) PROVE TreesKept'
    BY <1>22 DEF Runner!ReadEnds, Runner!tree, Runner!Stays, RunnerTyped, Runner!Holding,
           Runner!Outcomes, TreesKept, Runner!GroupLive
  <1>23. ASSUME NEW s \in Runner!Streams, Runner!ReadFails(c, s) PROVE TreesKept'
    BY <1>23 DEF Runner!ReadFails, Runner!StopWith, Runner!Stays, Runner!Goto, Runner!io,
           Runner!tree, RunnerTyped, Runner!Holding, Runner!Outcomes, TreesKept,
           Runner!GroupLive
  <1>24. ASSUME Runner!Abandon(c) PROVE TreesKept'
    BY <1>24 DEF Runner!Abandon, Runner!Return, Runner!Goto, Runner!Holding, Runner!TreeDropped,
           Runner!Killed, RunnerTyped, Runner!Outcomes, TreesKept, Runner!GroupLive
  <1>25. ASSUME Runner!Cancel(c) PROVE TreesKept'
    BY <1>25 DEF Runner!Cancel, Runner!io, Runner!tree, RunnerTyped, Runner!Holding,
           Runner!Outcomes, TreesKept, Runner!GroupLive
  <1>26. ASSUME Runner!DeadlinePasses(c) PROVE TreesKept'
    BY <1>26 DEF Runner!DeadlinePasses, Runner!io, Runner!tree, RunnerTyped, Runner!Holding,
           Runner!Outcomes, TreesKept, Runner!GroupLive
  <1>27. ASSUME Runner!ChildExits(c) PROVE TreesKept'
    BY <1>27 DEF Runner!ChildExits, Runner!io, RunnerTyped, Runner!Holding, Runner!Outcomes,
           TreesKept, Runner!GroupLive
  <1>28. ASSUME Runner!Fork(c) PROVE TreesKept'
    BY <1>28 DEF Runner!Fork, Runner!io, RunnerTyped, Runner!Holding, Runner!Outcomes,
           TreesKept, Runner!GroupLive
  <1>29. ASSUME Runner!RestEnds(c) PROVE TreesKept'
    BY <1>29 DEF Runner!RestEnds, Runner!io, RunnerTyped, Runner!Holding, Runner!Outcomes,
           TreesKept, Runner!GroupLive
  <1>q. QED
    BY <1>1, <1>2, <1>3, <1>4, <1>5, <1>6, <1>7, <1>8, <1>9, <1>10, <1>11, <1>12,
       <1>13, <1>14, <1>15, <1>16, <1>17, <1>18, <1>19, <1>20, <1>21, <1>22, <1>23, <1>24,
       <1>25, <1>26, <1>27, <1>28, <1>29
    DEF RunnerStep, Runner!Executor, Runner!Pipes, Runner!Processes

\* What a step does to the permits: nothing, or one is taken, or one given back.
LEMMA HeldTypes == RunnerTyped => IsFiniteSet(Held) /\ Cardinality(Held) \in Nat
  <1>1. Held \subseteq Commands
    BY DEF Held
  <1>2. QED
    BY <1>1, CommandsAssumption, FS_Subset, FS_CardinalityType

(* A run that takes no permit and gives none back leaves the count as it was. *)
LEMMA HeldStays ==
    ASSUME RunnerTyped, PermitsOut, NEW c \in Commands, NEW p,
           step' = step \/ (/\ step' = [step EXCEPT ![c] = p]
                            /\ step[c] \in Runner!Holding <=> p \in Runner!Holding),
           UNCHANGED free
    PROVE  PermitsOut'
  <1>1. Held' = Held
    BY DEF Held, RunnerTyped
  <1>2. QED
    BY <1>1 DEF PermitsOut

(* A run that answers gives its permit back, if it held one. *)
LEMMA HeldReturned ==
    ASSUME RunnerTyped, PermitsOut, NEW c \in Commands, NEW a, Runner!Return(c, a)
    PROVE  PermitsOut'
  <1>1. step' = [step EXCEPT ![c] = "returned"] /\ "returned" \notin Runner!Holding
    BY DEF Runner!Return, Runner!Goto, Runner!Holding
  <1>2. CASE step[c] \in Runner!Holding
    <2>1. Held' = Held \ {c} /\ c \in Held
      BY <1>1, <1>2 DEF Held, RunnerTyped
    <2>2. Cardinality(Held') = Cardinality(Held) - 1
      BY <2>1, HeldTypes, FS_RemoveElement
    <2>3. free' = free + 1
      BY <1>2 DEF Runner!Return
    <2>4. QED
      BY <2>2, <2>3, HeldTypes DEF PermitsOut
  <1>3. CASE step[c] \notin Runner!Holding
    <2>1. Held' = Held
      BY <1>1, <1>3 DEF Held, RunnerTyped
    <2>2. free' = free
      BY <1>3 DEF Runner!Return
    <2>3. QED
      BY <2>1, <2>2 DEF PermitsOut
  <1>4. QED
    BY <1>2, <1>3

\* A permit is taken by Admit alone, and given back by the return of its call.
LEMMA PermitsStep ==
    ASSUME RunnerTyped, PermitsOut, NEW c \in Commands, RunnerStep(c)
    PROVE  PermitsOut'
  <1>1. ASSUME Runner!Admit(c) PROVE PermitsOut'
    <2>1. /\ step[c] = "waiting" /\ step' = [step EXCEPT ![c] = "admitted"]
          /\ free > 0 /\ free' = free - 1
      BY <1>1 DEF Runner!Admit, Runner!Goto
    <2>2. Held' = Held \cup {c} /\ c \notin Held
      BY <2>1 DEF Held, RunnerTyped, Runner!Holding
    <2>3. Cardinality(Held') = Cardinality(Held) + 1
      BY <2>2, HeldTypes, FS_AddElement
    <2>4. QED
      BY <2>1, <2>3, HeldTypes DEF PermitsOut
  <1>2. ASSUME NEW a, Runner!Return(c, a) PROVE PermitsOut'
    BY <1>2, HeldReturned
  <1>3. ASSUME \/ step' = step /\ free' = free
               \/ /\ free' = free
                  /\ \E p \in Runner!Holding : step' = [step EXCEPT ![c] = p] /\ step[c] \in Runner!Holding
               \/ /\ free' = free
                  /\ step[c] = "idle" /\ step' = [step EXCEPT ![c] = "waiting"]
        PROVE  PermitsOut'
    BY <1>3, HeldStays DEF Runner!Holding
  <1>4. ASSUME \/ Runner!InputRefused(c)
               \/ Runner!CancelledWaiting(c)
               \/ Runner!ExpiredWaiting(c)
               \/ Runner!BuildFails(c)
               \/ Runner!Succeed(c)
               \/ Runner!AnswerStop(c)
               \/ \E s \in Runner!Streams : Runner!JoinTwice(c, s)
               \/ Runner!Abandon(c)
        PROVE  \E a : Runner!Return(c, a)
    BY <1>4 DEF Runner!InputRefused,
           Runner!CancelledWaiting, Runner!ExpiredWaiting, Runner!BuildFails, Runner!Succeed,
           Runner!AnswerStop, Runner!JoinTwice, Runner!Abandon
  <1>5. ASSUME \/ \E s \in Runner!Streams : Runner!FinishReader(c, s)
               \/ Runner!InputEnds(c)
               \/ \E s \in Runner!Streams : Runner!ReadEnds(c, s)
               \/ Runner!TakeExit(c)
               \/ Runner!Cancel(c)
               \/ Runner!DeadlinePasses(c)
               \/ Runner!ChildExits(c)
               \/ Runner!Fork(c)
               \/ Runner!RestEnds(c)
        PROVE  step' = step /\ free' = free
    BY <1>5 DEF Runner!FinishReader, Runner!Stays, Runner!InputEnds, Runner!ReadEnds,
           Runner!TakeExit, Runner!Cancel, Runner!DeadlinePasses, Runner!ChildExits,
           Runner!Fork, Runner!RestEnds
  <1>6. ASSUME \/ Runner!Spawn(c)
               \/ Runner!OutputLimit(c)
               \/ Runner!StopCancelled(c)
               \/ Runner!StopExpired(c)
               \/ Runner!GroupGone(c)
               \/ Runner!GraceOver(c)
               \/ Runner!Reap(c)
               \/ Runner!ReapTimesOut(c)
               \/ Runner!InputFails(c)
               \/ \E s \in Runner!Streams : Runner!ReadFails(c, s)
        PROVE  /\ free' = free
               /\ \E p \in Runner!Holding : step' = [step EXCEPT ![c] = p] /\ step[c] \in Runner!Holding
    BY <1>6 DEF Runner!Holding, Runner!Racing, Runner!Spawn, Runner!Stays, Runner!Goto, Runner!OutputLimit, Runner!StopWith,
           Runner!StopCancelled, Runner!StopExpired, Runner!GroupGone, Runner!GraceOver,
           Runner!Reap, Runner!ReapTimesOut, Runner!InputFails, Runner!ReadFails
  <1>7. ASSUME Runner!Enter(c)
        PROVE  free' = free /\ step[c] = "idle" /\ step' = [step EXCEPT ![c] = "waiting"]
    BY <1>7 DEF Runner!Enter, Runner!Goto, Runner!Stays
  <1>8. QED
    BY <1>1, <1>2, <1>3, <1>4, <1>5, <1>6, <1>7
    DEF RunnerStep, Runner!Executor, Runner!Pipes, Runner!Processes

-----------------------------------------------------------------------------
(* The diagnostic log *)

Events == [level : {e.level : e \in EventKinds}, after : Nat, missed : {0}]
Reports == [level : {1}, after : {0}, missed : Nat]
Errors == [level : {0}, after : {0}, missed : {0}]
Records == Events \cup Reports \cup Errors

\* The drain has nothing, an event, or an event behind the report of the dropped.
DrainShaped ==
    \/ drain = <<>>
    \/ \E e \in Events : drain = <<e>>
    \/ \E r \in Reports, e \in Events : drain = <<r, e>>

\* A write removes the oldest file first and ends at the current one.
SinkTyped ==
    \/ sink = Log!Free
    \/ /\ sink \in [pc : {"remove", "rename", "append"}, record : Records,
                    from : Log!Writers, file : Log!Files]
       /\ sink.pc = "remove" => sink.file = Retained - 1
       /\ sink.pc = "rename" => sink.file # 0

LogTyped ==
    /\ dropped \in Nat /\ refused \in Nat /\ lost \in Nat /\ silent \in Nat
    /\ queue \in Seq(Events)
    /\ DrainShaped
    /\ written \in Seq(Records)
    /\ SinkTyped

\* A write of the drain is of its first record; the server's reports nothing.
SinkKept ==
    sink # Log!Free =>
        IF sink.from = "drain" THEN drain # <<>> /\ sink.record = drain[1]
                               ELSE sink.record \in Errors

\* What the drain still has to report.
Carried == IF Len(drain) = 2 THEN drain[1].missed ELSE 0

Said == Log!Reported(Len(written))

\* Every event counted as dropped is reported, given up, or on its way; and what
\* is queued behind it comes after its report.
Conserved == lost = Said + silent + dropped + Carried

QueueBehind == \A i \in 1..Len(queue) : queue[i].after <= lost

DrainBehind ==
    \A i \in 1..Len(drain) :
        drain[i].after <= Said + silent + (IF i = 2 THEN drain[1].missed ELSE 0)

GapsInv ==
    LogTyped /\ SinkKept /\ Conserved /\ QueueBehind /\ DrainBehind /\ Log!GapsPrecede

\* What a writer may have to write.
LEMMA PendingTyped ==
    ASSUME DrainShaped, NEW w \in Log!Writers, NEW r \in Log!Pending(w)
    PROVE  /\ r \in Records
           /\ w = "drain" => drain # <<>> /\ r = drain[1]
           /\ w = "server" => r \in Errors
  <1>1. CASE w = "drain"
    <2>1. r \in {drain[i] : i \in DOMAIN drain \cap {1}}
      BY <1>1 DEF Log!Pending
    <2>2. 1 \in DOMAIN drain /\ r = drain[1]
      BY <2>1
    <2>3. drain # <<>> /\ drain[1] \in Records
      BY <2>2 DEF DrainShaped, Records
    <2>4. QED
      BY <1>1, <2>2, <2>3
  <1>2. CASE w = "server"
    <2>1. r = [level |-> 0, after |-> 0, missed |-> 0]
      BY <1>2 DEF Log!Pending
    <2>2. r \in Errors
      BY <2>1 DEF Errors
    <2>3. QED
      BY <1>2, <2>2 DEF Records
  <1>3. QED
    BY <1>1, <1>2 DEF Log!Writers

\* The first record leaves the drain; what it was to report goes with it.
LEMMA DrainAdvances ==
    ASSUME DrainShaped, drain # <<>>, drain' = Tail(drain)
    PROVE  /\ DrainShaped'
           /\ Carried' = 0 /\ Carried = drain[1].missed /\ drain[1].missed \in Nat
           /\ Len(drain') = Len(drain) - 1
           /\ \A i \in 1..Len(drain') : i = 1 /\ drain'[1] = drain[2] /\ Len(drain) = 2
  <1>1. CASE \E e \in Events : drain = <<e>>
    <2>1. PICK e \in Events : drain = <<e>>
      BY <1>1
    <2>2. drain' = <<>> /\ Len(drain) = 1 /\ drain[1] = e /\ Len(drain') = 0
      BY <2>1
    <2>3. QED
      BY SMTT(30), <2>2 DEF DrainShaped, Carried, Events
  <1>2. CASE \E r \in Reports, e \in Events : drain = <<r, e>>
    <2>1. PICK r \in Reports, e \in Events : drain = <<r, e>>
      BY <1>2
    <2>2. /\ drain' = <<e>> /\ Len(drain) = 2 /\ drain[1] = r /\ drain[2] = e
          /\ Len(drain') = 1 /\ drain'[1] = e
      BY <2>1
    <2>3. r.missed \in Nat
      BY DEF Reports
    <2>4. DrainShaped'
      BY <2>2 DEF DrainShaped
    <2>5. Carried = drain[1].missed
      BY <2>2 DEF Carried
    <2>6. Carried' = 0
      <3>1. 1 # 2
        OBVIOUS
      <3>2. QED
        BY <2>2, <3>1, Zenon DEF Carried
    <2>7. \A i \in 1..Len(drain') : i = 1 /\ drain'[1] = drain[2] /\ Len(drain) = 2
      <3>1. drain'[1] = drain[2] /\ Len(drain) = 2
        BY <2>2
      <3>2. \A i \in 1..Len(drain') : i = 1
        BY <2>2
      <3>3. QED
        BY <3>1, <3>2
    <2>8. QED
      BY <2>2, <2>3, <2>4, <2>5, <2>6, <2>7
  <1>3. QED
    BY <1>1, <1>2 DEF DrainShaped

-----------------------------------------------------------------------------
(* The diagnostic log: counting the records missed *)

\* A finite map to natural numbers.
Sizes(f) == IsFiniteSet(DOMAIN f) /\ \A k \in DOMAIN f : f[k] \in Nat

\* The units of one key are as many as its size.
LEMMA KeyUnits ==
    ASSUME NEW k, NEW n \in Nat
    PROVE  /\ IsFiniteSet({k} \X (1 .. n))
           /\ Cardinality({k} \X (1 .. n)) = n
<1>1. IsFiniteSet({k}) /\ Cardinality({k}) = 1
  BY FS_Singleton
<1>2. IsFiniteSet(1 .. n) /\ Cardinality(1 .. n) = n
  BY FS_Interval
<1>3. Cardinality({k} \X (1 .. n)) = Cardinality({k}) * Cardinality(1 .. n)
  BY <1>1, <1>2, FS_Product
<1>4. IsFiniteSet({k} \X (1 .. n))
  BY <1>1, <1>2, FS_Product
<1>5. 1 * n = n
  OBVIOUS
<1>6. QED
  BY <1>1, <1>2, <1>3, <1>4, <1>5

\* A finite map has finitely many units.
LEMMA UnitsFinite ==
    ASSUME NEW f, Sizes(f)
    PROVE  IsFiniteSet(Units(f)) /\ Weight(f) \in Nat
<1> DEFINE Blocks == {{k} \X (1 .. f[k]) : k \in DOMAIN f}
             block == [k \in DOMAIN f |-> {k} \X (1 .. f[k])]
<1>1. IsFiniteSet(Blocks)
  <2>1. block \in Surjection(DOMAIN f, Blocks)
    BY DEF Surjection
  <2>2. QED
    BY <2>1, FS_Surjection DEF Sizes
<1>2. ASSUME NEW T \in Blocks PROVE IsFiniteSet(T)
  <2>1. PICK k \in DOMAIN f : T = {k} \X (1 .. f[k])
    OBVIOUS
  <2>2. f[k] \in Nat
    BY DEF Sizes
  <2>3. QED
    BY <2>1, <2>2, KeyUnits
<1>3. IsFiniteSet(UNION Blocks)
  BY <1>1, <1>2, FS_UNION
<1>4. QED
  BY <1>3, FS_CardinalityType DEF Units, Weight

\* Nothing weighs nothing.
LEMMA WeightEmpty == Weight(<< >>) = 0
<1>1. Units(<< >>) = {}
  BY DEF Units
<1>2. QED
  BY <1>1, FS_EmptySet DEF Weight

\* HashMap::insert of a new key adds its size.
LEMMA WeightPutFresh ==
    ASSUME NEW f, Sizes(f), NEW x, x \notin DOMAIN f, NEW n \in Nat
    PROVE  /\ Sizes(Put(f, x, n))
           /\ Weight(Put(f, x, n)) = Weight(f) + n
<1> DEFINE Block == {x} \X (1 .. n)
<1>1. Sizes(Put(f, x, n))
  BY FS_AddElement DEF Sizes, Put
<1>2. Units(Put(f, x, n)) = Units(f) \cup Block
  BY DEF Units, Put
<1>3. Units(f) \cap Block = {}
  BY DEF Units
<1>4. Cardinality(Units(f) \cap Block) = 0
  BY <1>3, FS_EmptySet
<1>5. IsFiniteSet(Units(f)) /\ Cardinality(Units(f)) \in Nat
  BY UnitsFinite DEF Weight
<1>6. IsFiniteSet(Block) /\ Cardinality(Block) = n
  BY KeyUnits
<1> HIDE DEF Block
<1>7. Cardinality(Units(f) \cup Block)
        = Cardinality(Units(f)) + Cardinality(Block)
            - Cardinality(Units(f) \cap Block)
  BY <1>5, <1>6, FS_Union
<1>8. QED
  BY <1>1, <1>2, <1>4, <1>5, <1>6, <1>7 DEF Weight

\* To change the size of a key is to insert it anew without it.
LEMMA WeightReplace ==
    ASSUME NEW f, Sizes(f), NEW x \in DOMAIN f, NEW n \in Nat
    PROVE  Weight(Put(f, x, n)) = (Weight(f) - f[x]) + n
  <1> DEFINE g == Without(f, {x})
  <1>1. Sizes(g) /\ x \notin DOMAIN g /\ f[x] \in Nat
    <2>1. IsFiniteSet(DOMAIN f \ {x})
      BY FS_Difference DEF Sizes
    <2>2. QED
      BY <2>1 DEF Sizes, Without
  <1>2. Put(f, x, n) = Put(g, x, n) /\ Units(f) = Units(Put(g, x, f[x]))
    BY DEF Put, Without, Units
  <1> HIDE DEF g
  <1>3. Weight(f) = Weight(g) + f[x] /\ Weight(Put(f, x, n)) = Weight(g) + n
    <2>1. \A s \in Nat : Weight(Put(g, x, s)) = Weight(g) + s
      BY <1>1, WeightPutFresh
    <2>2. Weight(f) = Weight(Put(g, x, f[x]))
      BY <1>2 DEF Weight
    <2>3. QED
      BY <1>1, <1>2, <2>1, <2>2
  <1>4. Weight(g) \in Nat
    BY <1>1, UnitsFinite
  <1>5. QED
    BY <1>1, <1>3, <1>4

\* The log counts with the same weights.
LEMMA LogWeight == \A f : Log!Weight(f) = Weight(f)
  <1>1. \A S : Log!Cardinality(S) = Cardinality(S)
    BY DEF Log!Cardinality, Cardinality
  <1>2. QED
    BY <1>1 DEF Log!Weight, Log!Units, Weight, Units

\* What the first n records report is a number, and a record adds its own.
LEMMA ReportedTypes ==
    ASSUME written \in Seq(Records), NEW n \in 0..Len(written)
    PROVE  /\ Sizes([k \in 1..n |-> written[k].missed])
           /\ Log!Reported(n) = Weight([k \in 1..n |-> written[k].missed])
           /\ Log!Reported(n) \in Nat
  <1> DEFINE f == [k \in 1..n |-> written[k].missed]
  <1>1. \A k \in 1..n : written[k] \in Records
    OBVIOUS
  <1>2. \A k \in 1..n : f[k] \in Nat
    BY <1>1 DEF Records, Events, Reports, Errors
  <1>3. IsFiniteSet(DOMAIN f)
    BY FS_Interval
  <1>4. Sizes(f)
    BY <1>2, <1>3 DEF Sizes
  <1>5. Log!Reported(n) = Weight(f)
    BY LogWeight DEF Log!Reported
  <1>6. QED
    BY <1>4, <1>5, UnitsFinite

(* The records reported are those written so far: one more record is one more at the end. *)
LEMMA ReportedGrows ==
    ASSUME written \in Seq(Records), NEW r \in Records, written' = Append(written, r)
    PROVE  /\ written' \in Seq(Records) /\ Len(written') = Len(written) + 1
           /\ \A k \in 0..Len(written) : Log!Reported(k)' = Log!Reported(k)
           /\ Said' = Said + r.missed /\ r.missed \in Nat
           /\ written'[Len(written')] = r
           /\ \A k \in 1..Len(written) : written'[k] = written[k]
  <1> DEFINE f == [k \in 1..Len(written) |-> written[k].missed]
             g == [k \in 1..Len(written') |-> written'[k].missed]
  <1>1. /\ written' \in Seq(Records) /\ Len(written') = Len(written) + 1
        /\ written'[Len(written')] = r
        /\ \A k \in 1..Len(written) : written'[k] = written[k]
    OBVIOUS
  <1>2. r.missed \in Nat
    BY DEF Records, Events, Reports, Errors
  <1>3. \A k \in 0..Len(written) : Log!Reported(k)' = Log!Reported(k)
    <2> SUFFICES ASSUME NEW k \in 0..Len(written) PROVE Log!Reported(k)' = Log!Reported(k)
      OBVIOUS
    <2>1. [j \in 1..k |-> written'[j].missed] = [j \in 1..k |-> written[j].missed]
      BY <1>1
    <2>2. QED
      BY <2>1 DEF Log!Reported
  <1>4. Sizes(f) /\ Said = Weight(f)
    BY ReportedTypes DEF Said
  <1>5. Said' = Weight(g)
    <2>1. Said' = Log!Weight(g)
      BY DEF Said, Log!Reported
    <2>2. QED
      BY <2>1, LogWeight
  <1>6. g = Put(f, Len(written) + 1, r.missed)
    BY <1>1 DEF Put
  <1>7. Weight(Put(f, Len(written) + 1, r.missed)) = Weight(f) + r.missed
    BY <1>2, <1>4, WeightPutFresh
  <1>8. QED
    BY <1>1, <1>2, <1>3, <1>4, <1>5, <1>6, <1>7

\* Two sequences of one element, one after the other.
LEMMA PairOf ==
    ASSUME NEW a, NEW b
    PROVE  <<a>> \o <<b>> = <<a, b>>
  <1> DEFINE s == <<a>> \o <<b>>
  <1>1. s \in Seq({a, b}) /\ Len(s) = 2 /\ s[1] = a /\ s[2] = b
    OBVIOUS
  <1> HIDE DEF s
  <1>2. s = <<a, b>>
    BY <1>1
  <1>3. QED
    BY <1>2 DEF s

\* What is said, carried and still to be written are numbers.
LEMMA SaidTypes ==
    ASSUME LogTyped
    PROVE  /\ Said \in Nat /\ Carried \in Nat
           /\ \A k \in 0..Len(written) : Log!Reported(k) \in Nat
           /\ Len(drain) \in 0..2
           /\ \A i \in 1..Len(drain) : drain[i].after \in Nat /\ drain[i].missed \in Nat
  <1>1. written \in Seq(Records) /\ Len(written) \in 0..Len(written) /\ DrainShaped
    BY DEF LogTyped
  <1>2. Said \in Nat /\ \A k \in 0..Len(written) : Log!Reported(k) \in Nat
    BY <1>1, ReportedTypes DEF Said
  <1>3. CASE drain = <<>>
    <2>1. Len(drain) = 0 /\ Carried = 0
      BY <1>3 DEF Carried
    <2>2. QED
      BY <1>2, <2>1
  <1>4. CASE \E e \in Events : drain = <<e>>
    <2>1. PICK e \in Events : drain = <<e>>
      BY <1>4
    <2>2. Len(drain) = 1 /\ drain[1] = e /\ e.after \in Nat /\ e.missed \in Nat
      BY <2>1 DEF Events
    <2>3. Carried = 0
      BY <2>2 DEF Carried
    <2>4. QED
      BY <1>2, <2>2, <2>3
  <1>5. CASE \E r \in Reports, e \in Events : drain = <<r, e>>
    <2>1. PICK r \in Reports, e \in Events : drain = <<r, e>>
      BY <1>5
    <2>2. /\ Len(drain) = 2 /\ drain[1] = r /\ drain[2] = e
          /\ e.after \in Nat /\ e.missed \in Nat /\ r.after \in Nat /\ r.missed \in Nat
      BY <2>1 DEF Events, Reports
    <2>3. Carried \in Nat
      BY <2>2 DEF Carried
    <2>4. QED
      BY <1>2, <2>2, <2>3
  <1>6. QED
    BY <1>1, <1>3, <1>4, <1>5 DEF DrainShaped

\* Steps of the traced code: the log and the drain stay, and what is newly
\* counted as dropped is due to be reported.
LEMMA GapsTraced ==
    ASSUME GapsInv, UNCHANGED <<drain, sink, silent, written>>,
           dropped' \in Nat, refused' \in Nat, lost' = lost + (dropped' - dropped),
           dropped' >= dropped, queue' \in Seq(Events), QueueBehind'
    PROVE  GapsInv'
  <1>1. Said' = Said /\ Carried' = Carried /\ Said \in Nat /\ Carried \in Nat
    BY SaidTypes DEF GapsInv, Said, Log!Reported, Carried
  <1>2. DrainShaped' /\ SinkTyped' /\ SinkKept' /\ written' \in Seq(Records)
    BY DEF GapsInv, LogTyped, DrainShaped, SinkTyped, SinkKept
  <1>3. lost \in Nat /\ dropped \in Nat /\ silent \in Nat /\ Conserved
    BY DEF GapsInv, LogTyped
  <1>4. lost' \in Nat
    <2>1. \A a, b, c \in Nat : b >= a => c + (b - a) \in Nat
      OBVIOUS
    <2>2. QED
      BY <1>3, <2>1, Zenon
  <1>5. LogTyped'
    BY <1>2, <1>3, <1>4 DEF LogTyped
  <1>6. Conserved'
    BY <1>1, <1>3 DEF Conserved
  <1>7. DrainBehind'
    BY <1>1 DEF GapsInv, DrainBehind
  <1>8. Log!GapsPrecede'
    BY DEF GapsInv, Log!GapsPrecede, Log!Reported
  <1>9. QED
    BY <1>2, <1>5, <1>6, <1>7, <1>8 DEF GapsInv

(* A thread hands a record to the queue, or counts it dropped when the queue is full. *)
LEMMA GapsEmit ==
    ASSUME GapsInv, NEW e \in EventKinds, Log!Emit(e)
    PROVE  GapsInv'
  <1>1. /\ UNCHANGED <<drain, sink, silent, written, dropped, lost>>
        /\ dropped \in Nat /\ refused \in Nat /\ lost \in Nat /\ queue \in Seq(Events)
        /\ QueueBehind
    BY DEF GapsInv, LogTyped, Log!Emit, Log!disk
  <1>2. CASE queue' = Append(queue, Log!Event(e.level)) /\ refused' = refused
    <2> DEFINE r == Log!Event(e.level)
    <2>1. r \in Events /\ r.after = lost
      BY <1>1 DEF Log!Event, Events
    <2> HIDE DEF r
    <2>2. queue' = Append(queue, r)
      BY <1>2 DEF r
    <2>3. queue' \in Seq(Events) /\ QueueBehind'
      BY <1>1, <2>1, <2>2 DEF QueueBehind
    <2>4. QED
      BY <1>1, <1>2, <2>3, GapsTraced
  <1>3. CASE queue' = queue /\ refused' = refused + 1
    <2>1. queue' \in Seq(Events) /\ QueueBehind'
      BY <1>1, <1>3 DEF QueueBehind
    <2>2. QED
      BY <1>1, <1>3, <2>1, GapsTraced
  <1>4. QED
    BY <1>2, <1>3 DEF Log!Emit

(* A thread that found the queue full counts the record it dropped. *)
LEMMA GapsCount ==
    ASSUME GapsInv, Log!CountDropped
    PROVE  GapsInv'
  <1>1. /\ UNCHANGED <<drain, sink, silent, written, queue>>
        /\ refused > 0 /\ refused' = refused - 1 /\ dropped' = dropped + 1 /\ lost' = lost + 1
        /\ dropped \in Nat /\ refused \in Nat /\ lost \in Nat /\ queue \in Seq(Events)
        /\ QueueBehind
    BY DEF GapsInv, LogTyped, Log!CountDropped, Log!disk
  <1>2. QueueBehind'
    <2>1. \A i \in 1..Len(queue) : queue[i].after \in Nat
      <3>1. \A i \in 1..Len(queue) : queue[i] \in Events
        BY <1>1
      <3>2. \A e \in Events : e.after \in Nat
        BY DEF Events
      <3>3. QED
        BY <3>1, <3>2
    <2>2. QED
      BY <1>1, <2>1 DEF QueueBehind
  <1>3. QED
    BY <1>1, <1>2, GapsTraced

\* The drain takes the count with the event that was queued after it.
LEMMA GapsReceive ==
    ASSUME GapsInv, Log!Receive
    PROVE  GapsInv'
  <1> DEFINE e == Head(queue)  r == Log!Report(dropped)
  <1>1. /\ UNCHANGED <<sink, silent, written, lost, refused>>
        /\ drain = <<>> /\ queue # <<>> /\ queue' = Tail(queue) /\ dropped' = 0
        /\ drain' = (IF dropped > 0 THEN <<r>> ELSE <<>>) \o <<e>>
        /\ dropped \in Nat /\ refused \in Nat /\ lost \in Nat /\ silent \in Nat
        /\ queue \in Seq(Events) /\ written \in Seq(Records)
        /\ QueueBehind /\ Conserved /\ SinkTyped /\ SinkKept
    BY DEF GapsInv, LogTyped, Log!Receive, Log!disk
  <1>2. e \in Events /\ e.after \in Nat /\ e.after <= lost
    <2>1. Len(queue) \in Nat /\ Len(queue) >= 1 /\ e = queue[1] /\ queue[1] \in Events
      BY <1>1
    <2>2. QED
      BY <2>1, <1>1 DEF QueueBehind, Events
  <1>3. r \in Reports /\ r.missed = dropped /\ r.after = 0
    BY <1>1 DEF Log!Report, Reports, Log!Warn
  <1>4. Said' = Said /\ Said \in Nat /\ Carried = 0
    <2>1. Said' = Said
      BY <1>1 DEF Said, Log!Reported
    <2>2. Carried = 0
      BY <1>1 DEF Carried
    <2>3. QED
      BY <2>1, <2>2, SaidTypes DEF GapsInv
  <1>5. lost = Said + silent + dropped
    BY <1>1, <1>4 DEF Conserved
  <1>6. queue' \in Seq(Events) /\ QueueBehind'
    <2>1. queue' \in Seq(Events) /\ Len(queue') = Len(queue) - 1
      BY <1>1
    <2>2. \A i \in 1..Len(queue') : i + 1 \in 1..Len(queue) /\ queue'[i] = queue[i + 1]
      BY <1>1, <2>1
    <2>3. QED
      BY <1>1, <2>1, <2>2 DEF QueueBehind
  <1> HIDE DEF e, r
  <1>7. DrainShaped' /\ Carried' = dropped /\ DrainBehind'
    <2>1. CASE dropped > 0
      <3>1. drain' = <<r, e>>
        <4>1. drain' = <<r>> \o <<e>>
          BY <1>1, <2>1
        <4>2. QED
          BY <4>1, PairOf
      <3>2. Len(drain') = 2 /\ drain'[1] = r /\ drain'[2] = e
        BY <3>1
      <3>3. Carried' = dropped
        BY <1>3, <3>2 DEF Carried
      <3>4. DrainBehind'
        BY <1>1, <1>2, <1>3, <1>4, <1>5, <3>2 DEF DrainBehind
      <3>5. DrainShaped'
        BY <1>2, <1>3, <3>1 DEF DrainShaped
      <3>6. QED
        BY <3>3, <3>4, <3>5
    <2>2. CASE dropped = 0
      <3>1. drain' = <<e>>
        BY <1>1, <2>2
      <3>2. Len(drain') = 1 /\ drain'[1] = e
        BY <3>1
      <3>3. Carried' = dropped
        BY <2>2, <3>2 DEF Carried
      <3>4. DrainBehind'
        BY <1>1, <1>2, <1>4, <1>5, <2>2, <3>2 DEF DrainBehind
      <3>5. DrainShaped'
        BY <1>2, <3>1 DEF DrainShaped
      <3>6. QED
        BY <3>3, <3>4, <3>5
    <2>3. QED
      BY <1>1, <2>1, <2>2
  <1>8. SinkKept' /\ SinkTyped'
    BY <1>1 DEF SinkKept, SinkTyped
  <1>9. Conserved'
    BY <1>1, <1>4, <1>5, <1>7 DEF Conserved
  <1>10. Log!GapsPrecede'
    BY <1>1 DEF GapsInv, Log!GapsPrecede, Log!Reported
  <1>11. LogTyped'
    BY <1>1, <1>6, <1>7, <1>8 DEF LogTyped
  <1>12. QED
    BY <1>6, <1>7, <1>8, <1>9, <1>10, <1>11 DEF GapsInv

\* A record that does not reach the log: what it was to report is given up.
LEMMA GapsGivenUp ==
    ASSUME GapsInv, NEW w \in Log!Writers, NEW r,
           w = "drain" => drain # <<>> /\ r = drain[1], w = "server" => r \in Errors,
           Log!Silenced(r), Log!Done(w), SinkTyped', SinkKept',
           UNCHANGED <<queue, dropped, refused, lost, written>>
    PROVE  GapsInv'
  <1>1. /\ DrainShaped /\ Conserved /\ DrainBehind /\ QueueBehind
        /\ dropped \in Nat /\ refused \in Nat /\ lost \in Nat /\ silent \in Nat
        /\ queue \in Seq(Events) /\ written \in Seq(Records)
    BY DEF GapsInv, LogTyped
  <1>2. /\ Said' = Said /\ Said \in Nat /\ Carried \in Nat
        /\ \A k \in 0..Len(written) : Log!Reported(k)' = Log!Reported(k) /\ Log!Reported(k) \in Nat
    BY SaidTypes DEF GapsInv, Said, Log!Reported
  <1>3. silent' = silent + r.missed
    BY DEF Log!Silenced
  <1>4. r.missed \in Nat /\ Carried' = Carried - r.missed /\ DrainShaped' /\ DrainBehind'
    <2>1. CASE w = "drain"
      <3>1. drain # <<>> /\ r = drain[1] /\ drain' = Tail(drain)
        BY <2>1 DEF Log!Done
      <3>2. /\ DrainShaped'
            /\ Carried' = 0 /\ Carried = r.missed /\ r.missed \in Nat
            /\ \A i \in 1..Len(drain') : i = 1 /\ drain'[1] = drain[2] /\ Len(drain) = 2
        BY <1>1, <3>1, DrainAdvances
      <3>3. DrainBehind'
        <4> SUFFICES ASSUME NEW i \in 1..Len(drain')
                     PROVE  drain'[i].after <= (Said + silent + (IF i = 2 THEN drain[1].missed ELSE 0))'
          BY DEF DrainBehind
        <4>1. i = 1 /\ drain'[1] = drain[2] /\ Len(drain) = 2
          BY <3>2
        <4>2. drain[2].after <= Said + silent + r.missed
          BY <1>1, <3>1, <4>1 DEF DrainBehind
        <4>3. QED
          BY <1>1, <1>2, <1>3, <3>2, <4>1, <4>2
      <3>4. QED
        BY <1>2, <3>2, <3>3
    <2>2. CASE w = "server"
      <3>1. r.missed = 0 /\ drain' = drain
        BY <2>2 DEF Log!Done, Errors
      <3>2. DrainBehind' /\ DrainShaped' /\ Carried' = Carried
        BY <1>1, <1>2, <1>3, <3>1 DEF DrainBehind, DrainShaped, Carried
      <3>3. QED
        BY <1>2, <3>1, <3>2
    <2>3. QED
      BY <2>1, <2>2 DEF Log!Writers
  <1>5. Conserved'
    <2>1. lost = Said + silent + dropped + Carried
      BY <1>1 DEF Conserved
    <2>2. Said' = Said /\ Said \in Nat /\ Carried \in Nat
      BY <1>2
    <2>3. r.missed \in Nat /\ Carried' = Carried - r.missed
      BY <1>4
    <2>4. lost' = lost /\ dropped' = dropped
      OBVIOUS
    <2>5. lost' = Said' + silent' + dropped' + Carried'
      BY SMTT(30), <1>1, <1>3, <2>1, <2>2, <2>3, <2>4
    <2>6. QED
      BY <2>5 DEF Conserved
  <1>6. QueueBehind'
    BY <1>1 DEF QueueBehind
  <1>7. Log!GapsPrecede'
    <2> SUFFICES ASSUME NEW k \in 1..Len(written)
                 PROVE  written[k].after <= Log!Reported(k - 1) + silent'
      BY <1>1, <1>2 DEF Log!GapsPrecede
    <2>1. written[k].after <= Log!Reported(k - 1) + silent
      BY DEF GapsInv, Log!GapsPrecede
    <2>2. written[k] \in Records /\ written[k].after \in Nat
      BY <1>1 DEF Records, Events, Reports, Errors
    <2>3. Log!Reported(k - 1) \in Nat
      BY <1>1, <1>2
    <2>4. QED
      BY SMTT(30), <1>1, <1>3, <1>4, <2>1, <2>2, <2>3
  <1>8. LogTyped'
    BY <1>1, <1>3, <1>4 DEF LogTyped
  <1>9. QED
    BY <1>4, <1>5, <1>6, <1>7, <1>8 DEF GapsInv

\* The write moves on and nothing else does.
LEMMA GapsWriting ==
    ASSUME GapsInv, SinkTyped', SinkKept',
           UNCHANGED <<queue, dropped, refused, lost, silent, written, drain>>
    PROVE  GapsInv'
  <1>1. LogTyped'
    BY DEF GapsInv, LogTyped, DrainShaped
  <1>2. Conserved' /\ QueueBehind' /\ DrainBehind'
    BY DEF GapsInv, Conserved, QueueBehind, DrainBehind, Said, Log!Reported, Carried
  <1>3. Log!GapsPrecede'
    BY DEF GapsInv, Log!GapsPrecede, Log!Reported
  <1>4. QED
    BY <1>1, <1>2, <1>3 DEF GapsInv

\* What a write under way is of.
LEMMA SinkRecord ==
    ASSUME GapsInv, sink # Log!Free
    PROVE  /\ sink.from \in Log!Writers /\ sink.record \in Records /\ sink.file \in Log!Files
           /\ sink.pc \in {"remove", "rename", "append"}
           /\ sink.from = "drain" => drain # <<>> /\ sink.record = drain[1]
           /\ sink.from = "server" => sink.record \in Errors
  <1>1. sink \in [pc : {"remove", "rename", "append"}, record : Records,
                  from : Log!Writers, file : Log!Files]
    BY DEF GapsInv, LogTyped, SinkTyped
  <1>2. sink.from \in {"drain", "server"}
    BY <1>1 DEF Log!Writers
  <1>3. QED
    BY <1>1, <1>2 DEF GapsInv, SinkKept

(* A record the sink refuses becomes a gap that a later report pays for. *)
LEMMA GapsRefused ==
    ASSUME GapsInv, NEW w \in Log!Writers, Log!WriteRefused(w)
    PROVE  GapsInv'
  <1>1. PICK r \in Log!Pending(w) : Log!Silenced(r)
    BY DEF Log!WriteRefused
  <1>2. /\ w = "drain" => drain # <<>> /\ r = drain[1]
        /\ w = "server" => r \in Errors
    BY PendingTyped DEF GapsInv, LogTyped
  <1>3. /\ Log!Done(w) /\ UNCHANGED <<queue, dropped, refused, lost, written, sink>>
        /\ w = "drain" => sink.from # "drain"
    BY DEF Log!WriteRefused
  <1>4. SinkTyped' /\ SinkKept'
    <2>1. SinkTyped'
      BY <1>3 DEF GapsInv, LogTyped, SinkTyped
    <2>0. SinkKept /\ sink' = sink
      BY <1>3 DEF GapsInv
    <2>2. CASE w = "drain"
      <3>1. sink # Log!Free => sink.from # "drain" /\ sink.record \in Errors
        BY <2>0, <1>3, <2>2 DEF SinkKept
      <3>2. QED
        BY <2>0, <2>1, <3>1 DEF SinkKept
    <2>3. CASE w = "server"
      <3>1. drain' = drain
        BY <1>3, <2>3 DEF Log!Done
      <3>2. QED
        BY <2>0, <2>1, <3>1 DEF SinkKept
    <2>4. QED
      BY <2>1, <2>2, <2>3 DEF Log!Writers
  <1>5. QED
    BY <1>1, <1>2, <1>3, <1>4, GapsGivenUp

(* A write that fails part of the way loses its record the same way. *)
LEMMA GapsFails ==
    ASSUME GapsInv, Log!WriteFails
    PROVE  GapsInv'
  <1>1. /\ sink # Log!Free /\ sink' = Log!Free
        /\ Log!Silenced(sink.record) /\ Log!Done(sink.from)
        /\ UNCHANGED <<queue, dropped, refused, lost, written>>
    BY DEF Log!WriteFails
  <1>2. SinkTyped' /\ SinkKept'
    BY <1>1 DEF SinkTyped, SinkKept
  <1>3. QED
    BY <1>1, <1>2, SinkRecord, GapsGivenUp

(* A write that begins takes its record off the queue, behind every earlier one. *)
LEMMA GapsBegins ==
    ASSUME GapsInv, NEW w \in Log!Writers, Log!WriteBegins(w)
    PROVE  GapsInv'
  <1>1. PICK r \in Log!Pending(w) :
            sink' = [pc |-> IF Log!Rotates THEN "remove" ELSE "append",
                     record |-> r, from |-> w, file |-> Retained - 1]
    BY DEF Log!WriteBegins
  <1>2. /\ r \in Records
        /\ w = "drain" => drain # <<>> /\ r = drain[1]
        /\ w = "server" => r \in Errors
    BY PendingTyped DEF GapsInv, LogTyped
  <1>3. UNCHANGED <<queue, dropped, refused, lost, silent, written, drain>>
    BY DEF Log!WriteBegins, Log!bridge, Log!disk
  <1>4. Retained - 1 \in Log!Files
    BY LogAssumption DEF Log!Files
  <1>5. SinkTyped'
    BY <1>1, <1>2, <1>4 DEF SinkTyped
  <1>6. SinkKept'
    <2>1. sink'.from = w /\ sink'.record = r
      BY <1>1
    <2>2. QED
      BY <1>2, <1>3, <2>1 DEF SinkKept, Log!Writers
  <1>7. QED
    BY <1>3, <1>5, <1>6, GapsWriting

\* The steps of a rotation.
LEMMA GapsRotates ==
    ASSUME GapsInv, Log!RemoveOldest \/ Log!Rename
    PROVE  GapsInv'
  <1>1. UNCHANGED <<queue, dropped, refused, lost, silent, written, drain>>
    BY DEF Log!RemoveOldest, Log!Rename, Log!bridge
  <1>2. /\ sink # Log!Free
        /\ \/ sink.pc = "remove" /\ sink' = [sink EXCEPT !.pc = IF Retained = 1 THEN "append" ELSE "rename"]
           \/ sink.pc = "rename" /\ sink.file = 1 /\ sink' = [sink EXCEPT !.pc = "append"]
           \/ sink.pc = "rename" /\ sink.file # 1 /\ sink' = [sink EXCEPT !.file = sink.file - 1]
    BY DEF Log!RemoveOldest, Log!Rename, Log!Free
  <1>3. /\ sink \in [pc : {"remove", "rename", "append"}, record : Records,
                     from : Log!Writers, file : Log!Files]
        /\ sink.pc = "remove" => sink.file = Retained - 1
        /\ sink.pc = "rename" => sink.file # 0
    BY <1>2 DEF GapsInv, LogTyped, SinkTyped
  <1>4. SinkTyped'
    BY <1>2, <1>3, LogAssumption DEF SinkTyped, Log!Files
  <1>5. sink'.from = sink.from /\ sink'.record = sink.record
    BY <1>2, <1>3
  <1>6. SinkKept'
    BY <1>1, <1>2, <1>5 DEF GapsInv, SinkKept
  <1>7. QED
    BY <1>1, <1>4, <1>6, GapsWriting

\* A record reaches the log behind the reports it is to follow.
LEMMA GapsAppend ==
    ASSUME GapsInv, Log!AppendRecord
    PROVE  GapsInv'
  <1> DEFINE r == sink.record
  <1>1. /\ sink # Log!Free /\ sink' = Log!Free
        /\ written' = Append(written, r) /\ Log!Done(sink.from)
        /\ UNCHANGED <<queue, dropped, refused, lost, silent>>
    BY DEF Log!AppendRecord, Log!Free
  <1>2. /\ DrainShaped /\ Conserved /\ DrainBehind /\ QueueBehind
        /\ dropped \in Nat /\ refused \in Nat /\ lost \in Nat /\ silent \in Nat
        /\ queue \in Seq(Events) /\ written \in Seq(Records)
    BY DEF GapsInv, LogTyped
  <1>3. /\ r \in Records
        /\ sink.from \in Log!Writers
        /\ sink.from = "drain" => drain # <<>> /\ r = drain[1]
        /\ sink.from = "server" => r \in Errors
    BY <1>1, SinkRecord
  <1> HIDE DEF r
  <1>4. /\ written' \in Seq(Records) /\ Len(written') = Len(written) + 1
        /\ \A k \in 0..Len(written) : Log!Reported(k)' = Log!Reported(k)
        /\ Said' = Said + r.missed /\ r.missed \in Nat
        /\ written'[Len(written')] = r
        /\ \A k \in 1..Len(written) : written'[k] = written[k]
    BY <1>1, <1>2, <1>3, ReportedGrows
  <1>5. /\ Said \in Nat /\ Carried \in Nat /\ Len(drain) \in 0..2
        /\ Said = Log!Reported(Len(written)) /\ Len(written) \in Nat
    BY <1>2, SaidTypes DEF GapsInv, Said
  <1>6. /\ Carried' = Carried - r.missed /\ DrainShaped' /\ DrainBehind'
        /\ r.after <= Said + silent
    <2>1. CASE sink.from = "drain"
      <3>1. drain # <<>> /\ r = drain[1] /\ drain' = Tail(drain)
        BY <1>1, <1>3, <2>1 DEF Log!Done
      <3>2. /\ DrainShaped'
            /\ Carried' = 0 /\ Carried = r.missed
            /\ \A i \in 1..Len(drain') : i = 1 /\ drain'[1] = drain[2] /\ Len(drain) = 2
        BY <1>2, <3>1, DrainAdvances
      <3>3. DrainBehind'
        <4> SUFFICES ASSUME NEW i \in 1..Len(drain')
                     PROVE  drain'[i].after <= (Said + silent + (IF i = 2 THEN drain[1].missed ELSE 0))'
          BY DEF DrainBehind
        <4>1. i = 1 /\ drain'[1] = drain[2] /\ Len(drain) = 2
          BY <3>2
        <4>2. drain[2].after <= Said + silent + r.missed
          BY <1>2, <3>1, <4>1 DEF DrainBehind
        <4>3. QED
          BY <1>1, <1>2, <1>4, <1>5, <4>1, <4>2
      <3>4. r.after <= Said + silent
        <4>1. 1 \in 1..Len(drain)
          BY <1>2, <1>5, <3>1 DEF DrainShaped
        <4>2. QED
          BY <1>2, <1>5, <3>1, <4>1 DEF DrainBehind
      <3>5. QED
        BY <1>5, <3>2, <3>3, <3>4
    <2>2. CASE sink.from = "server"
      <3>1. r.missed = 0 /\ r.after = 0 /\ drain' = drain
        BY <1>1, <1>3, <2>2 DEF Log!Done, Errors
      <3>2. Said' = Said
        BY <1>4, <1>5, <3>1
      <3>3. DrainBehind' /\ DrainShaped' /\ Carried' = Carried
        BY <1>1, <1>2, <3>1, <3>2 DEF DrainBehind, DrainShaped, Carried
      <3>4. QED
        BY <1>2, <1>5, <3>1, <3>3
    <2>3. QED
      BY <1>3, <2>1, <2>2 DEF Log!Writers
  <1>7. Conserved'
    <2>1. lost = Said + silent + dropped + Carried
      BY <1>2 DEF Conserved
    <2>2. lost = (Said + r.missed) + silent + dropped + (Carried - r.missed)
      <3>1. \A a, b, c, d, m \in Nat : a + b + c + d = (a + m) + b + c + (d - m)
        OBVIOUS
      <3>2. Said \in Nat /\ silent \in Nat /\ dropped \in Nat /\ Carried \in Nat /\ r.missed \in Nat
        BY <1>2, <1>4, <1>5
      <3>3. QED
        BY <2>1, <3>1, <3>2
    <2>3. QED
      BY <1>1, <1>4, <1>6, <2>2, Zenon DEF Conserved
  <1>8. QueueBehind'
    BY <1>1, <1>2 DEF QueueBehind
  <1>9. Log!GapsPrecede'
    <2> SUFFICES ASSUME NEW k \in 1..Len(written')
                 PROVE  written'[k].after <= Log!Reported(k - 1)' + silent
      BY <1>1 DEF Log!GapsPrecede
    <2>1. CASE k \in 1..Len(written)
      <3>1. written[k].after <= Log!Reported(k - 1) + silent
        BY <2>1 DEF GapsInv, Log!GapsPrecede
      <3>2. k - 1 \in 0..Len(written)
        BY <1>5, <2>1
      <3>3. QED
        BY <1>4, <2>1, <3>1, <3>2
    <2>2. CASE k = Len(written')
      <3>1. k - 1 = Len(written) /\ k - 1 \in 0..Len(written)
        BY <1>4, <1>5, <2>2
      <3>2. Log!Reported(k - 1)' = Said
        BY <1>4, <1>5, <3>1
      <3>3. QED
        BY <1>4, <1>6, <2>2, <3>2
    <2>3. QED
      BY <1>4, <1>5, <2>1, <2>2
  <1>10. SinkTyped' /\ SinkKept'
    BY <1>1 DEF SinkTyped, SinkKept
  <1>11. LogTyped'
    BY <1>1, <1>2, <1>4, <1>6, <1>10 DEF LogTyped
  <1>12. QED
    BY <1>6, <1>7, <1>8, <1>9, <1>10, <1>11 DEF GapsInv

\* What the bridge held when the process stopped is given up.
LEMMA GapsCrash ==
    ASSUME GapsInv, Log!Crash
    PROVE  GapsInv'
  <1>1. /\ queue' = <<>> /\ drain' = <<>> /\ dropped' = 0 /\ refused' = 0 /\ sink' = Log!Free
        /\ silent' = lost - Said /\ lost' = lost /\ written' = written
    BY DEF Log!Crash, Said
  <1>2. /\ Conserved /\ dropped \in Nat /\ lost \in Nat /\ silent \in Nat
        /\ written \in Seq(Records)
    BY DEF GapsInv, LogTyped
  <1>3. /\ Said' = Said /\ Said \in Nat /\ Carried \in Nat /\ Carried' = 0
        /\ \A k \in 0..Len(written) : Log!Reported(k)' = Log!Reported(k) /\ Log!Reported(k) \in Nat
    <2>1. Carried' = 0
      BY <1>1 DEF Carried
    <2>2. QED
      BY <1>1, <2>1, SaidTypes DEF GapsInv, Said, Log!Reported
  <1>4. silent' \in Nat /\ silent' >= silent
    BY <1>1, <1>2, <1>3 DEF Conserved
  <1>5. DrainShaped' /\ SinkTyped' /\ SinkKept' /\ queue' \in Seq(Events)
    BY <1>1 DEF DrainShaped, SinkTyped, SinkKept
  <1>6. QueueBehind' /\ DrainBehind'
    <2>1. Len(queue') = 0 /\ Len(drain') = 0
      BY <1>1
    <2>2. QED
      BY <2>1 DEF QueueBehind, DrainBehind
  <1>7. Conserved'
    BY <1>1, <1>2, <1>3, <1>4 DEF Conserved
  <1>8. Log!GapsPrecede'
    <2> SUFFICES ASSUME NEW k \in 1..Len(written)
                 PROVE  written[k].after <= Log!Reported(k - 1) + silent'
      BY SMTT(30), <1>1, <1>3 DEF Log!GapsPrecede
    <2>1. written[k].after <= Log!Reported(k - 1) + silent
      BY DEF GapsInv, Log!GapsPrecede
    <2>2. written[k] \in Records /\ written[k].after \in Nat
      BY <1>2 DEF Records, Events, Reports, Errors
    <2>3. Log!Reported(k - 1) \in Nat
      BY <1>2, <1>3
    <2>4. QED
      BY <1>2, <1>4, <2>1, <2>2, <2>3
  <1>9. LogTyped'
    BY <1>1, <1>2, <1>4, <1>5 DEF LogTyped
  <1>10. QED
    BY <1>5, <1>6, <1>7, <1>8, <1>9 DEF GapsInv

(* The log starts with nothing queued, nothing lost and nothing owed. *)
LEMMA GapsInit ==
    ASSUME Log!Init
    PROVE  GapsInv
  <1>1. /\ queue = <<>> /\ drain = <<>> /\ written = <<>> /\ sink = Log!Free
        /\ dropped = 0 /\ refused = 0 /\ lost = 0 /\ silent = 0
    BY DEF Log!Init
  <1>2. LogTyped
    BY <1>1 DEF LogTyped, DrainShaped, SinkTyped
  <1>3. SinkKept /\ QueueBehind /\ DrainBehind /\ Log!GapsPrecede
    <2>1. Len(queue) = 0 /\ Len(drain) = 0 /\ Len(written) = 0
      BY <1>1
    <2>2. QED
      BY <1>1, <2>1 DEF SinkKept, QueueBehind, DrainBehind, Log!GapsPrecede
  <1>4. Said = 0
    <2> DEFINE f == [k \in 1..Len(written) |-> written[k].missed]
    <2>1. f = <<>>
      BY <1>1
    <2>2. Said = Weight(f)
      BY LogWeight DEF Said, Log!Reported
    <2>3. QED
      BY <2>1, <2>2, WeightEmpty
  <1>5. Carried = 0
    BY <1>1 DEF Carried
  <1>6. Conserved
    BY <1>1, <1>4, <1>5 DEF Conserved
  <1>7. QED
    BY <1>2, <1>3, <1>6 DEF GapsInv

\* Every step of the log keeps what is counted as dropped accounted for.
LEMMA GapsStep ==
    ASSUME GapsInv, Log!Next
    PROVE  GapsInv'
  <1>1. CASE \E e \in EventKinds : Log!Emit(e)
    BY <1>1, GapsEmit
  <1>2. CASE \E w \in Log!Writers : Log!WriteRefused(w) \/ Log!WriteBegins(w)
    BY <1>2, GapsRefused, GapsBegins
  <1>3. QED
    BY <1>1, <1>2, GapsCount, GapsReceive, GapsRotates, GapsAppend, GapsFails, GapsCrash
    DEF Log!Next

-----------------------------------------------------------------------------
(* The rotation of the diagnostic log *)

\* Records in the files of fam that are younger than f.
Before(fam, f) == Weight([g \in 0..(f - 1) |-> Len(fam[g])])

FamilyTyped == family \in [Log!Files -> Seq(Nat)]

\* A file is renamed to a place that is empty; a record is appended where it fits.
Place ==
    /\ sink.pc = "rename" => family[sink.file] = <<>>
    /\ sink.pc = "append" => family[0] = <<>> \/ Len(family[0]) + 1 <= RotationUnits

RotationInv == LogTyped /\ FamilyTyped /\ Place /\ Log!FamilyIsTail

(* The sizes of the files before a file are sizes. *)
LEMMA BeforeTypes ==
    ASSUME NEW fam, NEW f \in Nat, \A g \in 0..(f - 1) : Len(fam[g]) \in Nat
    PROVE  /\ Sizes([g \in 0..(f - 1) |-> Len(fam[g])])
           /\ Before(fam, f) \in Nat
  <1> DEFINE s == [g \in 0..(f - 1) |-> Len(fam[g])]
  <1>1. IsFiniteSet(0..(f - 1))
    BY FS_Interval
  <1>2. Sizes(s)
    BY <1>1 DEF Sizes
  <1>3. QED
    BY <1>2, UnitsFinite DEF Before

(* Files of the same sizes put a later file in the same place. *)
LEMMA BeforeSame ==
    ASSUME NEW fam, NEW new, NEW f \in Nat,
           \A g \in 0..(f - 1) : Len(new[g]) = Len(fam[g])
    PROVE  Before(new, f) = Before(fam, f)
  <1>1. [g \in 0..(f - 1) |-> Len(new[g])] = [g \in 0..(f - 1) |-> Len(fam[g])]
    OBVIOUS
  <1>2. QED
    BY <1>1 DEF Before

(* One file that changes its size moves every later file by the difference. *)
LEMMA BeforeChanged ==
    ASSUME NEW fam, NEW new, NEW f \in Nat, NEW k \in 0..(f - 1),
           \A g \in 0..(f - 1) : Len(fam[g]) \in Nat /\ Len(new[g]) \in Nat,
           \A g \in 0..(f - 1) : g # k => Len(new[g]) = Len(fam[g])
    PROVE  Before(new, f) = (Before(fam, f) - Len(fam[k])) + Len(new[k])
  <1> DEFINE s == [g \in 0..(f - 1) |-> Len(fam[g])]
             t == [g \in 0..(f - 1) |-> Len(new[g])]
  <1>1. Sizes(s)
    BY BeforeTypes
  <1>2. t = Put(s, k, Len(new[k]))
    BY DEF Put
  <1>3. k \in DOMAIN s /\ Len(new[k]) \in Nat /\ s[k] = Len(fam[k])
    OBVIOUS
  <1> HIDE DEF s, t
  <1>4. Weight(t) = (Weight(s) - s[k]) + Len(new[k])
    BY <1>1, <1>2, <1>3, WeightReplace
  <1>5. QED
    BY <1>3, <1>4 DEF Before, s, t

(* A file begins where the one before it ends. *)
LEMMA BeforeNext ==
    ASSUME NEW fam, NEW f \in Nat \ {0}, \A g \in 0..(f - 1) : Len(fam[g]) \in Nat
    PROVE  Before(fam, f) = Before(fam, f - 1) + Len(fam[f - 1])
  <1> DEFINE s == [g \in 0..(f - 2) |-> Len(fam[g])]
             t == [g \in 0..(f - 1) |-> Len(fam[g])]
  <1>1. f - 1 \in Nat /\ f - 1 \notin 0..(f - 2) /\ (f - 1) - 1 = f - 2
    OBVIOUS
  <1>2. \A g \in 0..((f - 1) - 1) : Len(fam[g]) \in Nat
    OBVIOUS
  <1>3. Sizes(s)
    BY <1>1, <1>2, BeforeTypes
  <1>4. 0..(f - 1) = 0..(f - 2) \cup {f - 1}
    OBVIOUS
  <1>5. t = Put(s, f - 1, Len(fam[f - 1]))
    BY <1>1, <1>4 DEF Put
  <1>6. f - 1 \notin DOMAIN s /\ Len(fam[f - 1]) \in Nat
    BY <1>1
  <1>7. Before(fam, f - 1) = Weight(s) /\ Before(fam, f) = Weight(t)
    BY <1>1 DEF Before
  <1> HIDE DEF s, t
  <1>8. Weight(t) = Weight(s) + Len(fam[f - 1])
    BY <1>3, <1>5, <1>6, WeightPutFresh
  <1>9. QED
    BY <1>7, <1>8

\* What FamilyIsTail says of one file, in the words of the proofs.
Tailed(fam, n, f) ==
    /\ \A i \in 1..Len(fam[f]) : fam[f][i] = n - Before(fam, f) - Len(fam[f]) + i
    /\ Len(fam[f]) <= RotationUnits \/ Len(fam[f]) = 1

(* The property, file by file. *)
LEMMA FamilyTailed ==
    /\ Log!FamilyIsTail <=> \A f \in Log!Files : Tailed(family, Len(written), f)
    /\ Log!FamilyIsTail' <=> \A f \in Log!Files : Tailed(family', Len(written'), f)
  <1>1. \A f : Log!Younger(f) = Before(family, f)
    BY LogWeight DEF Log!Younger, Before
  <1>2. \A f : Log!Younger(f)' = Before(family', f)
    BY LogWeight DEF Log!Younger, Before
  <1>3. Log!Files' = Log!Files
    BY DEF Log!Files
  <1>4. QED
    BY <1>1, <1>2, <1>3 DEF Log!FamilyIsTail, Tailed

\* A file that is empty, and one that is as it was with what is younger, are in place.
LEMMA TailedEmpty ==
    ASSUME NEW fam, NEW n, NEW f, fam[f] = <<>>
    PROVE  Tailed(fam, n, f)
  <1>1. Len(fam[f]) = 0
    OBVIOUS
  <1>2. QED
    BY <1>1, LogAssumption DEF Tailed

(* Every file of the family has a length. *)
LEMMA FamilyLengths ==
    ASSUME NEW fam \in [Log!Files -> Seq(Nat)], NEW f \in Log!Files
    PROVE  /\ f \in Nat /\ \A g \in 0..f : g \in Log!Files /\ Len(fam[g]) \in Nat
           /\ \A g \in 0..(f - 1) : g \in Log!Files /\ Len(fam[g]) \in Nat
           /\ Before(fam, f) \in Nat
  <1>1. f \in Nat /\ \A g \in 0..f : g \in Log!Files /\ Len(fam[g]) \in Nat
    BY LogAssumption DEF Log!Files
  <1>2. \A g \in 0..(f - 1) : g \in 0..f
    BY <1>1
  <1>3. QED
    BY <1>1, <1>2, BeforeTypes

(* A write that begins either appends to the newest file or starts a rotation. *)
LEMMA RotationBegins ==
    ASSUME RotationInv, NEW w \in Log!Writers, Log!WriteBegins(w)
    PROVE  FamilyTyped' /\ Place' /\ Log!FamilyIsTail'
  <1>1. /\ UNCHANGED <<family, written>>
        /\ \E r \in Log!Pending(w) :
               sink' = [pc |-> IF Log!Rotates THEN "remove" ELSE "append",
                        record |-> r, from |-> w, file |-> Retained - 1]
    BY DEF Log!WriteBegins, Log!disk
  <1>2. FamilyTyped' /\ Log!FamilyIsTail'
    <2>1. FamilyTyped'
      BY <1>1 DEF RotationInv, FamilyTyped, Log!Files
    <2>2. Log!FamilyIsTail'
      BY <1>1, FamilyTailed DEF RotationInv
    <2>3. QED
      BY <2>1, <2>2
  <1>3. Place'
    <2>1. CASE Log!Rotates
      <3>1. sink'.pc = "remove"
        BY <1>1, <2>1
      <3>2. QED
        BY <3>1 DEF Place
    <2>2. CASE ~Log!Rotates
      <3>1. sink'.pc = "append" /\ family' = family
        BY <1>1, <2>2
      <3>2. 0 \in Log!Files
        BY LogAssumption DEF Log!Files
      <3>3. Len(family[0]) \in Nat
        BY <3>2 DEF RotationInv, FamilyTyped
      <3>4. family[0] = <<>> \/ Len(family[0]) + 1 <= RotationUnits
        BY <2>2, <3>3, LogAssumption DEF Log!Rotates
      <3>5. QED
        BY <3>1, <3>4 DEF Place
    <2>3. QED
      BY <2>1, <2>2
  <1>4. QED
    BY <1>2, <1>3

\* The oldest file goes: what is younger is where it was.
LEMMA RotationRemoves ==
    ASSUME RotationInv, Log!RemoveOldest
    PROVE  FamilyTyped' /\ Place' /\ Log!FamilyIsTail'
  <1> DEFINE o == Retained - 1
  <1>1. /\ sink.pc = "remove" /\ family' = [family EXCEPT ![o] = <<>>] /\ written' = written
        /\ sink' = [sink EXCEPT !.pc = IF Retained = 1 THEN "append" ELSE "rename"]
    BY DEF Log!RemoveOldest
  <1>2. o \in Log!Files /\ 0 \in Log!Files
    BY LogAssumption DEF Log!Files
  <1>3. family \in [Log!Files -> Seq(Nat)] /\ family' \in [Log!Files -> Seq(Nat)]
    <2>1. family \in [Log!Files -> Seq(Nat)]
      BY DEF RotationInv, FamilyTyped
    <2>2. <<>> \in Seq(Nat)
      OBVIOUS
    <2>3. QED
      BY <1>1, <2>1, <2>2
  <1>4. sink \in [pc : {"remove", "rename", "append"}, record : Records,
                  from : Log!Writers, file : Log!Files] /\ sink.file = o
    BY <1>1 DEF RotationInv, LogTyped, SinkTyped, Log!Free
  <1>5. family'[o] = <<>> /\ \A f \in Log!Files : f # o => family'[f] = family[f]
    BY <1>1, <1>2, <1>3
  <1>6. Place'
    <2>1. sink'.file = o
      BY <1>1, <1>4
    <2>2. sink'.pc = "append" => Retained = 1
      BY <1>1, <1>4
    <2>3. Retained = 1 => o = 0
      OBVIOUS
    <2>4. QED
      BY <1>5, <2>1, <2>2, <2>3 DEF Place
  <1>7. ASSUME NEW f \in Log!Files PROVE Tailed(family', Len(written'), f)
    <2>1. CASE f = o
      BY <1>5, <2>1, TailedEmpty
    <2>2. CASE f # o
      <3>1. f < o /\ f \in Nat
        BY <2>2, LogAssumption DEF Log!Files
      <3>2. \A g \in 0..(f - 1) : g \in Log!Files /\ g # o
        BY <3>1, LogAssumption DEF Log!Files
      <3>3. \A g \in 0..(f - 1) : Len(family'[g]) = Len(family[g])
        BY <1>5, <3>2
      <3>4. Before(family', f) = Before(family, f)
        BY <3>1, <3>3, BeforeSame
      <3>5. family'[f] = family[f]
        BY <1>5, <2>2
      <3>6. Tailed(family, Len(written), f)
        BY FamilyTailed DEF RotationInv
      <3>7. QED
        BY <1>1, <3>4, <3>5, <3>6 DEF Tailed
    <2>3. QED
      BY <2>1, <2>2
  <1>8. QED
    BY <1>3, <1>6, <1>7, FamilyTailed DEF FamilyTyped

\* A file takes the place of the next older one, which is empty.
LEMMA RotationRenames ==
    ASSUME RotationInv, Log!Rename
    PROVE  FamilyTyped' /\ Place' /\ Log!FamilyIsTail'
  <1> DEFINE o == sink.file  y == sink.file - 1
  <1>1. /\ sink.pc = "rename" /\ written' = written
        /\ family' = IF family[y] = <<>> THEN family
                     ELSE [family EXCEPT ![o] = family[y], ![y] = <<>>]
        /\ sink' = IF o = 1 THEN [sink EXCEPT !.pc = "append"] ELSE [sink EXCEPT !.file = y]
    BY DEF Log!Rename
  <1>2. sink \in [pc : {"remove", "rename", "append"}, record : Records,
                  from : Log!Writers, file : Log!Files] /\ o # 0
    BY <1>1 DEF RotationInv, LogTyped, SinkTyped, Log!Free
  <1>3. o \in Log!Files /\ y \in Log!Files /\ o \in Nat /\ y \in Nat /\ o = y + 1
    BY <1>2, LogAssumption DEF Log!Files
  <1>4. family \in [Log!Files -> Seq(Nat)] /\ family[o] = <<>>
    BY <1>1 DEF RotationInv, FamilyTyped, Place
  <1>5. sink'.pc = "append" => y = 0
    BY <1>1, <1>2, <1>3
  <1>6. sink'.pc = "rename" => sink'.file = y
    BY <1>1, <1>2, <1>3
  <1> HIDE DEF o, y
  <1>7. /\ family' \in [Log!Files -> Seq(Nat)] /\ family'[y] = <<>> /\ family'[o] = family[y]
        /\ \A f \in Log!Files : f # o /\ f # y => family'[f] = family[f]
    <2>1. CASE family[y] = <<>>
      BY <1>1, <1>3, <1>4, <2>1
    <2>2. CASE family[y] # <<>>
      <3>1. family' = [family EXCEPT ![o] = family[y], ![y] = <<>>] /\ o # y
        BY <1>1, <1>3, <2>2
      <3>2. <<>> \in Seq(Nat) /\ family[y] \in Seq(Nat)
        BY <1>3, <1>4
      <3>3. QED
        BY <1>3, <1>4, <3>1, <3>2
    <2>3. QED
      BY <2>1, <2>2
  <1>8. Place'
    BY <1>5, <1>6, <1>7 DEF Place
  <1>9. ASSUME NEW f \in Log!Files PROVE Tailed(family', Len(written'), f)
    <2>1. CASE f = y
      BY <1>7, <2>1, TailedEmpty
    <2>2. CASE f = o
      <3>1. Tailed(family, Len(written), y)
        BY <1>3, FamilyTailed DEF RotationInv
      <3>2. Before(family', y) = Before(family, y)
        <4>1. \A g \in 0..(y - 1) : g \in Log!Files /\ g # o /\ g # y
          <5>1. \A g \in 0..(y - 1) : g \in Log!Files
            BY <1>3, <1>4, FamilyLengths
          <5>2. \A g \in 0..(y - 1) : g # o /\ g # y
            BY <1>3
          <5>3. QED
            BY <5>1, <5>2
        <4>2. \A g \in 0..(y - 1) : Len(family'[g]) = Len(family[g])
          BY <1>7, <4>1
        <4>3. QED
          BY <1>3, <4>2, BeforeSame
      <3>3. Before(family', o) = Before(family', y) + Len(family'[y])
        <4>1. \A g \in 0..(o - 1) : Len(family'[g]) \in Nat
          BY <1>3, <1>7, FamilyLengths
        <4>2. o \in Nat \ {0} /\ o - 1 = y
          BY <1>3
        <4>3. QED
          BY <4>1, <4>2, BeforeNext
      <3>4. Before(family', o) = Before(family, y)
        <4>1. Len(family'[y]) = 0
          BY <1>7
        <4>2. Before(family, y) \in Nat
          BY <1>3, <1>4, FamilyLengths
        <4>3. QED
          BY <3>2, <3>3, <4>1, <4>2
      <3>5. QED
        BY <1>1, <1>7, <2>2, <3>1, <3>4 DEF Tailed
    <2>3. CASE f # y /\ f # o
      <3>1. Tailed(family, Len(written), f) /\ family'[f] = family[f]
        BY <1>7, <2>3, FamilyTailed DEF RotationInv
      <3>2. Before(family', f) = Before(family, f)
        <4>1. CASE f < y
          <5>1. \A g \in 0..(f - 1) : g \in Log!Files /\ g # o /\ g # y
            <6>1. f \in Nat /\ \A g \in 0..(f - 1) : g \in Log!Files
              BY <1>4, FamilyLengths
            <6>2. \A g \in 0..(f - 1) : g # o /\ g # y
              BY <1>3, <4>1, <6>1
            <6>3. QED
              BY <6>1, <6>2
          <5>2. \A g \in 0..(f - 1) : Len(family'[g]) = Len(family[g])
            BY <1>7, <5>1
          <5>3. QED
            BY <1>4, <5>2, BeforeSame, FamilyLengths
        <4>2. CASE o < f
          <5> DEFINE mid == [family EXCEPT ![y] = <<>>]
          <5>1. /\ mid \in [Log!Files -> Seq(Nat)] /\ mid[y] = <<>> /\ mid[o] = family[o]
                /\ \A g \in Log!Files : g # y => mid[g] = family[g]
            <6>1. <<>> \in Seq(Nat) /\ o # y
              BY <1>3
            <6>2. QED
              BY <1>3, <1>4, <6>1
          <5> HIDE DEF mid
          <5>2. /\ f \in Nat /\ y \in 0..(f - 1) /\ o \in 0..(f - 1)
                /\ \A g \in 0..(f - 1) : /\ g \in Log!Files /\ Len(family[g]) \in Nat
                                         /\ Len(mid[g]) \in Nat /\ Len(family'[g]) \in Nat
            <6>1. f \in Nat
              BY <1>4, FamilyLengths
            <6>2. y \in 0..(f - 1) /\ o \in 0..(f - 1)
              BY <1>3, <4>2, <6>1
            <6>3. \A g \in 0..(f - 1) : g \in Log!Files /\ Len(family[g]) \in Nat
              BY <1>4, FamilyLengths
            <6>4. \A g \in 0..(f - 1) : Len(mid[g]) \in Nat
              BY <5>1, FamilyLengths
            <6>5. \A g \in 0..(f - 1) : Len(family'[g]) \in Nat
              BY <1>7, FamilyLengths
            <6>6. QED
              BY <6>1, <6>2, <6>3, <6>4, <6>5
          <5>3. Before(mid, f) = (Before(family, f) - Len(family[y])) + Len(mid[y])
            <6>1. \A g \in 0..(f - 1) : g # y => Len(mid[g]) = Len(family[g])
              BY <5>1, <5>2
            <6>2. QED
              BY <5>2, <6>1, BeforeChanged
          <5>4. Before(family', f) = (Before(mid, f) - Len(mid[o])) + Len(family'[o])
            <6>1. \A g \in 0..(f - 1) : g # o => Len(family'[g]) = Len(mid[g])
              BY <1>7, <5>1, <5>2
            <6>2. QED
              BY <5>2, <6>1, BeforeChanged
          <5>5. Len(mid[y]) = 0 /\ Len(mid[o]) = 0 /\ Len(family'[o]) = Len(family[y])
            BY <1>4, <1>7, <5>1
          <5>6. Before(family, f) \in Nat /\ Len(family[y]) \in Nat
            BY <1>4, <5>2, FamilyLengths
          <5>7. QED
            BY <5>3, <5>4, <5>5, <5>6
        <4>3. QED
          BY <1>3, <1>4, <2>3, <4>1, <4>2, FamilyLengths
      <3>3. QED
        BY <1>1, <3>1, <3>2 DEF Tailed
    <2>4. QED
      BY <2>1, <2>2, <2>3
  <1>10. QED
    BY <1>7, <1>8, <1>9, FamilyTailed DEF FamilyTyped

\* A record goes to the end of the log and to the end of the current file.
LEMMA RotationAppends ==
    ASSUME RotationInv, Log!AppendRecord
    PROVE  FamilyTyped' /\ Place' /\ Log!FamilyIsTail'
  <1> DEFINE n == Len(written)
  <1>1. /\ sink.pc = "append" /\ written' = Append(written, sink.record)
        /\ family' = [family EXCEPT ![0] = Append(family[0], Len(written'))] /\ sink' = Log!Free
    BY DEF Log!AppendRecord
  <1>2. n \in Nat /\ Len(written') = n + 1
    <2>1. written \in Seq(Records)
      BY DEF RotationInv, LogTyped
    <2>2. sink.record \in Records
      BY <1>1 DEF RotationInv, LogTyped, SinkTyped, Log!Free
    <2>3. QED
      BY <1>1, <2>1, <2>2
  <1>3. family \in [Log!Files -> Seq(Nat)] /\ 0 \in Log!Files
    BY LogAssumption DEF RotationInv, FamilyTyped, Log!Files
  <1> HIDE DEF n
  <1>4. /\ family'[0] = Append(family[0], n + 1) /\ family'[0] \in Seq(Nat)
        /\ \A f \in Log!Files : f # 0 => family'[f] = family[f]
    BY <1>1, <1>2, <1>3
  <1>5. family' \in [Log!Files -> Seq(Nat)]
    BY <1>1, <1>3, <1>4
  <1>6. Place'
    BY <1>1 DEF Place, Log!Free
  <1>7. /\ Len(family'[0]) = Len(family[0]) + 1 /\ Len(family[0]) \in Nat
        /\ \A i \in 1..Len(family[0]) : family'[0][i] = family[0][i]
        /\ family'[0][Len(family[0]) + 1] = n + 1
    <2>1. family[0] \in Seq(Nat) /\ n + 1 \in Nat
      BY <1>2, <1>3
    <2>2. QED
      BY <1>4, <2>1
  <1>8. ASSUME NEW f \in Log!Files PROVE Tailed(family', n + 1, f)
    <2>0. Tailed(family, n, f)
      BY FamilyTailed DEF RotationInv, n
    <2>1. CASE f = 0
      <3>1. Before(family, 0) = 0 /\ Before(family', 0) = 0
        <4>1. [g \in 0..(0 - 1) |-> Len(family[g])] = <<>>
          OBVIOUS
        <4>2. [g \in 0..(0 - 1) |-> Len(family'[g])] = <<>>
          OBVIOUS
        <4>3. QED
          BY <4>1, <4>2, WeightEmpty DEF Before
      <3>2. \A i \in 1..Len(family'[0]) : family'[0][i] = (n + 1) - 0 - Len(family'[0]) + i
        <4> DEFINE m == Len(family[0])
        <4>0. /\ m \in Nat /\ Len(family'[0]) = m + 1 /\ family'[0][m + 1] = n + 1
              /\ \A i \in 1..m : family'[0][i] = family[0][i]
          BY <1>7
        <4> HIDE DEF m
        <4> SUFFICES ASSUME NEW i \in 1..Len(family'[0])
                     PROVE  family'[0][i] = (n + 1) - 0 - Len(family'[0]) + i
          OBVIOUS
        <4>1. CASE i = m + 1
          <5>1. family'[0][i] = n + 1
            BY <4>0, <4>1
          <5>2. n + 1 = (n + 1) - 0 - (m + 1) + (m + 1)
            BY <1>2, <4>0
          <5>3. QED
            BY <4>0, <4>1, <5>1, <5>2
        <4>2. CASE i \in 1..m
          <5>1. family[0][i] = n - 0 - m + i
            BY <2>0, <2>1, <3>1, <4>2 DEF Tailed, m
          <5>2. family'[0][i] = family[0][i]
            BY <4>0, <4>2
          <5>3. n - 0 - m + i = (n + 1) - 0 - (m + 1) + i
            BY <1>2, <4>0, <4>2
          <5>4. QED
            BY <4>0, <5>1, <5>2, <5>3
        <4>3. QED
          BY <4>0, <4>1, <4>2
      <3>3. Len(family'[0]) <= RotationUnits \/ Len(family'[0]) = 1
        <4>1. family[0] = <<>> \/ Len(family[0]) + 1 <= RotationUnits
          BY <1>1 DEF RotationInv, Place
        <4>2. CASE family[0] = <<>>
          <5>1. Len(family[0]) = 0
            BY <4>2
          <5>2. QED
            BY <1>7, <5>1
        <4>3. QED
          BY <1>7, <4>1, <4>2
      <3>4. QED
        BY <2>1, <3>1, <3>2, <3>3 DEF Tailed
    <2>2. CASE f # 0
      <3>1. /\ f \in Nat /\ 0 \in 0..(f - 1) /\ Before(family, f) \in Nat
            /\ \A g \in 0..(f - 1) : /\ g \in Log!Files /\ Len(family[g]) \in Nat
                                     /\ Len(family'[g]) \in Nat
        <4>1. f \in Nat
          BY <1>3, FamilyLengths
        <4>2. QED
          BY SMTT(30), <1>3, <1>5, <2>2, <4>1, FamilyLengths
      <3>2. Before(family', f) = (Before(family, f) - Len(family[0])) + Len(family'[0])
        <4>1. \A g \in 0..(f - 1) : g # 0 => Len(family'[g]) = Len(family[g])
          BY <1>4, <3>1
        <4>2. QED
          BY <3>1, <4>1, BeforeChanged
      <3>3. Before(family', f) = Before(family, f) + 1
        BY <1>7, <3>1, <3>2
      <3>4. family'[f] = family[f] /\ Len(family[f]) \in Nat
        BY <1>3, <1>4, <2>2
      <3>5. \A i \in 1..Len(family[f]) :
               (n + 1) - (Before(family, f) + 1) - Len(family[f]) + i
                 = n - Before(family, f) - Len(family[f]) + i
        BY <1>2, <3>1, <3>4
      <3>6. QED
        BY <2>0, <3>3, <3>4, <3>5 DEF Tailed
    <2>3. QED
      BY <2>1, <2>2
  <1>9. QED
    BY <1>2, <1>5, <1>6, <1>8, FamilyTailed DEF FamilyTyped

(* Every step of the log keeps the family the tail of what was written. *)
LEMMA RotationStep ==
    ASSUME RotationInv, LogTyped', Log!Next
    PROVE  RotationInv'
  <1>1. ASSUME UNCHANGED <<family, written>>, sink' = sink \/ sink' = Log!Free
        PROVE  RotationInv'
    <2>1. FamilyTyped' /\ Log!FamilyIsTail'
      <3>1. FamilyTyped'
        BY <1>1 DEF RotationInv, FamilyTyped, Log!Files
      <3>2. QED
        BY <1>1, <3>1, FamilyTailed DEF RotationInv
    <2>2. Place'
      BY <1>1 DEF RotationInv, Place, Log!Free
    <2>3. QED
      BY <2>1, <2>2 DEF RotationInv
  <1>2. CASE \/ \E e \in EventKinds : Log!Emit(e)
             \/ Log!CountDropped \/ Log!Receive \/ Log!WriteFails \/ Log!Crash
             \/ \E w \in Log!Writers : Log!WriteRefused(w)
    BY <1>1, <1>2 DEF Log!Emit, Log!CountDropped, Log!Receive, Log!WriteFails, Log!Crash,
                      Log!WriteRefused, Log!disk
  <1>3. CASE \/ \E w \in Log!Writers : Log!WriteBegins(w)
             \/ Log!RemoveOldest \/ Log!Rename \/ Log!AppendRecord
    BY <1>3, RotationBegins, RotationRemoves, RotationRenames, RotationAppends DEF RotationInv
  <1>4. QED
    BY <1>2, <1>3 DEF Log!Next

(* The family starts empty, as what was written does. *)
LEMMA RotationInit ==
    ASSUME Log!Init, LogTyped
    PROVE  RotationInv
  <1>1. family = [f \in Log!Files |-> <<>>] /\ sink = Log!Free
    BY DEF Log!Init
  <1>2. FamilyTyped
    <2>1. <<>> \in Seq(Nat)
      OBVIOUS
    <2>2. QED
      BY <1>1, <2>1 DEF FamilyTyped
  <1>3. Place
    BY <1>1 DEF Place, Log!Free
  <1>4. \A f \in Log!Files : Tailed(family, Len(written), f)
    BY <1>1, TailedEmpty
  <1>5. QED
    BY <1>2, <1>3, <1>4, FamilyTailed DEF RotationInv

-----------------------------------------------------------------------------
(* The cancellation of calls *)

InFlight == Cancellations!InFlight
Flying(i) == {c \in Calls : IdOf[c] = i /\ at[c] \in InFlight}
Subscribed == {"working", "polled", "committed", "done"}

CallsTyped ==
    /\ entry \in [Ids -> [requests : Nat, sender : Nat]]
    /\ channels \in Nat /\ flagged \subseteq 1..channels
    /\ at \in [Calls -> {"new", "answered"} \cup InFlight]
    /\ channel \in [Calls -> Nat]
    /\ reply \in [Calls -> {"none", "unavailable", "cancelled", "result"}]

Counted == \A i \in Ids : entry[i].requests = Cardinality(Flying(i))

\* An id that has an entry has a channel of its own.
ChannelsOwned ==
    \A i \in Ids : entry[i].requests > 0 =>
        /\ entry[i].sender \in 1..channels
        /\ \A j \in Ids \ {i} : entry[j].requests > 0 => entry[j].sender # entry[i].sender

SubscribedToEntry == \A c \in Calls : at[c] \in Subscribed => channel[c] = entry[IdOf[c]].sender

\* A channel that is flagged was flagged for every call it serves.
FlaggedForAll ==
    \A i \in Ids :
        entry[i].requests > 0 /\ entry[i].sender \in flagged => Flying(i) \subseteq meant

AnsweredForCause == \A c \in Calls : reply[c] = "cancelled" => c \in meant

CallsInv ==
    /\ CallsTyped /\ Counted /\ ChannelsOwned /\ SubscribedToEntry /\ FlaggedForAll
    /\ AnsweredForCause

\* The calls under an id are finitely many.
LEMMA FlyingTypes ==
    /\ \A i : IsFiniteSet(Flying(i)) /\ Cardinality(Flying(i)) \in Nat
    /\ \A i : Cancellations!Flying(i) = Flying(i)
    /\ \A S : Cancellations!Cardinality(S) = Cardinality(S)
  <1>1. \A i : Flying(i) \subseteq Calls
    BY DEF Flying
  <1>2. \A i : IsFiniteSet(Flying(i)) /\ Cardinality(Flying(i)) \in Nat
    BY <1>1, CallsAssumption, FS_Subset, FS_CardinalityType
  <1>3. \A S : Cancellations!Cardinality(S) = Cardinality(S)
    BY DEF Cancellations!Cardinality, Cardinality
  <1>4. \A i : Cancellations!Flying(i) = Flying(i)
    BY DEF Cancellations!Flying, Flying, InFlight
  <1>5. QED
    BY <1>2, <1>3, <1>4

\* An id has an entry as long as a call under it is in flight, and no longer.
LEMMA ActiveFlying ==
    ASSUME CallsInv, NEW i \in Ids
    PROVE  /\ entry[i].requests \in Nat /\ entry[i].requests = Cardinality(Flying(i))
           /\ Cancellations!Active(i) <=> entry[i].requests > 0
           /\ entry[i].requests > 0 <=> Flying(i) # {}
  <1>1. entry[i].requests = Cardinality(Flying(i))
    BY DEF CallsInv, Counted
  <1>2. IsFiniteSet(Flying(i)) /\ Cardinality(Flying(i)) \in Nat
    BY FlyingTypes
  <1>3. Cardinality(Flying(i)) = 0 <=> Flying(i) = {}
    BY <1>2, FS_EmptySet
  <1>4. QED
    BY <1>1, <1>2, <1>3 DEF Cancellations!Active

\* A step of a call that stays in flight, or stays out of it.
LEMMA CallsMove ==
    ASSUME CallsInv, NEW c \in Calls, NEW p \in {"new", "answered"} \cup InFlight,
           at' = [at EXCEPT ![c] = p], at[c] \in InFlight <=> p \in InFlight,
           UNCHANGED <<entry, channels, flagged, meant>>,
           channel' \in [Calls -> Nat],
           \A d \in Calls \ {c} : channel'[d] = channel[d],
           p \in Subscribed => channel'[c] = entry[IdOf[c]].sender,
           reply' \in [Calls -> {"none", "unavailable", "cancelled", "result"}],
           \A d \in Calls : reply'[d] = "cancelled" => d \in meant
    PROVE  CallsInv'
  <1>1. at \in [Calls -> {"new", "answered"} \cup InFlight]
    BY DEF CallsInv, CallsTyped
  <1>2. at' \in [Calls -> {"new", "answered"} \cup InFlight] /\ at'[c] = p
        /\ \A d \in Calls \ {c} : at'[d] = at[d]
    BY <1>1
  <1>3. \A i : Flying(i)' = Flying(i)
    BY <1>2 DEF Flying
  <1>4. CallsTyped'
    BY <1>2 DEF CallsInv, CallsTyped, InFlight, Cancellations!InFlight
  <1>5. Counted' /\ ChannelsOwned' /\ FlaggedForAll'
    <2>1. Counted'
      BY <1>3 DEF CallsInv, Counted
    <2>2. ChannelsOwned'
      BY DEF CallsInv, ChannelsOwned
    <2>3. FlaggedForAll'
      BY <1>3 DEF CallsInv, FlaggedForAll
    <2>4. QED
      BY <2>1, <2>2, <2>3
  <1>6. SubscribedToEntry'
    BY <1>2 DEF CallsInv, SubscribedToEntry, Subscribed
  <1>7. AnsweredForCause'
    BY DEF AnsweredForCause
  <1>8. QED
    BY <1>4, <1>5, <1>6, <1>7 DEF CallsInv

(* A request that arrives joins the entry of its id, or opens one. *)
LEMMA CallsReceive ==
    ASSUME CallsInv, NEW c \in Calls, Cancellations!Receive(c)
    PROVE  CallsInv'
  <1> DEFINE i == IdOf[c]
  <1>1. i \in Ids
    BY CallsAssumption
  <1>2. /\ at[c] = "new" /\ at' = [at EXCEPT ![c] = "received"]
        /\ UNCHANGED <<flagged, channel, reply>>
        /\ meant' = IF Flying(i) \cap meant # {} THEN meant \cup {c} ELSE meant
    BY FlyingTypes DEF Cancellations!Receive, Cancellations!Goto
  <1>3. \/ /\ ~Cancellations!Active(i) /\ channels' = channels + 1
           /\ entry' = [entry EXCEPT ![i] = [requests |-> 1, sender |-> channels']]
        \/ /\ Cancellations!Active(i) /\ channels' = channels
           /\ entry' = [entry EXCEPT ![i].requests = @ + 1]
    BY DEF Cancellations!Receive
  <1>4. /\ entry \in [Ids -> [requests : Nat, sender : Nat]] /\ channels \in Nat
        /\ flagged \subseteq 1..channels
        /\ at \in [Calls -> {"new", "answered"} \cup InFlight]
    BY DEF CallsInv, CallsTyped
  <1>5. /\ entry[i].requests = Cardinality(Flying(i)) /\ entry[i].requests \in Nat
        /\ Cancellations!Active(i) <=> entry[i].requests > 0
        /\ entry[i].requests > 0 <=> Flying(i) # {}
    BY <1>1, ActiveFlying
  <1> HIDE DEF i
  <1>6. "received" \in InFlight /\ "new" \notin InFlight /\ "received" \notin Subscribed
    BY DEF InFlight, Cancellations!InFlight, Subscribed
  <1>7. /\ at' \in [Calls -> {"new", "answered"} \cup InFlight] /\ at'[c] = "received"
        /\ \A d \in Calls \ {c} : at'[d] = at[d]
    BY <1>2, <1>4, <1>6
  <1>8. Flying(i)' = Flying(i) \cup {c} /\ c \notin Flying(i)
        /\ \A j : j # i => Flying(j)' = Flying(j)
    BY <1>2, <1>6, <1>7 DEF Flying, i
  <1>9. Cardinality(Flying(i)') = Cardinality(Flying(i)) + 1
    BY <1>8, FlyingTypes, FS_AddElement
  <1>10. /\ entry' \in [Ids -> [requests : Nat, sender : Nat]] /\ channels' \in Nat
         /\ channels' >= channels
         /\ entry'[i].requests = entry[i].requests + 1
         /\ \A j \in Ids : j # i => entry'[j] = entry[j]
         /\ \/ entry[i].requests = 0 /\ entry'[i].sender = channels + 1 /\ channels' = channels + 1
            \/ entry[i].requests > 0 /\ entry'[i].sender = entry[i].sender /\ channels' = channels
    BY <1>1, <1>3, <1>4, <1>5
  <1>11. CallsTyped'
    <2>1. flagged' \subseteq 1..channels'
      BY <1>2, <1>4, <1>10
    <2>2. QED
      BY <1>2, <1>7, <1>10, <2>1 DEF CallsInv, CallsTyped, InFlight, Cancellations!InFlight
  <1>12. Counted'
    BY <1>5, <1>8, <1>9, <1>10 DEF CallsInv, Counted
  <1>13. ChannelsOwned'
    <2>1. \A j \in Ids : j # i /\ entry[j].requests > 0 =>
             entry[j].sender \in 1..channels /\ entry[j].sender # entry'[i].sender
      <3> SUFFICES ASSUME NEW j \in Ids, j # i, entry[j].requests > 0
                   PROVE  entry[j].sender \in 1..channels /\ entry[j].sender # entry'[i].sender
        OBVIOUS
      <3>1. entry[j].sender \in 1..channels
        BY DEF CallsInv, ChannelsOwned
      <3>2. CASE entry[i].requests = 0
        BY <1>4, <1>10, <3>1, <3>2
      <3>3. CASE entry[i].requests > 0
        <4>1. entry[j].sender # entry[i].sender
          BY <1>1, <3>3 DEF CallsInv, ChannelsOwned
        <4>2. entry'[i].sender = entry[i].sender
          BY <1>10, <3>3
        <4>3. QED
          BY <3>1, <4>1, <4>2
      <3>4. QED
        BY <1>5, <3>2, <3>3
    <2>2. entry'[i].sender \in 1..channels'
      <3>1. CASE entry[i].requests = 0
        BY <1>4, <1>10, <3>1
      <3>2. CASE entry[i].requests > 0
        BY <1>1, <1>10, <3>2 DEF CallsInv, ChannelsOwned
      <3>3. QED
        BY <1>5, <3>1, <3>2
    <2>3. ASSUME NEW j \in Ids, entry'[j].requests > 0
          PROVE  /\ entry'[j].sender \in 1..channels'
                 /\ \A k \in Ids \ {j} : entry'[k].requests > 0 => entry'[k].sender # entry'[j].sender
      <3>1. CASE j = i
        BY <1>10, <2>1, <2>2, <3>1
      <3>2. CASE j # i
        <4>1. entry'[j] = entry[j] /\ entry[j].requests > 0
          BY <1>10, <2>3, <3>2
        <4>2. entry[j].sender \in 1..channels'
          BY <1>4, <1>10, <2>1, <3>2, <4>1
        <4>3. \A k \in Ids \ {j} : entry'[k].requests > 0 => entry'[k].sender # entry[j].sender
          BY <1>10, <2>1, <3>2, <4>1 DEF CallsInv, ChannelsOwned
        <4>4. QED
          BY <4>1, <4>2, <4>3
      <3>3. QED
        BY <3>1, <3>2
    <2>4. QED
      BY <2>3 DEF ChannelsOwned
  <1>14. SubscribedToEntry'
    <2> SUFFICES ASSUME NEW d \in Calls, at'[d] \in Subscribed
                 PROVE  channel[d] = entry'[IdOf[d]].sender
      BY <1>2 DEF SubscribedToEntry
    <2>1. d # c /\ at'[d] = at[d]
      BY <1>6, <1>7
    <2>2. channel[d] = entry[IdOf[d]].sender
      BY <2>1 DEF CallsInv, SubscribedToEntry
    <2>3. CASE IdOf[d] = i
      <3>1. d \in Flying(i)
        BY <2>1, <2>3 DEF Flying, InFlight, Cancellations!InFlight, Subscribed
      <3>2. entry'[i].sender = entry[i].sender
        BY <1>5, <1>10, <3>1
      <3>3. QED
        BY <2>2, <2>3, <3>2
    <2>4. CASE IdOf[d] # i
      BY <1>10, <2>2, <2>4, CallsAssumption
    <2>5. QED
      BY <2>3, <2>4
  <1>15. FlaggedForAll'
    <2> SUFFICES ASSUME NEW j \in Ids, entry'[j].requests > 0, entry'[j].sender \in flagged
                 PROVE  Flying(j)' \subseteq meant'
      BY <1>2 DEF FlaggedForAll
    <2>0. meant \subseteq meant'
      BY <1>2
    <2>1. CASE j # i
      BY <1>8, <1>10, <2>0, <2>1 DEF CallsInv, FlaggedForAll
    <2>2. CASE j = i
      <3>1. entry[i].requests > 0 /\ entry'[i].sender = entry[i].sender
        <4>1. channels + 1 \notin flagged
          BY <1>4
        <4>2. QED
          BY <1>10, <2>2, <4>1
      <3>2. Flying(i) \subseteq meant /\ Flying(i) # {}
        BY <1>1, <1>5, <2>2, <3>1 DEF CallsInv, FlaggedForAll
      <3>3. c \in meant'
        BY <1>2, <3>2 DEF i
      <3>4. QED
        BY <1>8, <2>0, <2>2, <3>2, <3>3
    <2>3. QED
      BY <2>1, <2>2
  <1>16. AnsweredForCause'
    BY <1>2 DEF CallsInv, AnsweredForCause
  <1>17. QED
    BY <1>11, <1>12, <1>13, <1>14, <1>15, <1>16 DEF CallsInv

(* A cancellation notice marks the entry of its id and everyone subscribed to it. *)
LEMMA CallsCancel ==
    ASSUME CallsInv, NEW i \in Ids, Cancellations!CancelId(i)
    PROVE  CallsInv'
  <1>1. UNCHANGED <<entry, channels, at, channel, reply>>
    BY DEF Cancellations!CancelId
  <1>2. \A j : Flying(j)' = Flying(j)
    BY <1>1 DEF Flying
  <1>3. \/ UNCHANGED <<flagged, meant>>
        \/ /\ entry[i].requests > 0 /\ flagged' = flagged \cup {entry[i].sender}
           /\ meant' = meant \cup Flying(i)
    BY FlyingTypes DEF Cancellations!CancelId, Cancellations!Active
  <1>4. entry[i].requests > 0 => entry[i].sender \in 1..channels
    BY DEF CallsInv, ChannelsOwned
  <1>5. CallsTyped'
    BY <1>1, <1>3, <1>4 DEF CallsInv, CallsTyped, InFlight, Cancellations!InFlight
  <1>6. Counted' /\ ChannelsOwned' /\ SubscribedToEntry'
    BY <1>1, <1>2 DEF CallsInv, Counted, ChannelsOwned, SubscribedToEntry
  <1>7. FlaggedForAll'
    <2> SUFFICES ASSUME NEW j \in Ids, entry[j].requests > 0, entry[j].sender \in flagged'
                 PROVE  Flying(j) \subseteq meant'
      BY <1>1, <1>2 DEF FlaggedForAll
    <2>1. CASE entry[j].sender \in flagged
      BY <1>3, <2>1 DEF CallsInv, FlaggedForAll
    <2>2. CASE entry[j].sender \notin flagged
      <3>1. entry[i].requests > 0 /\ entry[j].sender = entry[i].sender
        BY <1>3, <2>2
      <3>2. j = i
        BY <3>1 DEF CallsInv, ChannelsOwned
      <3>3. QED
        BY <1>3, <2>2, <3>2
    <2>3. QED
      BY <2>1, <2>2
  <1>8. AnsweredForCause'
    BY <1>1, <1>3 DEF CallsInv, AnsweredForCause
  <1>9. QED
    BY <1>5, <1>6, <1>7, <1>8 DEF CallsInv

\* The end of a call takes one from the count, and the entry with the last one.
LEMMA CallsFinish ==
    ASSUME CallsInv, NEW c \in Calls, Cancellations!Finish(c)
    PROVE  CallsInv'
  <1> DEFINE i == IdOf[c]
  <1>1. i \in Ids
    BY CallsAssumption
  <1>2. /\ at[c] = "done" /\ at' = [at EXCEPT ![c] = "answered"]
        /\ UNCHANGED <<channels, flagged, channel, reply, meant>>
        /\ entry' = IF entry[i].requests > 1 THEN [entry EXCEPT ![i].requests = @ - 1]
                    ELSE [entry EXCEPT ![i] = [requests |-> 0, sender |-> 0]]
    BY DEF Cancellations!Finish, Cancellations!Goto, Cancellations!Vacant
  <1>3. /\ entry \in [Ids -> [requests : Nat, sender : Nat]]
        /\ at \in [Calls -> {"new", "answered"} \cup InFlight]
    BY DEF CallsInv, CallsTyped
  <1>4. entry[i].requests = Cardinality(Flying(i)) /\ entry[i].requests \in Nat
    BY <1>1, ActiveFlying
  <1> HIDE DEF i
  <1>5. "done" \in InFlight /\ "answered" \notin InFlight /\ "answered" \notin Subscribed
    BY DEF InFlight, Cancellations!InFlight, Subscribed
  <1>6. /\ at' \in [Calls -> {"new", "answered"} \cup InFlight] /\ at'[c] = "answered"
        /\ \A d \in Calls \ {c} : at'[d] = at[d]
    BY <1>2, <1>3
  <1>7. Flying(i)' = Flying(i) \ {c} /\ c \in Flying(i)
        /\ \A j : j # i => Flying(j)' = Flying(j)
    BY <1>2, <1>5, <1>6 DEF Flying, i
  <1>8. Cardinality(Flying(i)') = Cardinality(Flying(i)) - 1
    BY <1>7, FlyingTypes, FS_RemoveElement
  <1>9. IsFiniteSet(Flying(i)') /\ Cardinality(Flying(i)') \in Nat
    BY <1>7, FlyingTypes, FS_RemoveElement, FS_CardinalityType
  <1>10. /\ entry' \in [Ids -> [requests : Nat, sender : Nat]]
         /\ entry'[i].requests = entry[i].requests - 1
         /\ \A j \in Ids : j # i => entry'[j] = entry[j]
         /\ entry'[i].requests > 0 => entry'[i].sender = entry[i].sender
    BY <1>1, <1>2, <1>3, <1>4, <1>8, <1>9
  <1>11. \A j \in Ids : entry'[j].requests > 0 =>
            entry[j].requests > 0 /\ entry'[j].sender = entry[j].sender
    BY <1>4, <1>10
  <1>12. CallsTyped'
    BY <1>2, <1>6, <1>10 DEF CallsInv, CallsTyped, InFlight, Cancellations!InFlight
  <1>13. Counted'
    BY <1>4, <1>7, <1>8, <1>10 DEF CallsInv, Counted
  <1>14. ChannelsOwned'
    BY <1>2, <1>11 DEF CallsInv, ChannelsOwned
  <1>15. SubscribedToEntry'
    <2> SUFFICES ASSUME NEW d \in Calls, at'[d] \in Subscribed
                 PROVE  channel[d] = entry'[IdOf[d]].sender
      BY <1>2 DEF SubscribedToEntry
    <2>1. d # c /\ at'[d] = at[d]
      BY <1>5, <1>6
    <2>2. channel[d] = entry[IdOf[d]].sender
      BY <2>1 DEF CallsInv, SubscribedToEntry
    <2>3. CASE IdOf[d] = i
      <3>1. d \in Flying(i)'
        BY <1>7, <2>1, <2>3 DEF Flying, InFlight, Cancellations!InFlight, Subscribed
      <3>2. Cardinality(Flying(i)') # 0
        BY <1>9, <3>1, FS_EmptySet
      <3>3. entry'[i].requests > 0
        BY <1>4, <1>8, <1>9, <1>10, <3>2
      <3>4. QED
        BY <1>10, <2>2, <2>3, <3>3
    <2>4. CASE IdOf[d] # i
      BY <1>10, <2>2, <2>4, CallsAssumption
    <2>5. QED
      BY <2>3, <2>4
  <1>16. FlaggedForAll'
    <2> SUFFICES ASSUME NEW j \in Ids, entry'[j].requests > 0, entry'[j].sender \in flagged
                 PROVE  Flying(j)' \subseteq meant
      BY <1>2 DEF FlaggedForAll
    <2>1. Flying(j) \subseteq meant
      BY <1>11 DEF CallsInv, FlaggedForAll
    <2>2. QED
      BY <1>7, <2>1
  <1>17. AnsweredForCause'
    BY <1>2 DEF CallsInv, AnsweredForCause
  <1>18. QED
    BY <1>12, <1>13, <1>14, <1>15, <1>16, <1>17 DEF CallsInv

\* The steps of a call between the two keep it in flight; call_tool finds its entry.
LEMMA CallsHandled ==
    ASSUME CallsInv, NEW c \in Calls,
           \/ Cancellations!CallTool(c) \/ Cancellations!CancelWins(c)
           \/ Cancellations!PollWork(c) \/ Cancellations!NotReady(c)
           \/ Cancellations!Commit(c) \/ Cancellations!Complete(c)
    PROVE  CallsInv'
  <1>1. /\ at \in [Calls -> {"new", "answered"} \cup InFlight] /\ channel \in [Calls -> Nat]
        /\ entry \in [Ids -> [requests : Nat, sender : Nat]] /\ IdOf[c] \in Ids
        /\ reply \in [Calls -> {"none", "unavailable", "cancelled", "result"}]
        /\ SubscribedToEntry /\ AnsweredForCause /\ FlaggedForAll
    BY CallsAssumption DEF CallsInv, CallsTyped
  <1>2. ASSUME NEW p \in Subscribed, at[c] \in Subscribed, at' = [at EXCEPT ![c] = p],
               UNCHANGED <<entry, channels, flagged, channel, meant>>,
               \/ reply' = reply \/ reply' = [reply EXCEPT ![c] = "result"]
               \/ c \in meant /\ reply' = [reply EXCEPT ![c] = "cancelled"]
        PROVE  CallsInv'
    <2>1. p \in InFlight /\ at[c] \in InFlight
      BY <1>2 DEF Subscribed, InFlight, Cancellations!InFlight
    <2>2. channel'[c] = entry[IdOf[c]].sender
      BY <1>1, <1>2 DEF SubscribedToEntry
    <2>3. reply' \in [Calls -> {"none", "unavailable", "cancelled", "result"}]
      BY <1>1, <1>2
    <2>4. \A d \in Calls : reply'[d] = "cancelled" => d \in meant
      BY <1>1, <1>2 DEF AnsweredForCause
    <2>5. channel' \in [Calls -> Nat] /\ \A d \in Calls \ {c} : channel'[d] = channel[d]
      BY <1>1, <1>2
    <2>6. QED
      BY <1>2, <2>1, <2>2, <2>3, <2>4, <2>5, CallsMove
  <1>3. CASE Cancellations!CallTool(c)
    <2>1. at[c] = "received" /\ "received" \in InFlight /\ "working" \in InFlight
      BY <1>3 DEF Cancellations!CallTool, InFlight, Cancellations!InFlight
    <2>2. Cancellations!Active(IdOf[c])
      <3>1. c \in Flying(IdOf[c])
        BY <2>1 DEF Flying
      <3>2. QED
        BY <1>1, <3>1, ActiveFlying
    <2>3. /\ channel' = [channel EXCEPT ![c] = entry[IdOf[c]].sender]
          /\ at' = [at EXCEPT ![c] = "working"]
          /\ UNCHANGED <<reply, entry, channels, flagged, meant>>
      BY <1>3, <2>2 DEF Cancellations!CallTool, Cancellations!Goto
    <2>4. /\ channel' \in [Calls -> Nat] /\ channel'[c] = entry[IdOf[c]].sender
          /\ \A d \in Calls \ {c} : channel'[d] = channel[d]
      <3>1. entry[IdOf[c]].sender \in Nat
        BY <1>1
      <3>2. QED
        BY <1>1, <2>3, <3>1
    <2>5. reply' \in [Calls -> {"none", "unavailable", "cancelled", "result"}]
          /\ \A d \in Calls : reply'[d] = "cancelled" => d \in meant
      BY <1>1, <2>3 DEF AnsweredForCause
    <2>6. QED
      BY <2>1, <2>3, <2>4, <2>5, CallsMove
  <1>4. CASE Cancellations!CancelWins(c)
    <2>1. /\ at[c] = "working" /\ channel[c] \in flagged /\ at' = [at EXCEPT ![c] = "done"]
          /\ reply' = [reply EXCEPT ![c] = "cancelled"]
          /\ UNCHANGED <<entry, channels, flagged, channel, meant>>
      BY <1>4 DEF Cancellations!CancelWins, Cancellations!Goto
    <2>2. "working" \in Subscribed /\ "done" \in Subscribed /\ "working" \in InFlight
      BY DEF Subscribed, InFlight, Cancellations!InFlight
    <2>3. c \in Flying(IdOf[c])
      BY <2>1, <2>2 DEF Flying
    <2>4. entry[IdOf[c]].requests > 0 /\ entry[IdOf[c]].sender \in flagged
      BY <1>1, <2>1, <2>2, <2>3, ActiveFlying DEF SubscribedToEntry
    <2>5. c \in meant
      BY <1>1, <2>3, <2>4 DEF FlaggedForAll
    <2>6. QED
      BY <1>2, <2>1, <2>2, <2>5
  <1>5. CASE \/ Cancellations!PollWork(c) \/ Cancellations!NotReady(c)
             \/ Cancellations!Commit(c) \/ Cancellations!Complete(c)
    <2>1. /\ at[c] \in Subscribed /\ \E p \in Subscribed : at' = [at EXCEPT ![c] = p]
          /\ UNCHANGED <<entry, channels, flagged, channel, meant>>
          /\ reply' = reply \/ reply' = [reply EXCEPT ![c] = "result"]
      BY <1>5 DEF Cancellations!PollWork, Cancellations!NotReady, Cancellations!Commit,
                  Cancellations!Complete, Cancellations!Goto, Subscribed
    <2>2. QED
      BY <1>2, <2>1
  <1>6. QED
    BY <1>3, <1>4, <1>5

(* Every step of the calls keeps their invariant. *)
LEMMA CallsStep ==
    ASSUME CallsInv, Cancellations!Next
    PROVE  CallsInv'
  <1>1. CASE \E c \in Calls : Cancellations!Receive(c)
    BY <1>1, CallsReceive
  <1>2. CASE \E c \in Calls : Cancellations!Finish(c)
    BY <1>2, CallsFinish
  <1>3. CASE \E i \in Ids : Cancellations!CancelId(i)
    BY <1>3, CallsCancel
  <1>4. CASE \E c \in Calls :
                 \/ Cancellations!CallTool(c) \/ Cancellations!CancelWins(c)
                 \/ Cancellations!PollWork(c) \/ Cancellations!NotReady(c)
                 \/ Cancellations!Commit(c) \/ Cancellations!Complete(c)
    BY <1>4, CallsHandled
  <1>5. QED
    BY <1>1, <1>2, <1>3, <1>4 DEF Cancellations!Next, Cancellations!Handle

(* No call has arrived: no entry, no subscription. *)
LEMMA CallsInit ==
    ASSUME Cancellations!Init
    PROVE  CallsInv
  <1>1. /\ entry = [i \in Ids |-> [requests |-> 0, sender |-> 0]]
        /\ channels = 0 /\ flagged = {} /\ at = [c \in Calls |-> "new"]
        /\ channel = [c \in Calls |-> 0] /\ reply = [c \in Calls |-> "none"]
    BY DEF Cancellations!Init, Cancellations!Vacant
  <1>2. CallsTyped
    BY <1>1 DEF CallsTyped
  <1>3. \A i : Flying(i) = {}
    BY <1>1 DEF Flying, InFlight, Cancellations!InFlight
  <1>4. Counted
    BY <1>1, <1>3, FS_EmptySet DEF Counted
  <1>5. ChannelsOwned /\ FlaggedForAll
    BY <1>1 DEF ChannelsOwned, FlaggedForAll
  <1>6. SubscribedToEntry /\ AnsweredForCause
    BY <1>1 DEF SubscribedToEntry, AnsweredForCause, Subscribed
  <1>7. QED
    BY <1>2, <1>4, <1>5, <1>6 DEF CallsInv

-----------------------------------------------------------------------------
(* The four services together *)

\* No command runs at the beginning, and all permits are free.
LEMMA RunnerInit ==
    ASSUME Runner!Init
    PROVE  RunnerInv
  <1>1. /\ step = [c \in Commands |-> "idle"] /\ answer = [c \in Commands |-> "none"]
        /\ free = Permits /\ child = [c \in Commands |-> "none"]
        /\ rest = [c \in Commands |-> "none"] /\ stop = [c \in Commands |-> "none"]
        /\ failed = [c \in Commands |-> FALSE]
    BY DEF Runner!Init
  <1>2. RunnerTyped
    BY <1>1 DEF RunnerTyped
  <1>3. TreesKept
    BY <1>1 DEF TreesKept, Runner!GroupLive
  <1>4. Held = {}
    BY <1>1 DEF Held, Runner!Holding
  <1>5. PermitsOut
    BY <1>1, <1>4, FS_EmptySet, CommandsAssumption DEF PermitsOut
  <1>6. QED
    BY <1>2, <1>3, <1>5 DEF RunnerInv

(* Every step of the command runner keeps its invariant. *)
LEMMA RunnerNext ==
    ASSUME RunnerInv, Runner!Next
    PROVE  RunnerInv'
  <1>1. PICK c \in Commands : RunnerStep(c)
    BY DEF Runner!Next, RunnerStep
  <1>2. QED
    BY <1>1, RunnerTypedKept, TreesStep, PermitsStep DEF RunnerInv

ServicesInv == LocksInv /\ RunnerInv /\ GapsInv /\ RotationInv /\ CallsInv

(* Steps of the other services leave the runner alone. *)
LEMMA RunnerStays ==
    ASSUME RunnerInv, UNCHANGED runnerVars
    PROVE  RunnerInv'
  <1>1. UNCHANGED <<step, answer, free, child, rest, stop, failed>>
    BY DEF runnerVars
  <1>2. RunnerTyped'
    BY <1>1 DEF RunnerInv, RunnerTyped, Runner!Holding, Runner!Outcomes
  <1>3. Held' = Held
    BY <1>1 DEF Held
  <1>4. QED
    BY <1>1, <1>2, <1>3 DEF RunnerInv, PermitsOut, TreesKept, Runner!GroupLive

(* Steps of the other services leave the log alone. *)
LEMMA LogStays ==
    ASSUME GapsInv, RotationInv, UNCHANGED logVars
    PROVE  GapsInv' /\ RotationInv'
  <1>1. UNCHANGED <<queue, dropped, refused, drain, sink, family, lost, silent, written>>
    BY DEF logVars
  <1>2. SinkTyped' /\ SinkKept'
    BY <1>1 DEF GapsInv, LogTyped, SinkTyped, SinkKept
  <1>3. GapsInv'
    BY <1>1, <1>2, GapsWriting DEF GapsInv
  <1>4. FamilyTyped' /\ Place'
    BY <1>1 DEF RotationInv, FamilyTyped, Place
  <1>5. Log!FamilyIsTail'
    BY <1>1, FamilyTailed DEF RotationInv
  <1>6. QED
    BY <1>3, <1>4, <1>5 DEF RotationInv, GapsInv

(* Steps of the other services leave the calls alone. *)
LEMMA CallsStay ==
    ASSUME CallsInv, UNCHANGED callVars
    PROVE  CallsInv'
  <1>1. UNCHANGED <<entry, channels, flagged, at, channel, reply, meant>>
    BY DEF callVars
  <1>2. \A i : Flying(i)' = Flying(i)
    BY <1>1 DEF Flying
  <1>3. CallsTyped'
    BY <1>1 DEF CallsInv, CallsTyped
  <1>4. Counted' /\ ChannelsOwned' /\ SubscribedToEntry' /\ FlaggedForAll' /\ AnsweredForCause'
    BY <1>1, <1>2 DEF CallsInv, Counted, ChannelsOwned, SubscribedToEntry, FlaggedForAll,
                      AnsweredForCause
  <1>5. QED
    BY <1>3, <1>4 DEF CallsInv

(* The services start in the invariant. *)
LEMMA ServicesInvInit == ServicesInit => ServicesInv
  <1> SUFFICES ASSUME ServicesInit PROVE ServicesInv
    OBVIOUS
  <1>1. Init /\ Runner!Init /\ Log!Init /\ Cancellations!Init
    BY DEF ServicesInit
  <1>2. LocksInv
    BY <1>1, LocksInit
  <1>3. GapsInv
    BY <1>1, GapsInit
  <1>4. RotationInv
    BY <1>1, <1>3, RotationInit DEF GapsInv
  <1>5. QED
    BY <1>1, <1>2, <1>3, <1>4, RunnerInit, CallsInit DEF ServicesInv

(* A step of one service keeps its own part by the lemmas above and leaves the others alone. *)
LEMMA ServicesInvStep ==
    ServicesInv /\ [ServicesNext]_<<focus, vars, otherVars>> => ServicesInv'
  <1> SUFFICES ASSUME ServicesInv, [ServicesNext]_<<focus, vars, otherVars>>
               PROVE  ServicesInv'
    OBVIOUS
  <1>1. LocksInv /\ RunnerInv /\ GapsInv /\ RotationInv /\ CallsInv
    BY DEF ServicesInv
  <1>2. UNCHANGED vars => LocksInv'
    BY <1>1, LocksStep
  <1>3. UNCHANGED runnerVars => RunnerInv'
    BY <1>1, RunnerStays
  <1>4. UNCHANGED logVars => GapsInv' /\ RotationInv'
    BY <1>1, LogStays
  <1>5. UNCHANGED callVars => CallsInv'
    BY <1>1, CallsStay
  <1>6. CASE Next /\ UNCHANGED <<runnerVars, logVars, callVars>>
    BY <1>1, <1>3, <1>4, <1>5, <1>6, LocksStep DEF ServicesInv
  <1>7. CASE Runner!Next /\ UNCHANGED <<vars, logVars, callVars>>
    BY <1>1, <1>2, <1>4, <1>5, <1>7, RunnerNext DEF ServicesInv
  <1>8. CASE Log!Next /\ UNCHANGED <<vars, runnerVars, callVars>>
    <2>1. GapsInv' /\ LogTyped'
      BY <1>1, <1>8, GapsStep DEF GapsInv
    <2>2. RotationInv'
      BY <1>1, <1>8, <2>1, RotationStep
    <2>3. QED
      BY <1>2, <1>3, <1>5, <1>8, <2>1, <2>2 DEF ServicesInv
  <1>9. CASE Cancellations!Next /\ UNCHANGED <<vars, runnerVars, logVars>>
    BY <1>1, <1>2, <1>3, <1>4, <1>9, CallsStep DEF ServicesInv
  <1>10. CASE UNCHANGED <<vars, runnerVars, logVars, callVars>>
    BY <1>2, <1>3, <1>4, <1>5, <1>10 DEF ServicesInv
  <1>11. QED
    BY <1>6, <1>7, <1>8, <1>9, <1>10 DEF ServicesNext, otherVars

(* So the invariant holds in every state of every behaviour. *)
LEMMA ServicesInvariant == ServicesSpec => []ServicesInv
  <1>1. QED
    BY ServicesInvInit, ServicesInvStep, PTL DEF ServicesSpec

\* A permit is out for every command between admission and return, no more trees
\* than permits are alive, and a command that returned left none of its processes,
\* or says so (process/mod.rs run, cleanup_tree and the drop of ChildTree).
THEOREM TreesAccountedAlways == ServicesSpec => []TreesAccounted
  <1>1. ServicesInv => TreesAccounted
    <2> SUFFICES ASSUME RunnerInv PROVE TreesAccounted
      BY DEF ServicesInv
    <2>0. \A S : Runner!Cardinality(S) = Cardinality(S)
      BY DEF Runner!Cardinality, Cardinality
    <2>1. Runner!PermitsHeld
      BY <2>0 DEF RunnerInv, PermitsOut, Held, Runner!PermitsHeld
    <2>2. Runner!ReturnedMeansGone
      BY DEF RunnerInv, TreesKept, Runner!ReturnedMeansGone
    <2>3. Runner!TreesBounded
      <3> DEFINE L == {c \in Commands \ Immune : Runner!GroupLive(c)}
      <3>1. L \subseteq Held
        <4> SUFFICES ASSUME NEW c \in Commands, c \notin Immune, Runner!GroupLive(c)
                     PROVE  step[c] \in Runner!Holding
          BY DEF Held
        <4>1. child[c] = "live" \/ rest[c] = "live"
          BY DEF Runner!GroupLive
        <4>2. step[c] \notin {"idle", "waiting", "returned"}
          BY <4>1 DEF RunnerInv, TreesKept
        <4>3. QED
          BY <4>2 DEF RunnerInv, RunnerTyped
      <3>2. IsFiniteSet(Held) /\ Cardinality(Held) \in Nat
        BY HeldTypes DEF RunnerInv
      <3>3. Cardinality(L) <= Cardinality(Held) /\ Cardinality(L) \in Nat
        BY <3>1, <3>2, FS_Subset, FS_CardinalityType
      <3>4. Cardinality(L) <= Permits
        BY <3>2, <3>3, CommandsAssumption DEF RunnerInv, PermitsOut
      <3>5. QED
        BY <2>0, <3>4 DEF Runner!TreesBounded
    <2>4. QED
      BY <2>1, <2>2, <2>3 DEF TreesAccounted
  <1>2. QED
    BY <1>1, ServicesInvariant, PTL

\* However writes, rotations and crashes interleave, the files are the end of the
\* log in order, and a record is preceded by the report of what was dropped before
\* it was queued (logging.rs rotate and the drain of attach_tracing_bridge).
THEOREM LogInOrderAlways == ServicesSpec => []LogInOrder
  <1>1. ServicesInv => LogInOrder
    BY DEF ServicesInv, RotationInv, GapsInv, LogInOrder
  <1>2. QED
    BY <1>1, ServicesInvariant, PTL

\* The entry of an id counts the calls in flight under it, its subscribers have its
\* channel, and a call answers "cancelled" only for a cancellation that came while
\* it or a call it overlaps under the same id was in flight (server.rs,
\* RequestCancellations and run_under_cancellation).
THEOREM CancelledForCauseAlways == ServicesSpec => []CancelledForCause
  <1>1. ServicesInv => CancelledForCause
    <2> SUFFICES ASSUME CallsInv PROVE CancelledForCause
      BY DEF ServicesInv
    <2>1. Cancellations!EntriesCounted
      <3>1. \A i \in Ids : entry[i].requests = Cancellations!Cardinality(Cancellations!Flying(i))
        BY FlyingTypes DEF CallsInv, Counted
      <3>2. QED
        BY <3>1 DEF CallsInv, SubscribedToEntry, Subscribed, Cancellations!EntriesCounted
    <2>2. Cancellations!CancelledForCause
      BY DEF CallsInv, AnsweredForCause, Cancellations!CancelledForCause
    <2>3. QED
      BY <2>1, <2>2 DEF CancelledForCause
  <1>2. QED
    BY <1>1, ServicesInvariant, PTL

=============================================================================
