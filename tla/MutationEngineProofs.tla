------------------------ MODULE MutationEngineProofs ------------------------
(***************************************************************************)
(* Proofs about MutationEngine, for any calls, Resources, contents,        *)
(* operation ids and requests.                                             *)
(*                                                                         *)
(* IInv is inductive: locks are held from acquire to return, cancellation  *)
(* is masked from begin_commit on, an effect precedes its answer, and the  *)
(* journal knows what was created and whose attempt is running.            *)
(***************************************************************************)
EXTENDS MutationEngine, TLAPS

\* What a call asks, once it was submitted.
LEMMA Asked ==
    ASSUME TypeOK, Staged, NEW c \in Call, pc[c] # "idle"
    PROVE  /\ request[c] \in Request
           /\ request[c].kind \in Kind
           /\ request[c].resource \in Resource /\ request[c].to \in Resource
           /\ request[c].base \in Content \cup {None}
           /\ request[c].content \in Content \cup {None}
           /\ request[c].op \in Operation \cup {None}
           /\ request[c].kind \in Snapshotting \cup {"field", "post"} =>
                request[c].content \in Content
           /\ request[c].kind = "post" => request[c].op \in Operation
           /\ request[c].kind # "move" => request[c].to = request[c].resource
  <1>1. request[c] \in Request
    BY DEF TypeOK, Staged
  <1> QED
    BY <1>1, RequestAssumption, RequestShapes DEF Snapshotting

\* Ending an attempt touches no other journal entry.
LEMMA Finishing ==
    ASSUME TypeOK, Staged, AttemptsOwned, NEW c \in Call, pc[c] # "idle",
           NEW outcome \in {"succeeded", "conclusive", "unknown"},
           Finish(c, outcome)
    PROVE  /\ journal' \in [Operation -> {Unbound} \cup Entry]
           /\ \A o \in Operation : journal[o].owner # c => journal'[o] = journal[o]
           /\ \A o \in Operation : journal[o].owner = c =>
                /\ journal'[o].outcome = outcome
                /\ journal'[o].owner = None
                /\ journal'[o].bound = journal[o].bound
  <1>1. \A o \in Operation : journal[o].owner = c => o = request[c].op
    BY DEF AttemptsOwned
  <1>2. \A o \in Operation : journal[o].owner = c => journal[o] \in Entry
    BY NoneAssumption DEF TypeOK, Unbound
  <1>3. CASE \A o \in Operation : journal[o].owner # c
    <2>1. request[c].op \in Operation \cup {None}
      BY Asked DEF AttemptsOwned
    <2>2. journal' = journal
      BY <2>1, <1>3 DEF Finish
    <2> QED
      BY <2>2, <1>3 DEF TypeOK
  <1>4. ASSUME NEW o \in Operation, journal[o].owner = c
        PROVE  /\ journal' \in [Operation -> {Unbound} \cup Entry]
               /\ \A p \in Operation : p # o => journal'[p] = journal[p]
               /\ journal'[o].outcome = outcome
               /\ journal'[o].owner = None
               /\ journal'[o].bound = journal[o].bound
    <2>1. o = request[c].op /\ o # None
      BY <1>1, <1>4, NoneAssumption
    <2>2. journal' = [journal EXCEPT ![o].outcome = outcome, ![o].owner = None]
      BY <2>1, <1>4 DEF Finish
    <2>3. journal[o] \in Entry
      BY <1>2, <1>4
    <2> QED
      BY <2>2, <2>3 DEF TypeOK, Entry
  <1> QED
    BY <1>1, <1>3, <1>4

\* A call that returns leaves the others where they are.
LEMMA Returning ==
    ASSUME TypeOK, LocksHeld, Staged, NEW c \in Call,
           NEW what \in {"ok", "refused", "cancelled", "unknown"},
           Return(c, what), request' = request
    PROVE  /\ pc' \in [Call -> PcValues] /\ pc'[c] = "done"
           /\ \A d \in Call : d # c => pc'[d] = pc[d]
           /\ answer' \in [Call -> {None, "ok", "refused", "cancelled", "unknown"}]
           /\ answer'[c] = what
           /\ \A d \in Call : d # c => answer'[d] = answer[d]
           /\ holder' \in [Resource -> Call \cup {None}]
           /\ reserving' \subseteq
                {d \in Call : pc'[d] \in {"begin", "check", "write", "publish"}}
           /\ LocksHeld'
  <1>1. /\ pc' = [pc EXCEPT ![c] = "done"]
        /\ answer' = [answer EXCEPT ![c] = what]
        /\ holder' = [r \in Resource |-> IF holder[r] = c THEN None ELSE holder[r]]
        /\ reserving' = reserving \ {c}
    BY DEF Return
  <1>2. /\ pc' \in [Call -> PcValues] /\ pc'[c] = "done"
        /\ \A d \in Call : d # c => pc'[d] = pc[d]
        /\ answer'[c] = what
        /\ answer' \in [Call -> {None, "ok", "refused", "cancelled", "unknown"}]
        /\ \A d \in Call : d # c => answer'[d] = answer[d]
    BY <1>1 DEF TypeOK, PcValues
  <1>3. holder' \in [Resource -> Call \cup {None}]
    BY <1>1 DEF TypeOK
  <1>4. reserving' \subseteq
          {d \in Call : pc'[d] \in {"begin", "check", "write", "publish"}}
    BY <1>1, <1>2 DEF TypeOK
  <1>5. ASSUME NEW d \in Call, pc'[d] \notin {"idle", "locking", "done"},
               NEW r \in Keys(d)'
        PROVE  holder'[r] = d
    <2>1. d # c /\ pc[d] \notin {"idle", "locking", "done"}
      BY <1>2, <1>5
    <2>2. r \in Keys(d)
      BY <1>5 DEF Keys
    <2>3. holder[r] = d
      BY <2>1, <2>2 DEF LocksHeld
    <2>4. r \in Resource
      BY <2>1, <2>2, Asked DEF Keys
    <2> QED
      BY <2>1, <2>3, <2>4, <1>1
  <1>6. LocksHeld'
    BY <1>5 DEF LocksHeld
  <1> QED
    BY <1>2, <1>3, <1>4, <1>6

\* A new call has read nothing and holds nothing.
LEMMA SubmitStep ==
    ASSUME IInv, NEW c \in Call, NEW q \in Request, Submit(c, q)
    PROVE  IInv'
  <1> USE NoneAssumption, BoundsAssumption DEF session, world
  <1>0. TypeOK /\ LocksHeld /\ CommitMasked /\ Staged /\ EffectsPlaced
        /\ JournalSound /\ AttemptsOwned /\ AnswersTruthful /\ ShownExisted
    BY DEF IInv
  <1>1. TypeOK'
    BY <1>0 DEF Submit, TypeOK, Entry, PcValues, Binding, Unbound
  <1>2. LocksHeld'
    BY <1>0 DEF Submit, TypeOK, LocksHeld, Staged, Keys, Held
  <1>3. CommitMasked'
    BY <1>0 DEF Submit, TypeOK, CommitMasked
  <1>4. Staged'
    BY <1>0 DEF Submit, TypeOK, Staged, Authored, Snapshotting, Kind
  <1>5. EffectsPlaced'
    BY <1>0 DEF Submit, TypeOK, EffectsPlaced, Staged
  <1>6. JournalSound'
    BY <1>0 DEF Submit, TypeOK, JournalSound, AttemptsOwned, Staged, Unbound
  <1>7. AttemptsOwned'
    <2>1. \A o \in Operation : journal[o].owner # c
      BY <1>0 DEF Submit, AttemptsOwned
    <2>2. \A d \in Call : d # c => request'[d] = request[d] /\ pc'[d] = pc[d]
      BY <1>0 DEF Submit, TypeOK
    <2>3. pc'[c] = "locking"
      BY <1>0 DEF Submit, TypeOK
    <2>4. journal' = journal
      BY DEF Submit
    <2> QED
      BY <2>1, <2>2, <2>3, <2>4, <1>0 DEF AttemptsOwned, Binding
  <1>8. AnswersTruthful'
    BY <1>0 DEF Submit, TypeOK, AnswersTruthful, EffectsPlaced, JournalSound, AttemptsOwned, Staged, Authored
  <1>9. ShownExisted'
    BY <1>0 DEF Submit, TypeOK, ShownExisted, EffectsPlaced
  <1> QED
    BY <1>1, <1>2, <1>3, <1>4, <1>5, <1>6, <1>7, <1>8, <1>9 DEF IInv

\* Nobody else holds the lock that is taken, so what its holder relies on is its
\* own.
LEMMA AcquireStep ==
    ASSUME IInv, NEW c \in Call, NEW r \in Resource, Acquire(c, r)
    PROVE  IInv'
  <1> USE NoneAssumption, BoundsAssumption DEF session, world
  <1>0. TypeOK /\ LocksHeld /\ CommitMasked /\ Staged /\ EffectsPlaced
        /\ JournalSound /\ AttemptsOwned /\ AnswersTruthful /\ ShownExisted
    BY DEF IInv
  <1>1. TypeOK'
    BY <1>0 DEF Acquire, TypeOK, Entry, PcValues, Binding, Unbound
  <1>2. LocksHeld'
    BY <1>0 DEF Acquire, TypeOK, LocksHeld, Staged, Keys, Held
  <1>3. CommitMasked'
    BY <1>0 DEF Acquire, TypeOK, CommitMasked
  <1>4. Staged'
    BY <1>0 DEF Acquire, TypeOK, Staged, Authored, Snapshotting, Kind
  <1>5. EffectsPlaced'
    BY <1>0 DEF Acquire, TypeOK, EffectsPlaced, Staged
  <1>6. JournalSound'
    BY <1>0 DEF Acquire, TypeOK, JournalSound, AttemptsOwned, Staged, Unbound
  <1>7. AttemptsOwned'
    BY <1>0 DEF Acquire, TypeOK, Authored, Snapshotting, AttemptsOwned, JournalSound, CommitMasked, Staged, Binding, Unbound
  <1>8. AnswersTruthful'
    BY <1>0 DEF Acquire, TypeOK, AnswersTruthful, EffectsPlaced, JournalSound, AttemptsOwned, Staged, Authored
  <1>9. ShownExisted'
    BY <1>0 DEF Acquire, TypeOK, ShownExisted, EffectsPlaced
  <1> QED
    BY <1>1, <1>2, <1>3, <1>4, <1>5, <1>6, <1>7, <1>8, <1>9 DEF IInv

\* A call that is admitted has the locks it wants, and nothing else changes.
LEMMA AdmitStep ==
    ASSUME IInv, NEW c \in Call, Admit(c)
    PROVE  IInv'
  <1> USE NoneAssumption, BoundsAssumption DEF session, world
  <1>0. TypeOK /\ LocksHeld /\ CommitMasked /\ Staged /\ EffectsPlaced
        /\ JournalSound /\ AttemptsOwned /\ AnswersTruthful /\ ShownExisted
    BY DEF IInv
  <1>1. PICK place \in {"journal", "begin", "load"} :
          /\ pc[c] = "locked"
          /\ pc' = [pc EXCEPT ![c] = place]
          /\ place = "journal" => request[c].kind = "post"
          /\ place = "begin" => request[c].kind = "field"
          /\ place = "load" => request[c].kind \in Authored
          /\ UNCHANGED <<request, guard, holder, reserving, session, answer, world>>
    <2>1. request[c].kind \in Kind
      BY <1>0, Asked DEF Admit
    <2> QED
      BY <2>1 DEF Admit, Kind, Authored
  <1>11. TypeOK'
    BY <1>0, <1>1 DEF TypeOK, PcValues
  <1>12. LocksHeld'
    BY <1>0, <1>1 DEF TypeOK, LocksHeld, Keys
  <1>13. CommitMasked'
    BY <1>0, <1>1 DEF TypeOK, CommitMasked
  <1>14. Staged'
    BY <1>0, <1>1 DEF TypeOK, Staged
  <1>15. EffectsPlaced'
    BY <1>0, <1>1 DEF TypeOK, EffectsPlaced
  <1>16. JournalSound'
    BY <1>0, <1>1 DEF JournalSound
  <1>17. AttemptsOwned'
    BY <1>0, <1>1 DEF TypeOK, AttemptsOwned, Binding, Authored
  <1>18. AnswersTruthful'
    BY <1>0, <1>1 DEF AnswersTruthful
  <1>19. ShownExisted'
    BY <1>0, <1>1 DEF ShownExisted
  <1> QED
    BY <1>11, <1>12, <1>13, <1>14, <1>15, <1>16, <1>17, <1>18, <1>19 DEF IInv

\* A load changes nothing but how far the call is.
LEMMA LoadStep ==
    ASSUME IInv, NEW c \in Call, Load(c)
    PROVE  IInv'
  <1> USE NoneAssumption, BoundsAssumption DEF session, world
  <1>0. TypeOK /\ LocksHeld /\ CommitMasked /\ Staged /\ EffectsPlaced
        /\ JournalSound /\ AttemptsOwned /\ AnswersTruthful /\ ShownExisted
    BY DEF IInv
  <1>1. PICK place \in {"reserve", "destination", "begin"} :
          /\ pc[c] = "load"
          /\ pc' = [pc EXCEPT ![c] = place]
          /\ request[c].kind \in Authored
          /\ UNCHANGED <<request, guard, holder, reserving, session, answer, world>>
    <2>1. pc[c] = "load" /\ request[c].kind \in Authored
      BY <1>0 DEF Load, Staged
    <2> QED
      BY <2>1 DEF Load, Authored, Snapshotting
  <1>11. TypeOK'
    BY <1>0, <1>1 DEF TypeOK, PcValues
  <1>12. LocksHeld'
    BY <1>0, <1>1 DEF TypeOK, LocksHeld, Keys
  <1>13. CommitMasked'
    BY <1>0, <1>1 DEF TypeOK, CommitMasked
  <1>14. Staged'
    BY <1>0, <1>1 DEF TypeOK, Staged
  <1>15. EffectsPlaced'
    BY <1>0, <1>1 DEF TypeOK, EffectsPlaced
  <1>16. JournalSound'
    BY <1>0, <1>1 DEF JournalSound
  <1>17. AttemptsOwned'
    BY <1>0, <1>1 DEF TypeOK, AttemptsOwned, Binding, Authored
  <1>18. AnswersTruthful'
    BY <1>0, <1>1 DEF AnswersTruthful
  <1>19. ShownExisted'
    BY <1>0, <1>1 DEF ShownExisted
  <1> QED
    BY <1>11, <1>12, <1>13, <1>14, <1>15, <1>16, <1>17, <1>18, <1>19 DEF IInv

\* Neither does the load of a move's destination.
LEMMA LoadDestinationStep ==
    ASSUME IInv, NEW c \in Call, LoadDestination(c)
    PROVE  IInv'
  <1> USE NoneAssumption, BoundsAssumption DEF session, world
  <1>0. TypeOK /\ LocksHeld /\ CommitMasked /\ Staged /\ EffectsPlaced
        /\ JournalSound /\ AttemptsOwned /\ AnswersTruthful /\ ShownExisted
    BY DEF IInv
  <1>1. TypeOK'
    BY <1>0 DEF LoadDestination, TypeOK, Entry, PcValues, Binding, Unbound
  <1>2. LocksHeld'
    BY <1>0 DEF LoadDestination, TypeOK, LocksHeld, Staged, Keys, Held
  <1>3. CommitMasked'
    BY <1>0 DEF LoadDestination, TypeOK, CommitMasked
  <1>4. Staged'
    BY <1>0 DEF LoadDestination, TypeOK, Staged, Authored, Snapshotting, Kind
  <1>5. EffectsPlaced'
    BY <1>0 DEF LoadDestination, TypeOK, EffectsPlaced, Staged
  <1>6. JournalSound'
    BY <1>0 DEF LoadDestination, TypeOK, JournalSound, AttemptsOwned, Staged, Unbound
  <1>7. AttemptsOwned'
    BY <1>0 DEF LoadDestination, TypeOK, Authored, Snapshotting, AttemptsOwned, JournalSound, CommitMasked, Staged, Binding, Unbound
  <1>8. AnswersTruthful'
    BY <1>0 DEF LoadDestination, TypeOK, AnswersTruthful, EffectsPlaced, JournalSound, AttemptsOwned, Staged, Authored
  <1>9. ShownExisted'
    BY <1>0 DEF LoadDestination, TypeOK, ShownExisted, EffectsPlaced
  <1> QED
    BY <1>1, <1>2, <1>3, <1>4, <1>5, <1>6, <1>7, <1>8, <1>9 DEF IInv

\* A reservation is for a target whose lock the call holds, which nobody else
\* can have reserved.
LEMMA ReserveStep ==
    ASSUME IInv, NEW c \in Call, Reserve(c)
    PROVE  IInv'
  <1> USE NoneAssumption, BoundsAssumption DEF session, world
  <1>0. TypeOK /\ LocksHeld /\ CommitMasked /\ Staged /\ EffectsPlaced
        /\ JournalSound /\ AttemptsOwned /\ AnswersTruthful /\ ShownExisted
    BY DEF IInv
  <1>1. TypeOK'
    BY <1>0 DEF Reserve, TypeOK, Entry, PcValues, Binding, Unbound
  <1>2. LocksHeld'
    BY <1>0 DEF Reserve, TypeOK, LocksHeld, Staged, Keys, Held
  <1>3. CommitMasked'
    BY <1>0 DEF Reserve, TypeOK, CommitMasked
  <1>4. Staged'
    BY <1>0 DEF Reserve, TypeOK, Staged, Authored, Snapshotting, Kind
  <1>5. EffectsPlaced'
    BY <1>0 DEF Reserve, TypeOK, EffectsPlaced, Staged
  <1>6. JournalSound'
    BY <1>0 DEF Reserve, TypeOK, JournalSound, AttemptsOwned, Staged, Unbound
  <1>7. AttemptsOwned'
    BY <1>0 DEF Reserve, TypeOK, Authored, Snapshotting, AttemptsOwned, JournalSound, CommitMasked, Staged, Binding, Unbound
  <1>8. AnswersTruthful'
    BY <1>0 DEF Reserve, TypeOK, AnswersTruthful, EffectsPlaced, JournalSound, AttemptsOwned, Staged, Authored
  <1>9. ShownExisted'
    BY <1>0 DEF Reserve, TypeOK, ShownExisted, EffectsPlaced
  <1> QED
    BY <1>1, <1>2, <1>3, <1>4, <1>5, <1>6, <1>7, <1>8, <1>9 DEF IInv

\* An attempt begins where none is pending, and not where one is over.
LEMMA OwnStep ==
    ASSUME IInv, NEW c \in Call, Own(c)
    PROVE  IInv'
  <1> USE NoneAssumption, BoundsAssumption DEF session, world
  <1>0. TypeOK /\ LocksHeld /\ CommitMasked /\ Staged /\ EffectsPlaced
        /\ JournalSound /\ AttemptsOwned /\ AnswersTruthful /\ ShownExisted
    BY DEF IInv
  <1>1. TypeOK'
    <2>1. /\ request[c].op \in Operation
          /\ Binding(c) \in [resource : Resource, content : Content]
      BY <1>0, Asked DEF Own, Staged, Binding
    <2>2. journal' = [journal EXCEPT ![request[c].op] =
            [bound |-> Binding(c), outcome |-> "pending", owner |-> c]]
      BY DEF Own
    <2>3. journal' \in [Operation -> {Unbound} \cup Entry]
      BY <2>1, <2>2, <1>0 DEF TypeOK, Entry
    <2> QED
      BY <2>3, <1>0 DEF Own, TypeOK, PcValues
  <1>2. LocksHeld'
    BY <1>0 DEF Own, MayOwn, TypeOK, LocksHeld, Staged, Keys, Held
  <1>3. CommitMasked'
    BY <1>0 DEF Own, MayOwn, TypeOK, CommitMasked
  <1>4. Staged'
    BY <1>0 DEF Own, MayOwn, TypeOK, Staged, Authored, Snapshotting, Kind
  <1>5. EffectsPlaced'
    BY <1>0 DEF Own, MayOwn, TypeOK, EffectsPlaced, Staged
  <1>6. JournalSound'
    BY <1>0 DEF Own, MayOwn, TypeOK, JournalSound, AttemptsOwned, Staged, Unbound
  <1>7. AttemptsOwned'
    <2>1. /\ request[c].op \in Operation /\ request[c].kind = "post"
          /\ pc[c] = "journal"
      BY <1>0, Asked DEF Own, Staged
    <2>2. /\ journal'[request[c].op] =
               [bound |-> Binding(c), outcome |-> "pending", owner |-> c]
          /\ \A o \in Operation : o # request[c].op => journal'[o] = journal[o]
      BY <2>1, <1>0 DEF Own, TypeOK
    <2>3. journal[request[c].op].owner = None
      BY <2>1, <1>0 DEF Own, MayOwn, JournalSound
    <2>4. /\ pc'[c] = "begin" /\ \A d \in Call : d # c => pc'[d] = pc[d]
          /\ request' = request
      BY <1>0 DEF Own, TypeOK
    <2>5. \A d \in Call : Binding(d)' = Binding(d)
      BY <2>4 DEF Binding
    <2>6. ASSUME NEW o \in Operation, NEW d \in Call, journal'[o].owner = d
          PROVE  /\ pc'[d] \in {"begin", "write"}
                 /\ request[d].kind = "post" /\ request[d].op = o
                 /\ journal'[o].bound = Binding(d)
      <3>1. CASE o = request[c].op
        BY <3>1, <2>6, <2>1, <2>2, <2>4
      <3>2. CASE o # request[c].op
        BY <3>2, <2>6, <2>1, <2>2, <2>4, <1>0 DEF AttemptsOwned
      <3> QED
        BY <3>1, <3>2
    <2>7. ASSUME NEW d \in Call, pc'[d] \in {"begin", "write"}, request[d].kind = "post"
          PROVE  journal'[request[d].op].owner = d
      <3>1. CASE d = c
        BY <3>1, <2>2
      <3>2. CASE d # c
        <4>1. journal[request[d].op].owner = d /\ request[d].op # request[c].op
          BY <3>2, <2>3, <2>4, <2>7, <1>0 DEF AttemptsOwned
        <4>2. request[d].op \in Operation
          BY <2>4, <2>7, <3>2, <1>0, Asked
        <4> QED
          BY <4>1, <4>2, <2>2
      <3> QED
        BY <3>1, <3>2
    <2> QED
      BY <2>4, <2>5, <2>6, <2>7 DEF AttemptsOwned
  <1>8. AnswersTruthful'
    BY <1>0 DEF Own, MayOwn, TypeOK, AnswersTruthful, EffectsPlaced, JournalSound, AttemptsOwned, Staged, Authored
  <1>9. ShownExisted'
    BY <1>0 DEF Own, MayOwn, TypeOK, ShownExisted, EffectsPlaced
  <1> QED
    BY <1>1, <1>2, <1>3, <1>4, <1>5, <1>6, <1>7, <1>8, <1>9 DEF IInv

\* A repeated operation answers with the outcome the journal has.
LEMMA ReplayStep ==
    ASSUME IInv, NEW c \in Call, Replay(c)
    PROVE  IInv'
  <1> USE NoneAssumption, BoundsAssumption DEF session, world
  <1>0. TypeOK /\ LocksHeld /\ CommitMasked /\ Staged /\ EffectsPlaced
        /\ JournalSound /\ AttemptsOwned /\ AnswersTruthful /\ ShownExisted
    BY DEF IInv
  <1>1. PICK what \in {"ok", "unknown"} :
          /\ Return(c, what)
          /\ pc[c] = "journal"
          /\ what = "ok" => journal[request[c].op].outcome = "succeeded"
          /\ UNCHANGED <<request, guard, session, world>>
    BY DEF Replay
  <1>2. /\ pc' \in [Call -> PcValues] /\ pc'[c] = "done"
        /\ \A d \in Call : d # c => pc'[d] = pc[d]
        /\ answer' \in [Call -> {None, "ok", "refused", "cancelled", "unknown"}]
        /\ answer'[c] = what
        /\ \A d \in Call : d # c => answer'[d] = answer[d]
        /\ holder' \in [Resource -> Call \cup {None}]
        /\ reserving' \subseteq
             {d \in Call : pc'[d] \in {"begin", "check", "write", "publish"}}
        /\ LocksHeld'
    BY <1>0, <1>1, Returning
  <1>3. journal' = journal /\ \A o \in Operation : journal[o].owner # c
    BY <1>0, <1>1 DEF AttemptsOwned
  <1>11. TypeOK'
    BY <1>0, <1>1, <1>2, <1>3 DEF TypeOK
  <1>12. LocksHeld'
    BY <1>2
  <1>13. CommitMasked'
    BY <1>0, <1>1, <1>2 DEF TypeOK, CommitMasked
  <1>14. Staged'
    BY <1>0, <1>1, <1>2 DEF TypeOK, Staged
  <1>15. EffectsPlaced'
    BY <1>0, <1>1, <1>2 DEF TypeOK, EffectsPlaced
  <1>16. JournalSound'
    BY <1>0, <1>1, <1>3 DEF TypeOK, JournalSound, AttemptsOwned
  <1>17. AttemptsOwned'
    BY <1>0, <1>1, <1>2, <1>3 DEF TypeOK, AttemptsOwned, Binding
  <1>18. AnswersTruthful'
    <2>1. request[c].kind = "post" /\ request[c].op \in Operation
      BY <1>0, <1>1, Asked DEF Staged
    <2>2. what = "ok" => posted[request[c].op] = 1
      BY <2>1, <1>0, <1>1 DEF JournalSound
    <2> QED
      BY <2>1, <2>2, <1>0, <1>1, <1>2 DEF TypeOK, AnswersTruthful
  <1>19. ShownExisted'
    BY <1>0, <1>1 DEF ShownExisted
  <1> QED
    BY <1>11, <1>12, <1>13, <1>14, <1>15, <1>16, <1>17, <1>18, <1>19 DEF IInv

\* From here on no cancellation is heard; nothing has been written yet.
LEMMA BeginCommitStep ==
    ASSUME IInv, NEW c \in Call, BeginCommit(c)
    PROVE  IInv'
  <1> USE NoneAssumption, BoundsAssumption DEF session, world
  <1>0. TypeOK /\ LocksHeld /\ CommitMasked /\ Staged /\ EffectsPlaced
        /\ JournalSound /\ AttemptsOwned /\ AnswersTruthful /\ ShownExisted
    BY DEF IInv
  <1>1. TypeOK'
    BY <1>0 DEF BeginCommit, TypeOK, Entry, PcValues, Binding, Unbound
  <1>2. LocksHeld'
    BY <1>0 DEF BeginCommit, TypeOK, LocksHeld, Staged, Keys, Held
  <1>3. CommitMasked'
    BY <1>0 DEF BeginCommit, TypeOK, CommitMasked
  <1>4. Staged'
    BY <1>0 DEF BeginCommit, TypeOK, Staged, Authored, Snapshotting, Kind
  <1>5. EffectsPlaced'
    BY <1>0 DEF BeginCommit, TypeOK, EffectsPlaced, Staged
  <1>6. JournalSound'
    BY <1>0 DEF BeginCommit, TypeOK, JournalSound, AttemptsOwned, Staged, Unbound
  <1>7. AttemptsOwned'
    BY <1>0 DEF BeginCommit, TypeOK, Authored, Snapshotting, AttemptsOwned, JournalSound, CommitMasked, Staged, Binding, Unbound
  <1>8. AnswersTruthful'
    BY <1>0 DEF BeginCommit, TypeOK, AnswersTruthful, EffectsPlaced, JournalSound, AttemptsOwned, Staged, Authored
  <1>9. ShownExisted'
    BY <1>0 DEF BeginCommit, TypeOK, ShownExisted, EffectsPlaced
  <1> QED
    BY <1>1, <1>2, <1>3, <1>4, <1>5, <1>6, <1>7, <1>8, <1>9 DEF IInv

\* A commit lost against cancellation ends its attempt conclusively, with
\* nothing created.
LEMMA LoseCommitStep ==
    ASSUME IInv, NEW c \in Call, LoseCommit(c)
    PROVE  IInv'
  <1> USE NoneAssumption, BoundsAssumption DEF session, world
  <1>0. TypeOK /\ LocksHeld /\ CommitMasked /\ Staged /\ EffectsPlaced
        /\ JournalSound /\ AttemptsOwned /\ AnswersTruthful /\ ShownExisted
    BY DEF IInv
  <1>1. /\ pc[c] = "begin" /\ guard[c] = "cancelled"
        /\ Return(c, "cancelled") /\ Finish(c, "conclusive")
        /\ UNCHANGED <<request, guard, shown, active, world>>
    BY DEF LoseCommit
  <1>2. /\ pc' \in [Call -> PcValues] /\ pc'[c] = "done"
        /\ \A d \in Call : d # c => pc'[d] = pc[d]
        /\ answer' \in [Call -> {None, "ok", "refused", "cancelled", "unknown"}]
        /\ answer'[c] = "cancelled"
        /\ \A d \in Call : d # c => answer'[d] = answer[d]
        /\ holder' \in [Resource -> Call \cup {None}]
        /\ reserving' \subseteq
             {d \in Call : pc'[d] \in {"begin", "check", "write", "publish"}}
        /\ LocksHeld'
    BY <1>0, <1>1, Returning
  <1>3. /\ journal' \in [Operation -> {Unbound} \cup Entry]
        /\ \A o \in Operation : journal[o].owner # c => journal'[o] = journal[o]
        /\ \A o \in Operation : journal[o].owner = c =>
             /\ journal'[o].outcome = "conclusive"
             /\ journal'[o].owner = None
             /\ journal'[o].bound = journal[o].bound
    BY <1>0, <1>1, Finishing
  <1>11. TypeOK'
    BY <1>0, <1>1, <1>2, <1>3 DEF TypeOK
  <1>12. LocksHeld'
    BY <1>2
  <1>13. CommitMasked'
    BY <1>0, <1>1, <1>2 DEF TypeOK, CommitMasked
  <1>14. Staged'
    BY <1>0, <1>1, <1>2 DEF TypeOK, Staged
  <1>15. EffectsPlaced'
    BY <1>0, <1>1, <1>2 DEF TypeOK, EffectsPlaced
  <1>16. JournalSound'
    BY <1>0, <1>1, <1>3 DEF TypeOK, JournalSound, AttemptsOwned
  <1>17. AttemptsOwned'
    <2>1. \A d \in Call : Binding(d)' = Binding(d)
      BY <1>1 DEF Binding
    <2>2. ASSUME NEW o \in Operation, NEW d \in Call, journal'[o].owner = d
          PROVE  d # c /\ journal[o].owner = d /\ journal'[o] = journal[o]
      BY <2>2, <1>3
    <2>3. ASSUME NEW o \in Operation, NEW d \in Call, journal'[o].owner = d
          PROVE  /\ pc'[d] \in {"begin", "write"}
                 /\ request'[d].kind = "post" /\ request'[d].op = o
                 /\ journal'[o].bound = Binding(d)'
      BY <2>1, <2>2, <2>3, <1>0, <1>1, <1>2 DEF AttemptsOwned
    <2>4. ASSUME NEW d \in Call, pc'[d] \in {"begin", "write"},
                 request'[d].kind = "post"
          PROVE  journal'[request'[d].op].owner = d
      <3>1. d # c /\ pc'[d] = pc[d] /\ request'[d] = request[d]
        BY <2>4, <1>1, <1>2
      <3>2. request[d].op \in Operation /\ journal[request[d].op].owner = d
        BY <2>4, <3>1, <1>0, Asked DEF AttemptsOwned
      <3> QED
        BY <3>1, <3>2, <1>3
    <2> QED
      BY <2>3, <2>4 DEF AttemptsOwned
  <1>18. AnswersTruthful'
    <2>1. ASSUME NEW d \in Call, d # c
          PROVE  /\ answer'[d] = answer[d] /\ request'[d] = request[d]
                 /\ d \in effective' <=> d \in effective
                 /\ posted[request[d].op] = 1 /\ request[d].op \in Operation =>
                      posted'[request[d].op] = 1
      BY <2>1, <1>0, <1>1, <1>2
    <2>2. ASSUME NEW d \in Call, d # c
          PROVE  /\ answer'[d] = "ok" =>
                      \/ d \in effective'
                      \/ request'[d].kind = "post" /\ posted'[request'[d].op] = 1
                 /\ answer'[d] \in {"refused", "cancelled"} => d \notin effective'
                 /\ answer'[d] = "unknown" => request'[d].kind \in {"field", "post"}
      <3>1. request[d].kind = "post" /\ answer[d] = "ok" => request[d].op \in Operation
        BY <2>2, <1>0, Asked, NoneAssumption DEF Staged
      <3> QED
        BY <2>1, <2>2, <3>1, <1>0 DEF AnswersTruthful
    <2>3. /\ answer'[c] = "ok" => c \in effective'
          /\ answer'[c] \in {"refused", "cancelled"} => c \notin effective'
          /\ answer'[c] = "unknown" => request'[c].kind \in {"field", "post"}
      BY <1>0, <1>1, <1>2 DEF EffectsPlaced
    <2> QED
      BY <2>2, <2>3 DEF AnswersTruthful
  <1>19. ShownExisted'
    BY <1>0, <1>1 DEF ShownExisted
  <1> QED
    BY <1>11, <1>12, <1>13, <1>14, <1>15, <1>16, <1>17, <1>18, <1>19 DEF IInv

\* The comparison that precedes a rename changes nothing.
LEMMA CheckStep ==
    ASSUME IInv, NEW c \in Call, Check(c)
    PROVE  IInv'
  <1> USE NoneAssumption, BoundsAssumption DEF session, world
  <1>0. TypeOK /\ LocksHeld /\ CommitMasked /\ Staged /\ EffectsPlaced
        /\ JournalSound /\ AttemptsOwned /\ AnswersTruthful /\ ShownExisted
    BY DEF IInv
  <1>1. TypeOK'
    BY <1>0 DEF Check, TypeOK, Entry, PcValues, Binding, Unbound
  <1>2. LocksHeld'
    BY <1>0 DEF Check, TypeOK, LocksHeld, Staged, Keys, Held
  <1>3. CommitMasked'
    BY <1>0 DEF Check, TypeOK, CommitMasked
  <1>4. Staged'
    BY <1>0 DEF Check, TypeOK, Staged, Authored, Snapshotting, Kind
  <1>5. EffectsPlaced'
    BY <1>0 DEF Check, TypeOK, EffectsPlaced, Staged
  <1>6. JournalSound'
    BY <1>0 DEF Check, TypeOK, JournalSound, AttemptsOwned, Staged, Unbound
  <1>7. AttemptsOwned'
    BY <1>0 DEF Check, TypeOK, Authored, Snapshotting, AttemptsOwned, JournalSound, CommitMasked, Staged, Binding, Unbound
  <1>8. AnswersTruthful'
    BY <1>0 DEF Check, TypeOK, AnswersTruthful, EffectsPlaced, JournalSound, AttemptsOwned, Staged, Authored
  <1>9. ShownExisted'
    BY <1>0 DEF Check, TypeOK, ShownExisted, EffectsPlaced
  <1> QED
    BY <1>1, <1>2, <1>3, <1>4, <1>5, <1>6, <1>7, <1>8, <1>9 DEF IInv

\* The rename makes the change that the answer will be about.
LEMMA WriteStep ==
    ASSUME IInv, NEW c \in Call, Write(c)
    PROVE  IInv'
  <1> USE NoneAssumption, BoundsAssumption DEF session, world
  <1>0. TypeOK /\ LocksHeld /\ CommitMasked /\ Staged /\ EffectsPlaced
        /\ JournalSound /\ AttemptsOwned /\ AnswersTruthful /\ ShownExisted
    BY DEF IInv
  <1>a. /\ files' \in [Resource -> Content \cup {None}]
        /\ request[c].kind \in Snapshotting =>
             /\ request[c].content \in Content
             /\ request[c].resource \in Resource
             /\ files'[request[c].resource] = request[c].content
    <2>1. /\ pc[c] = "write" /\ request[c].kind \in Authored /\ files' = Written(c)
      BY DEF Write
    <2>2. /\ request[c].resource \in Resource /\ request[c].to \in Resource
          /\ request[c].kind \in Snapshotting => request[c].content \in Content
      BY <2>1, <1>0, Asked
    <2>3. CASE request[c].kind \in Snapshotting
      <3>1. files' = [files EXCEPT ![request[c].resource] = request[c].content]
        BY <2>1, <2>3 DEF Written, Snapshotting
      <3> QED
        BY <3>1, <2>2, <2>3, <1>0 DEF TypeOK
    <2>4. CASE request[c].kind = "remove"
      <3>1. files' = [files EXCEPT ![request[c].resource] = None]
        BY <2>1, <2>4 DEF Written, Snapshotting
      <3> QED
        BY <3>1, <2>2, <2>4, <1>0 DEF TypeOK, Snapshotting
    <2>5. CASE request[c].kind = "move"
      <3>1. files' = [files EXCEPT ![request[c].to] = files[request[c].resource],
                                   ![request[c].resource] = None]
        BY <2>1, <2>5 DEF Written, Snapshotting
      <3> QED
        BY <3>1, <2>2, <2>5, <1>0 DEF TypeOK, Snapshotting
    <2> QED
      BY <2>1, <2>3, <2>4, <2>5 DEF Authored, Snapshotting
  <1>1. TypeOK'
    <2>1. had' \subseteq Resource \X Content
      BY <1>0 DEF Write, Current, TypeOK
    <2> QED
      BY <2>1, <1>a, <1>0 DEF Write, Finished, TypeOK, PcValues
  <1>2. LocksHeld'
    BY <1>0 DEF Write, Finished, Writable, Written, Current, TypeOK, LocksHeld, Staged, Keys, Held
  <1>3. CommitMasked'
    BY <1>0 DEF Write, Finished, Writable, Written, Current, TypeOK, CommitMasked
  <1>4. Staged'
    BY <1>0 DEF Write, Finished, Writable, Written, Current, TypeOK, Staged, Authored, Snapshotting, Kind
  <1>5. EffectsPlaced'
    <2>1. request[c].kind \in Snapshotting =>
            <<request[c].resource, request[c].content>> \in Current(files')
      BY <1>a DEF Current
    <2>2. /\ pc'[c] = "publish" /\ \A d \in Call : d # c => pc'[d] = pc[d]
          /\ had' = had \cup Current(files') /\ effective' = effective \cup {c}
          /\ request' = request
      BY <1>0 DEF Write, TypeOK
    <2> QED
      BY <2>1, <2>2, <1>0 DEF EffectsPlaced
  <1>6. JournalSound'
    BY <1>0 DEF Write, Finished, Writable, Written, Current, TypeOK, JournalSound, AttemptsOwned, Staged, Unbound
  <1>7. AttemptsOwned'
    BY <1>0 DEF Write, Finished, Writable, Written, Current, TypeOK, Authored, Snapshotting, AttemptsOwned, JournalSound, CommitMasked, Staged, Binding, Unbound
  <1>8. AnswersTruthful'
    BY <1>0 DEF Write, Finished, Writable, Written, Current, TypeOK, AnswersTruthful, EffectsPlaced, JournalSound, AttemptsOwned, Staged, Authored
  <1>9. ShownExisted'
    BY <1>0 DEF Write, Finished, Writable, Written, Current, TypeOK, ShownExisted, EffectsPlaced
  <1> QED
    BY <1>1, <1>2, <1>3, <1>4, <1>5, <1>6, <1>7, <1>8, <1>9 DEF IInv

\* What a reservation publishes is what was written.
LEMMA PublishStep ==
    ASSUME IInv, NEW c \in Call, Publish(c)
    PROVE  IInv'
  <1> USE NoneAssumption, BoundsAssumption DEF session, world
  <1>0. TypeOK /\ LocksHeld /\ CommitMasked /\ Staged /\ EffectsPlaced
        /\ JournalSound /\ AttemptsOwned /\ AnswersTruthful /\ ShownExisted
    BY DEF IInv
  <1>1. /\ pc[c] = "publish"
        /\ Return(c, "ok")
        /\ UNCHANGED <<request, guard, active, journal, world>>
        /\ \/ shown' = shown
           \/ /\ request[c].kind \in Snapshotting
              /\ shown' = shown \cup {<<request[c].resource, request[c].content>>}
    BY DEF Publish
  <1>2. /\ pc' \in [Call -> PcValues] /\ pc'[c] = "done"
        /\ \A d \in Call : d # c => pc'[d] = pc[d]
        /\ answer' \in [Call -> {None, "ok", "refused", "cancelled", "unknown"}]
        /\ answer'[c] = "ok"
        /\ \A d \in Call : d # c => answer'[d] = answer[d]
        /\ holder' \in [Resource -> Call \cup {None}]
        /\ reserving' \subseteq
             {d \in Call : pc'[d] \in {"begin", "check", "write", "publish"}}
        /\ LocksHeld'
    BY <1>0, <1>1, Returning
  <1>3. journal' = journal /\ \A o \in Operation : journal[o].owner # c
    BY <1>0, <1>1 DEF AttemptsOwned
  <1>4. shown' \subseteq had
    BY <1>0, <1>1 DEF ShownExisted, EffectsPlaced
  <1>11. TypeOK'
    BY <1>0, <1>1, <1>2, <1>3, <1>4 DEF TypeOK
  <1>12. LocksHeld'
    BY <1>2
  <1>13. CommitMasked'
    BY <1>0, <1>1, <1>2 DEF TypeOK, CommitMasked
  <1>14. Staged'
    BY <1>0, <1>1, <1>2 DEF TypeOK, Staged
  <1>15. EffectsPlaced'
    BY <1>0, <1>1, <1>2 DEF TypeOK, EffectsPlaced
  <1>16. JournalSound'
    BY <1>0, <1>1, <1>3 DEF TypeOK, JournalSound, AttemptsOwned
  <1>17. AttemptsOwned'
    BY <1>0, <1>1, <1>2, <1>3 DEF TypeOK, AttemptsOwned, Binding
  <1>18. AnswersTruthful'
    <2>1. ASSUME NEW d \in Call, d # c
          PROVE  /\ answer'[d] = answer[d] /\ request'[d] = request[d]
                 /\ d \in effective' <=> d \in effective
                 /\ posted[request[d].op] = 1 /\ request[d].op \in Operation =>
                      posted'[request[d].op] = 1
      BY <2>1, <1>0, <1>1, <1>2
    <2>2. ASSUME NEW d \in Call, d # c
          PROVE  /\ answer'[d] = "ok" =>
                      \/ d \in effective'
                      \/ request'[d].kind = "post" /\ posted'[request'[d].op] = 1
                 /\ answer'[d] \in {"refused", "cancelled"} => d \notin effective'
                 /\ answer'[d] = "unknown" => request'[d].kind \in {"field", "post"}
      <3>1. request[d].kind = "post" /\ answer[d] = "ok" => request[d].op \in Operation
        BY <2>2, <1>0, Asked, NoneAssumption DEF Staged
      <3> QED
        BY <2>1, <2>2, <3>1, <1>0 DEF AnswersTruthful
    <2>3. /\ answer'[c] = "ok" => c \in effective'
          /\ answer'[c] \in {"refused", "cancelled"} => c \notin effective'
          /\ answer'[c] = "unknown" => request'[c].kind \in {"field", "post"}
      BY <1>0, <1>1, <1>2 DEF EffectsPlaced
    <2> QED
      BY <2>2, <2>3 DEF AnswersTruthful
  <1>19. ShownExisted'
    BY <1>1, <1>4 DEF ShownExisted
  <1> QED
    BY <1>11, <1>12, <1>13, <1>14, <1>15, <1>16, <1>17, <1>18, <1>19 DEF IInv

\* The object is created once, for the attempt is pending and its owner's; a
\* lost answer ends it as unknown.
LEMMA RemoteWriteStep ==
    ASSUME IInv, NEW c \in Call, RemoteWrite(c)
    PROVE  IInv'
  <1> USE NoneAssumption, BoundsAssumption DEF session, world
  <1>0. TypeOK /\ LocksHeld /\ CommitMasked /\ Staged /\ EffectsPlaced
        /\ JournalSound /\ AttemptsOwned /\ AnswersTruthful /\ ShownExisted
    BY DEF IInv
  <1>1. PICK what \in {"ok", "unknown"}, outcome \in {"succeeded", "unknown"} :
          /\ pc[c] = "write" /\ request[c].kind \notin Authored
          /\ Sent(c)
          /\ effective' = effective \cup {c}
          /\ had' = had \cup Current(files')
          /\ guard' = [guard EXCEPT ![c] = guard'[c]]
          /\ guard'[c] \in {guard[c], "complete"}
          /\ Return(c, what) /\ Finish(c, outcome)
          /\ UNCHANGED <<request, shown, active, changes, disturbed>>
    BY <1>0 DEF RemoteWrite, Finished, TypeOK
  <1>a. /\ request[c].kind \in {"field", "post"}
        /\ request[c].resource \in Resource
        /\ request[c].kind = "field" => request[c].content \in Content
        /\ request[c].kind = "post" =>
             request[c].op \in Operation /\ journal[request[c].op].owner = c
    BY <1>0, <1>1, Asked DEF Kind, Authored, AttemptsOwned
  <1>2. /\ pc' \in [Call -> PcValues] /\ pc'[c] = "done"
        /\ \A d \in Call : d # c => pc'[d] = pc[d]
        /\ answer' \in [Call -> {None, "ok", "refused", "cancelled", "unknown"}]
        /\ answer'[c] = what
        /\ \A d \in Call : d # c => answer'[d] = answer[d]
        /\ holder' \in [Resource -> Call \cup {None}]
        /\ reserving' \subseteq
             {d \in Call : pc'[d] \in {"begin", "check", "write", "publish"}}
        /\ LocksHeld'
    BY <1>0, <1>1, Returning
  <1>3. /\ journal' \in [Operation -> {Unbound} \cup Entry]
        /\ \A o \in Operation : journal[o].owner # c => journal'[o] = journal[o]
        /\ \A o \in Operation : journal[o].owner = c =>
             /\ journal'[o].outcome = outcome
             /\ journal'[o].owner = None
             /\ journal'[o].bound = journal[o].bound
    BY <1>0, <1>1, Finishing
  <1>4. /\ files' \in [Resource -> Content \cup {None}]
        /\ posted' \in [Operation -> Nat]
        /\ \A o \in Operation : journal[o].owner # c => posted'[o] = posted[o]
        /\ \A o \in Operation : journal[o].owner = c => posted[o] = 0 /\ posted'[o] = 1
    <2>1. CASE request[c].kind = "post"
      <3>1. /\ posted' = [posted EXCEPT ![request[c].op] = posted[request[c].op] + 1]
            /\ files' = files
        BY <2>1, <1>1 DEF Sent
      <3>2. posted[request[c].op] = 0
        BY <2>1, <1>0, <1>a DEF JournalSound
      <3>3. \A o \in Operation : journal[o].owner = c => o = request[c].op
        BY <1>0 DEF AttemptsOwned
      <3> QED
        BY <2>1, <3>1, <3>2, <3>3, <1>0, <1>a DEF TypeOK
    <2>2. CASE request[c].kind = "field"
      <3>1. /\ posted' = posted
            /\ files' = [files EXCEPT ![request[c].resource] = request[c].content]
        BY <2>2, <1>1 DEF Sent, Written
      <3>2. \A o \in Operation : journal[o].owner # c
        BY <2>2, <1>0 DEF AttemptsOwned
      <3> QED
        BY <2>2, <3>1, <3>2, <1>0, <1>a DEF TypeOK
    <2> QED
      BY <2>1, <2>2, <1>a
  <1>5. had' \subseteq Resource \X Content
    BY <1>0, <1>1 DEF TypeOK, Current
  <1>11. TypeOK'
    <2>1. guard' \in [Call -> {"active", "cancelled", "committing", "complete"}]
      BY <1>0, <1>1 DEF TypeOK
    <2> QED
      BY <2>1, <1>0, <1>1, <1>2, <1>3, <1>4, <1>5 DEF TypeOK
  <1>12. LocksHeld'
    BY <1>2
  <1>13. CommitMasked'
    BY <1>0, <1>1, <1>2 DEF TypeOK, CommitMasked
  <1>14. Staged'
    BY <1>0, <1>1, <1>2 DEF TypeOK, Staged
  <1>15. EffectsPlaced'
    BY <1>0, <1>1, <1>2 DEF TypeOK, EffectsPlaced
  <1>16. JournalSound'
    BY <1>0, <1>3, <1>4 DEF TypeOK, JournalSound, AttemptsOwned
  <1>17. AttemptsOwned'
    <2>1. \A d \in Call : Binding(d)' = Binding(d)
      BY <1>1 DEF Binding
    <2>2. ASSUME NEW o \in Operation, NEW d \in Call, journal'[o].owner = d
          PROVE  d # c /\ journal[o].owner = d /\ journal'[o] = journal[o]
      BY <2>2, <1>3
    <2>3. ASSUME NEW o \in Operation, NEW d \in Call, journal'[o].owner = d
          PROVE  /\ pc'[d] \in {"begin", "write"}
                 /\ request'[d].kind = "post" /\ request'[d].op = o
                 /\ journal'[o].bound = Binding(d)'
      BY <2>1, <2>2, <2>3, <1>0, <1>1, <1>2 DEF AttemptsOwned
    <2>4. ASSUME NEW d \in Call, pc'[d] \in {"begin", "write"},
                 request'[d].kind = "post"
          PROVE  journal'[request'[d].op].owner = d
      <3>1. d # c /\ pc'[d] = pc[d] /\ request'[d] = request[d]
        BY <2>4, <1>1, <1>2
      <3>2. request[d].op \in Operation /\ journal[request[d].op].owner = d
        BY <2>4, <3>1, <1>0, Asked DEF AttemptsOwned
      <3> QED
        BY <3>1, <3>2, <1>3
    <2> QED
      BY <2>3, <2>4 DEF AttemptsOwned
  <1>18. AnswersTruthful'
    <2>1. ASSUME NEW d \in Call, d # c
          PROVE  /\ answer'[d] = answer[d] /\ request'[d] = request[d]
                 /\ d \in effective' <=> d \in effective
                 /\ posted[request[d].op] = 1 /\ request[d].op \in Operation =>
                      posted'[request[d].op] = 1
      BY <2>1, <1>0, <1>1, <1>2, <1>4
    <2>2. ASSUME NEW d \in Call, d # c
          PROVE  /\ answer'[d] = "ok" =>
                      \/ d \in effective'
                      \/ request'[d].kind = "post" /\ posted'[request'[d].op] = 1
                 /\ answer'[d] \in {"refused", "cancelled"} => d \notin effective'
                 /\ answer'[d] = "unknown" => request'[d].kind \in {"field", "post"}
      <3>1. request[d].kind = "post" /\ answer[d] = "ok" => request[d].op \in Operation
        BY <2>2, <1>0, Asked, NoneAssumption DEF Staged
      <3> QED
        BY <2>1, <2>2, <3>1, <1>0 DEF AnswersTruthful
    <2>3. /\ answer'[c] = "ok" => c \in effective'
          /\ answer'[c] \in {"refused", "cancelled"} => c \notin effective'
          /\ answer'[c] = "unknown" => request'[c].kind \in {"field", "post"}
      BY <1>0, <1>1, <1>2, <1>a DEF EffectsPlaced
    <2> QED
      BY <2>2, <2>3 DEF AnswersTruthful
  <1>19. ShownExisted'
    BY <1>0, <1>1 DEF ShownExisted
  <1> QED
    BY <1>11, <1>12, <1>13, <1>14, <1>15, <1>16, <1>17, <1>18, <1>19 DEF IInv

\* Nothing was created, though the answer may leave that open.
LEMMA RemoteRefuseStep ==
    ASSUME IInv, NEW c \in Call, RemoteRefuse(c)
    PROVE  IInv'
  <1> USE NoneAssumption, BoundsAssumption DEF session, world
  <1>0. TypeOK /\ LocksHeld /\ CommitMasked /\ Staged /\ EffectsPlaced
        /\ JournalSound /\ AttemptsOwned /\ AnswersTruthful /\ ShownExisted
    BY DEF IInv
  <1>1. PICK what \in {"refused", "unknown"}, outcome \in {"conclusive", "unknown"} :
          /\ pc[c] = "write" /\ request[c].kind \notin Authored
          /\ guard' = [guard EXCEPT ![c] = guard'[c]]
          /\ guard'[c] \in {guard[c], "complete"}
          /\ Return(c, what) /\ Finish(c, outcome)
          /\ UNCHANGED <<request, shown, active, world>>
    BY <1>0 DEF RemoteRefuse, Finished, TypeOK
  <1>a. request[c].kind \in {"field", "post"}
    BY <1>0, <1>1, Asked DEF Kind, Authored
  <1>2. /\ pc' \in [Call -> PcValues] /\ pc'[c] = "done"
        /\ \A d \in Call : d # c => pc'[d] = pc[d]
        /\ answer' \in [Call -> {None, "ok", "refused", "cancelled", "unknown"}]
        /\ answer'[c] = what
        /\ \A d \in Call : d # c => answer'[d] = answer[d]
        /\ holder' \in [Resource -> Call \cup {None}]
        /\ reserving' \subseteq
             {d \in Call : pc'[d] \in {"begin", "check", "write", "publish"}}
        /\ LocksHeld'
    BY <1>0, <1>1, Returning
  <1>3. /\ journal' \in [Operation -> {Unbound} \cup Entry]
        /\ \A o \in Operation : journal[o].owner # c => journal'[o] = journal[o]
        /\ \A o \in Operation : journal[o].owner = c =>
             /\ journal'[o].outcome = outcome
             /\ journal'[o].owner = None
             /\ journal'[o].bound = journal[o].bound
    BY <1>0, <1>1, Finishing
  <1>11. TypeOK'
    <2>1. guard' \in [Call -> {"active", "cancelled", "committing", "complete"}]
      BY <1>0, <1>1 DEF TypeOK
    <2> QED
      BY <2>1, <1>0, <1>1, <1>2, <1>3 DEF TypeOK
  <1>12. LocksHeld'
    BY <1>2
  <1>13. CommitMasked'
    BY <1>0, <1>1, <1>2 DEF TypeOK, CommitMasked
  <1>14. Staged'
    BY <1>0, <1>1, <1>2 DEF TypeOK, Staged
  <1>15. EffectsPlaced'
    BY <1>0, <1>1, <1>2 DEF TypeOK, EffectsPlaced
  <1>16. JournalSound'
    BY <1>0, <1>1, <1>3 DEF TypeOK, JournalSound, AttemptsOwned
  <1>17. AttemptsOwned'
    <2>1. \A d \in Call : Binding(d)' = Binding(d)
      BY <1>1 DEF Binding
    <2>2. ASSUME NEW o \in Operation, NEW d \in Call, journal'[o].owner = d
          PROVE  d # c /\ journal[o].owner = d /\ journal'[o] = journal[o]
      BY <2>2, <1>3
    <2>3. ASSUME NEW o \in Operation, NEW d \in Call, journal'[o].owner = d
          PROVE  /\ pc'[d] \in {"begin", "write"}
                 /\ request'[d].kind = "post" /\ request'[d].op = o
                 /\ journal'[o].bound = Binding(d)'
      BY <2>1, <2>2, <2>3, <1>0, <1>1, <1>2 DEF AttemptsOwned
    <2>4. ASSUME NEW d \in Call, pc'[d] \in {"begin", "write"},
                 request'[d].kind = "post"
          PROVE  journal'[request'[d].op].owner = d
      <3>1. d # c /\ pc'[d] = pc[d] /\ request'[d] = request[d]
        BY <2>4, <1>1, <1>2
      <3>2. request[d].op \in Operation /\ journal[request[d].op].owner = d
        BY <2>4, <3>1, <1>0, Asked DEF AttemptsOwned
      <3> QED
        BY <3>1, <3>2, <1>3
    <2> QED
      BY <2>3, <2>4 DEF AttemptsOwned
  <1>18. AnswersTruthful'
    <2>1. ASSUME NEW d \in Call, d # c
          PROVE  /\ answer'[d] = answer[d] /\ request'[d] = request[d]
                 /\ d \in effective' <=> d \in effective
                 /\ posted[request[d].op] = 1 /\ request[d].op \in Operation =>
                      posted'[request[d].op] = 1
      BY <2>1, <1>0, <1>1, <1>2
    <2>2. ASSUME NEW d \in Call, d # c
          PROVE  /\ answer'[d] = "ok" =>
                      \/ d \in effective'
                      \/ request'[d].kind = "post" /\ posted'[request'[d].op] = 1
                 /\ answer'[d] \in {"refused", "cancelled"} => d \notin effective'
                 /\ answer'[d] = "unknown" => request'[d].kind \in {"field", "post"}
      <3>1. request[d].kind = "post" /\ answer[d] = "ok" => request[d].op \in Operation
        BY <2>2, <1>0, Asked, NoneAssumption DEF Staged
      <3> QED
        BY <2>1, <2>2, <3>1, <1>0 DEF AnswersTruthful
    <2>3. /\ answer'[c] = "ok" => c \in effective'
          /\ answer'[c] \in {"refused", "cancelled"} => c \notin effective'
          /\ answer'[c] = "unknown" => request'[c].kind \in {"field", "post"}
      BY <1>0, <1>1, <1>2, <1>a DEF EffectsPlaced
    <2> QED
      BY <2>2, <2>3 DEF AnswersTruthful
  <1>19. ShownExisted'
    BY <1>0, <1>1 DEF ShownExisted
  <1> QED
    BY <1>11, <1>12, <1>13, <1>14, <1>15, <1>16, <1>17, <1>18, <1>19 DEF IInv

\* A call that fails before its commit has changed nothing.
LEMMA RefuseStep ==
    ASSUME IInv, NEW c \in Call, Refuse(c)
    PROVE  IInv'
  <1> USE NoneAssumption, BoundsAssumption DEF session, world
  <1>0. TypeOK /\ LocksHeld /\ CommitMasked /\ Staged /\ EffectsPlaced
        /\ JournalSound /\ AttemptsOwned /\ AnswersTruthful /\ ShownExisted
    BY DEF IInv
  <1>1. /\ pc[c] \notin {"idle", "locking", "begin", "publish", "done"}
        /\ pc[c] = "write" => request[c].kind \in Authored
        /\ Return(c, "refused")
        /\ UNCHANGED <<request, session, world>>
        /\ guard' = [guard EXCEPT ![c] = guard'[c]]
        /\ guard'[c] \in {guard[c], "complete"}
    BY <1>0 DEF Refuse, Finished, TypeOK
  <1>2. /\ pc' \in [Call -> PcValues] /\ pc'[c] = "done"
        /\ \A d \in Call : d # c => pc'[d] = pc[d]
        /\ answer' \in [Call -> {None, "ok", "refused", "cancelled", "unknown"}]
        /\ answer'[c] = "refused"
        /\ \A d \in Call : d # c => answer'[d] = answer[d]
        /\ holder' \in [Resource -> Call \cup {None}]
        /\ reserving' \subseteq
             {d \in Call : pc'[d] \in {"begin", "check", "write", "publish"}}
        /\ LocksHeld'
    BY <1>0, <1>1, Returning
  <1>3. journal' = journal /\ \A o \in Operation : journal[o].owner # c
    BY <1>0, <1>1 DEF AttemptsOwned, Authored
  <1>11. TypeOK'
    <2>1. guard' \in [Call -> {"active", "cancelled", "committing", "complete"}]
      BY <1>0, <1>1 DEF TypeOK
    <2> QED
      BY <2>1, <1>0, <1>1, <1>2, <1>3 DEF TypeOK
  <1>12. LocksHeld'
    BY <1>2
  <1>13. CommitMasked'
    BY <1>0, <1>1, <1>2 DEF TypeOK, CommitMasked
  <1>14. Staged'
    BY <1>0, <1>1, <1>2 DEF TypeOK, Staged
  <1>15. EffectsPlaced'
    BY <1>0, <1>1, <1>2 DEF TypeOK, EffectsPlaced
  <1>16. JournalSound'
    BY <1>0, <1>1, <1>3 DEF TypeOK, JournalSound, AttemptsOwned
  <1>17. AttemptsOwned'
    BY <1>0, <1>1, <1>2, <1>3 DEF TypeOK, AttemptsOwned, Binding
  <1>18. AnswersTruthful'
    <2>1. ASSUME NEW d \in Call, d # c
          PROVE  /\ answer'[d] = answer[d] /\ request'[d] = request[d]
                 /\ d \in effective' <=> d \in effective
                 /\ posted[request[d].op] = 1 /\ request[d].op \in Operation =>
                      posted'[request[d].op] = 1
      BY <2>1, <1>0, <1>1, <1>2
    <2>2. ASSUME NEW d \in Call, d # c
          PROVE  /\ answer'[d] = "ok" =>
                      \/ d \in effective'
                      \/ request'[d].kind = "post" /\ posted'[request'[d].op] = 1
                 /\ answer'[d] \in {"refused", "cancelled"} => d \notin effective'
                 /\ answer'[d] = "unknown" => request'[d].kind \in {"field", "post"}
      <3>1. request[d].kind = "post" /\ answer[d] = "ok" => request[d].op \in Operation
        BY <2>2, <1>0, Asked, NoneAssumption DEF Staged
      <3> QED
        BY <2>1, <2>2, <3>1, <1>0 DEF AnswersTruthful
    <2>3. /\ answer'[c] = "ok" => c \in effective'
          /\ answer'[c] \in {"refused", "cancelled"} => c \notin effective'
          /\ answer'[c] = "unknown" => request'[c].kind \in {"field", "post"}
      BY <1>0, <1>1, <1>2 DEF EffectsPlaced
    <2> QED
      BY <2>2, <2>3 DEF AnswersTruthful
  <1>19. ShownExisted'
    BY <1>0, <1>1 DEF ShownExisted
  <1> QED
    BY <1>11, <1>12, <1>13, <1>14, <1>15, <1>16, <1>17, <1>18, <1>19 DEF IInv

\* A cancellation that is heard finds nothing written.
LEMMA CancelStep ==
    ASSUME IInv, NEW c \in Call, Cancel(c)
    PROVE  IInv'
  <1> USE NoneAssumption, BoundsAssumption DEF session, world
  <1>0. TypeOK /\ LocksHeld /\ CommitMasked /\ Staged /\ EffectsPlaced
        /\ JournalSound /\ AttemptsOwned /\ AnswersTruthful /\ ShownExisted
    BY DEF IInv
  <1>1. TypeOK'
    BY <1>0 DEF Cancel, TypeOK, Entry, PcValues, Binding, Unbound
  <1>2. LocksHeld'
    BY <1>0 DEF Cancel, TypeOK, LocksHeld, Staged, Keys, Held
  <1>3. CommitMasked'
    BY <1>0 DEF Cancel, TypeOK, CommitMasked
  <1>4. Staged'
    BY <1>0 DEF Cancel, TypeOK, Staged, Authored, Snapshotting, Kind
  <1>5. EffectsPlaced'
    BY <1>0 DEF Cancel, TypeOK, EffectsPlaced, Staged
  <1>6. JournalSound'
    BY <1>0 DEF Cancel, TypeOK, JournalSound, AttemptsOwned, Staged, Unbound
  <1>7. AttemptsOwned'
    BY <1>0 DEF Cancel, TypeOK, Authored, Snapshotting, AttemptsOwned, JournalSound, CommitMasked, Staged, Binding, Unbound
  <1>8. AnswersTruthful'
    BY <1>0 DEF Cancel, TypeOK, AnswersTruthful, EffectsPlaced, JournalSound, AttemptsOwned, Staged, Authored
  <1>9. ShownExisted'
    BY <1>0 DEF Cancel, TypeOK, ShownExisted, EffectsPlaced
  <1> QED
    BY <1>1, <1>2, <1>3, <1>4, <1>5, <1>6, <1>7, <1>8, <1>9 DEF IInv

\* A call that is dropped before it commits ends its attempt, if it has one, as
\* unknown.
LEMMA DropStep ==
    ASSUME IInv, NEW c \in Call, Drop(c)
    PROVE  IInv'
  <1> USE NoneAssumption, BoundsAssumption DEF session, world
  <1>0. TypeOK /\ LocksHeld /\ CommitMasked /\ Staged /\ EffectsPlaced
        /\ JournalSound /\ AttemptsOwned /\ AnswersTruthful /\ ShownExisted
    BY DEF IInv
  <1>1. /\ pc[c] \in Suspended /\ guard[c] = "cancelled"
        /\ Return(c, "cancelled") /\ Finish(c, "unknown")
        /\ UNCHANGED <<request, guard, shown, active, world>>
    BY DEF Drop
  <1>a. pc[c] \notin {"begin", "check", "write", "publish", "idle", "done"}
    BY <1>0, <1>1 DEF CommitMasked, Suspended
  <1>2. /\ pc' \in [Call -> PcValues] /\ pc'[c] = "done"
        /\ \A d \in Call : d # c => pc'[d] = pc[d]
        /\ answer' \in [Call -> {None, "ok", "refused", "cancelled", "unknown"}]
        /\ answer'[c] = "cancelled"
        /\ \A d \in Call : d # c => answer'[d] = answer[d]
        /\ holder' \in [Resource -> Call \cup {None}]
        /\ reserving' \subseteq
             {d \in Call : pc'[d] \in {"begin", "check", "write", "publish"}}
        /\ LocksHeld'
    BY <1>0, <1>1, Returning
  <1>3. /\ journal' \in [Operation -> {Unbound} \cup Entry]
        /\ \A o \in Operation : journal[o].owner # c
        /\ \A o \in Operation : journal'[o] = journal[o]
    BY <1>0, <1>1, <1>a, Finishing DEF AttemptsOwned
  <1>11. TypeOK'
    BY <1>0, <1>1, <1>2, <1>3 DEF TypeOK
  <1>12. LocksHeld'
    BY <1>2
  <1>13. CommitMasked'
    BY <1>0, <1>1, <1>2 DEF TypeOK, CommitMasked
  <1>14. Staged'
    BY <1>0, <1>1, <1>2, <1>a DEF TypeOK, Staged
  <1>15. EffectsPlaced'
    BY <1>0, <1>1, <1>2, <1>a DEF TypeOK, EffectsPlaced
  <1>16. JournalSound'
    BY <1>0, <1>1, <1>3 DEF TypeOK, JournalSound, AttemptsOwned
  <1>17. AttemptsOwned'
    BY <1>0, <1>1, <1>2, <1>3 DEF TypeOK, AttemptsOwned, Binding
  <1>18. AnswersTruthful'
    <2>1. ASSUME NEW d \in Call, d # c
          PROVE  /\ answer'[d] = answer[d] /\ request'[d] = request[d]
                 /\ d \in effective' <=> d \in effective
                 /\ posted[request[d].op] = 1 /\ request[d].op \in Operation =>
                      posted'[request[d].op] = 1
      BY <2>1, <1>0, <1>1, <1>2
    <2>2. ASSUME NEW d \in Call, d # c
          PROVE  /\ answer'[d] = "ok" =>
                      \/ d \in effective'
                      \/ request'[d].kind = "post" /\ posted'[request'[d].op] = 1
                 /\ answer'[d] \in {"refused", "cancelled"} => d \notin effective'
                 /\ answer'[d] = "unknown" => request'[d].kind \in {"field", "post"}
      <3>1. request[d].kind = "post" /\ answer[d] = "ok" => request[d].op \in Operation
        BY <2>2, <1>0, Asked, NoneAssumption DEF Staged
      <3> QED
        BY <2>1, <2>2, <3>1, <1>0 DEF AnswersTruthful
    <2>3. /\ answer'[c] = "ok" => c \in effective'
          /\ answer'[c] \in {"refused", "cancelled"} => c \notin effective'
          /\ answer'[c] = "unknown" => request'[c].kind \in {"field", "post"}
      BY <1>0, <1>1, <1>2, <1>a DEF EffectsPlaced
    <2> QED
      BY <2>2, <2>3 DEF AnswersTruthful
  <1>19. ShownExisted'
    BY <1>0, <1>1 DEF ShownExisted
  <1> QED
    BY <1>11, <1>12, <1>13, <1>14, <1>15, <1>16, <1>17, <1>18, <1>19 DEF IInv

\* A read shows what is current.
LEMMA ReadStep ==
    ASSUME IInv, NEW r \in Resource, NEW x \in Content, Read(r, x)
    PROVE  IInv'
  <1> USE NoneAssumption, BoundsAssumption DEF session, world
  <1>0. TypeOK /\ LocksHeld /\ CommitMasked /\ Staged /\ EffectsPlaced
        /\ JournalSound /\ AttemptsOwned /\ AnswersTruthful /\ ShownExisted
    BY DEF IInv
  <1>1. TypeOK'
    BY <1>0 DEF Read, TypeOK, Entry, PcValues, Binding, Unbound
  <1>2. LocksHeld'
    BY <1>0 DEF Read, TypeOK, LocksHeld, Staged, Keys, Held
  <1>3. CommitMasked'
    BY <1>0 DEF Read, TypeOK, CommitMasked
  <1>4. Staged'
    BY <1>0 DEF Read, TypeOK, Staged, Authored, Snapshotting, Kind
  <1>5. EffectsPlaced'
    BY <1>0 DEF Read, TypeOK, EffectsPlaced, Staged
  <1>6. JournalSound'
    BY <1>0 DEF Read, TypeOK, JournalSound, AttemptsOwned, Staged, Unbound
  <1>7. AttemptsOwned'
    BY <1>0 DEF Read, TypeOK, Authored, Snapshotting, AttemptsOwned, JournalSound, CommitMasked, Staged, Binding, Unbound
  <1>8. AnswersTruthful'
    BY <1>0 DEF Read, TypeOK, AnswersTruthful, EffectsPlaced, JournalSound, AttemptsOwned, Staged, Authored
  <1>9. ShownExisted'
    BY <1>0 DEF Read, TypeOK, ShownExisted, EffectsPlaced
  <1> QED
    BY <1>1, <1>2, <1>3, <1>4, <1>5, <1>6, <1>7, <1>8, <1>9 DEF IInv

\* Another program writes beside the locks, which nothing here relies on.
LEMMA ExternalStep ==
    ASSUME IInv, NEW r \in Resource, NEW x \in Content \cup {None}, External(r, x)
    PROVE  IInv'
  <1> USE NoneAssumption, BoundsAssumption DEF session, world
  <1>0. TypeOK /\ LocksHeld /\ CommitMasked /\ Staged /\ EffectsPlaced
        /\ JournalSound /\ AttemptsOwned /\ AnswersTruthful /\ ShownExisted
    BY DEF IInv
  <1>1. TypeOK'
    BY <1>0 DEF External, Current, TypeOK, Entry, PcValues, Binding, Unbound
  <1>2. LocksHeld'
    BY <1>0 DEF External, Current, TypeOK, LocksHeld, Staged, Keys, Held
  <1>3. CommitMasked'
    BY <1>0 DEF External, Current, TypeOK, CommitMasked
  <1>4. Staged'
    BY <1>0 DEF External, Current, TypeOK, Staged, Authored, Snapshotting, Kind
  <1>5. EffectsPlaced'
    BY <1>0 DEF External, Current, TypeOK, EffectsPlaced, Staged
  <1>6. JournalSound'
    BY <1>0 DEF External, Current, TypeOK, JournalSound, AttemptsOwned, Staged, Unbound
  <1>7. AttemptsOwned'
    BY <1>0 DEF External, Current, TypeOK, Authored, Snapshotting, AttemptsOwned, JournalSound, CommitMasked, Staged, Binding, Unbound
  <1>8. AnswersTruthful'
    BY <1>0 DEF External, Current, TypeOK, AnswersTruthful, EffectsPlaced, JournalSound, AttemptsOwned, Staged, Authored
  <1>9. ShownExisted'
    BY <1>0 DEF External, Current, TypeOK, ShownExisted, EffectsPlaced
  <1> QED
    BY <1>1, <1>2, <1>3, <1>4, <1>5, <1>6, <1>7, <1>8, <1>9 DEF IInv

\* A disconnect cancels, and takes nothing back.
LEMMA DisconnectStep ==
    ASSUME IInv, Disconnect
    PROVE  IInv'
  <1> USE NoneAssumption, BoundsAssumption DEF session, world
  <1>0. TypeOK /\ LocksHeld /\ CommitMasked /\ Staged /\ EffectsPlaced
        /\ JournalSound /\ AttemptsOwned /\ AnswersTruthful /\ ShownExisted
    BY DEF IInv
  <1>1. TypeOK'
    BY <1>0 DEF Disconnect, TypeOK, Entry, PcValues, Binding, Unbound
  <1>2. LocksHeld'
    BY <1>0 DEF Disconnect, TypeOK, LocksHeld, Staged, Keys, Held
  <1>3. CommitMasked'
    BY <1>0 DEF Disconnect, TypeOK, CommitMasked
  <1>4. Staged'
    BY <1>0 DEF Disconnect, TypeOK, Staged, Authored, Snapshotting, Kind
  <1>5. EffectsPlaced'
    BY <1>0 DEF Disconnect, TypeOK, EffectsPlaced, Staged
  <1>6. JournalSound'
    BY <1>0 DEF Disconnect, TypeOK, JournalSound, AttemptsOwned, Staged, Unbound
  <1>7. AttemptsOwned'
    BY <1>0 DEF Disconnect, TypeOK, Authored, Snapshotting, AttemptsOwned, JournalSound, CommitMasked, Staged, Binding, Unbound
  <1>8. AnswersTruthful'
    BY <1>0 DEF Disconnect, TypeOK, AnswersTruthful, EffectsPlaced, JournalSound, AttemptsOwned, Staged, Authored
  <1>9. ShownExisted'
    BY <1>0 DEF Disconnect, TypeOK, ShownExisted, EffectsPlaced
  <1> QED
    BY <1>1, <1>2, <1>3, <1>4, <1>5, <1>6, <1>7, <1>8, <1>9 DEF IInv

\* At first nothing is held, written or journaled.
LEMMA EngineInit == Init => IInv
  <1> SUFFICES ASSUME Init PROVE IInv
    OBVIOUS
  <1>1. TypeOK
    <2>1. changes \in 0 .. MaxChanges
      BY BoundsAssumption DEF Init
    <2>2. had \subseteq Resource \X Content
      BY DEF Init, Current
    <2> QED
      BY <2>1, <2>2, InitialAssumption DEF Init, TypeOK, PcValues
  <1>2. LocksHeld /\ CommitMasked /\ Staged /\ EffectsPlaced
    BY NoneAssumption DEF Init, LocksHeld, CommitMasked, Staged, EffectsPlaced
  <1>3. JournalSound /\ AttemptsOwned
    BY NoneAssumption DEF Init, JournalSound, AttemptsOwned, Unbound
  <1>4. AnswersTruthful /\ ShownExisted
    BY NoneAssumption DEF Init, AnswersTruthful, ShownExisted
  <1> QED
    BY <1>1, <1>2, <1>3, <1>4 DEF IInv

\* The steps together.
LEMMA EngineStep == IInv /\ [Next]_vars => IInv'
  <1> SUFFICES ASSUME IInv, [Next]_vars PROVE IInv'
    OBVIOUS
  <1>1. ASSUME NEW c \in Call, Step(c) PROVE IInv'
    <2>1. ASSUME NEW q \in Request, Submit(c, q) PROVE IInv'
      BY <2>1, SubmitStep
    <2>2. ASSUME NEW r \in Resource, Acquire(c, r) PROVE IInv'
      BY <2>2, AcquireStep
    <2>3. CASE Work(c)
      BY <2>3, AdmitStep, LoadStep, LoadDestinationStep, ReserveStep, OwnStep,
         ReplayStep, BeginCommitStep, LoseCommitStep, CheckStep, WriteStep,
         PublishStep, RemoteWriteStep, RemoteRefuseStep, RefuseStep DEF Work
    <2>4. CASE Cancel(c)
      BY <2>4, CancelStep
    <2>5. CASE Drop(c)
      BY <2>5, DropStep
    <2> QED
      BY <1>1, <2>1, <2>2, <2>3, <2>4, <2>5 DEF Step
  <1>2. CASE Environment
    BY <1>2, ReadStep, ExternalStep, DisconnectStep DEF Environment
  <1>3. CASE UNCHANGED vars
    <2>1. TypeOK /\ LocksHeld /\ CommitMasked /\ Staged /\ EffectsPlaced
          /\ JournalSound /\ AttemptsOwned /\ AnswersTruthful /\ ShownExisted
      BY DEF IInv
    <2>2. TypeOK' /\ LocksHeld'
      BY <1>3, <2>1 DEF vars, session, world, TypeOK, LocksHeld, Keys
    <2>3. CommitMasked' /\ Staged' /\ EffectsPlaced'
      BY <1>3, <2>1 DEF vars, session, world, CommitMasked, Staged, EffectsPlaced
    <2>4. JournalSound' /\ AttemptsOwned'
      BY <1>3, <2>1 DEF vars, session, world, JournalSound, AttemptsOwned, Binding
    <2>5. AnswersTruthful' /\ ShownExisted'
      BY <1>3, <2>1 DEF vars, session, world, AnswersTruthful, ShownExisted
    <2> QED
      BY <2>2, <2>3, <2>4, <2>5 DEF IInv
  <1> QED
    BY <1>1, <1>2, <1>3 DEF Next

\* Hence the invariant.
LEMMA EngineInvariant == Spec => []IInv
  BY EngineInit, EngineStep, PTL DEF Spec

-----------------------------------------------------------------------------
(* The theorems.                                                           *)

\* Every variable keeps its shape, and no reservation outlives its call.
THEOREM EngineTypeCorrect == Spec => []TypeOK
  BY EngineInvariant, PTL DEF IInv

\* No operation id ever creates two remote objects, whatever answers are lost,
\* whichever calls are cancelled and however often it is repeated.
THEOREM AtMostOnce == Spec => []CreatedAtMostOnce
  <1>1. IInv => CreatedAtMostOnce
    BY DEF IInv, JournalSound, CreatedAtMostOnce
  <1> QED
    BY <1>1, EngineInvariant, PTL

\* "ok" means it happened, an error or a cancellation that it did not.
THEOREM Truthful == Spec => []AnswersTruthful
  BY EngineInvariant, PTL DEF IInv

\* A pending attempt is a running call that holds its target's lock, so the
\* waiting branch of begin_mutation_operation cannot be reached by a tool call.
THEOREM AttemptsRun == Spec => []PendingOwned
  <1>1. IInv => PendingOwned
    <2> SUFFICES ASSUME IInv, NEW o \in Operation, journal[o].outcome = "pending"
                 PROVE  \E c \in Call :
                          /\ journal[o].owner = c
                          /\ pc[c] \in {"begin", "write"}
                          /\ request[c].op = o
                          /\ holder[journal[o].bound.resource] = c
      BY DEF PendingOwned
    <2>1. journal[o] \in Entry /\ journal[o].owner # None
      BY NoneAssumption DEF IInv, TypeOK, JournalSound, Unbound
    <2>2. PICK c \in Call : journal[o].owner = c
      BY <2>1 DEF Entry
    <2>3. /\ pc[c] \in {"begin", "write"}
          /\ request[c].op = o
          /\ journal[o].bound.resource = request[c].resource
      <3>1. /\ pc[c] \in {"begin", "write"}
            /\ request[c].op = o
            /\ journal[o].bound = Binding(c)
        BY <2>2 DEF IInv, AttemptsOwned
      <3>2. Binding(c).resource = request[c].resource
        BY DEF Binding
      <3> QED
        BY <3>1, <3>2
    <2>4. holder[request[c].resource] = c
      BY <2>3 DEF IInv, LocksHeld, Keys
    <2> QED
      BY <2>2, <2>3, <2>4
  <1> QED
    BY <1>1, EngineInvariant, PTL

\* Two reservations are never for the same Resource.
THEOREM ReservationsApart == Spec => []ReservationsExclusive
  <1>1. IInv => ReservationsExclusive
    <2> SUFFICES ASSUME IInv, NEW c \in reserving, NEW d \in reserving,
                        NEW r \in Keys(c) \cap Keys(d)
                 PROVE  c = d
      BY DEF ReservationsExclusive
    <2>1. /\ c \in Call /\ d \in Call
          /\ pc[c] \in {"begin", "check", "write", "publish"}
          /\ pc[d] \in {"begin", "check", "write", "publish"}
      BY DEF IInv, TypeOK
    <2> QED
      BY <2>1 DEF IInv, LocksHeld
  <1> QED
    BY <1>1, EngineInvariant, PTL

\* Snapshots cover only content that was really there.
THEOREM ShownSound == Spec => []ShownExisted
  BY EngineInvariant, PTL DEF IInv

\* A step that makes a call effective is the write of that call.
LEMMA EffectOfWrite ==
    ASSUME IInv, [Next]_vars, NEW c \in effective' \ effective
    PROVE  Write(c) \/ RemoteWrite(c)
  <1>1. ASSUME NEW d \in Call, Step(d) PROVE Write(c) \/ RemoteWrite(c)
    BY <1>1 DEF Step, Work, Submit, Acquire, Admit, Load, LoadDestination,
       Reserve, Own, Replay, BeginCommit, LoseCommit, Check, Write, Publish,
       RemoteWrite, RemoteRefuse, Refuse, Cancel, Drop, world
  <1>2. CASE Environment
    BY <1>2 DEF Environment, Read, External, Disconnect, world
  <1>3. CASE UNCHANGED vars
    BY <1>3 DEF vars, world
  <1> QED
    BY <1>1, <1>2, <1>3 DEF Next

\* What a call holds ends with it, for any set of calls.
THEOREM HoldingsKept == Spec => []HoldingsSound
  <1>1. PendingOwned /\ ReservationsExclusive /\ ShownExisted => HoldingsSound
    BY DEF HoldingsSound
  <1> QED
    BY AttemptsRun, ReservationsApart, ShownSound, <1>1, PTL

\* Creations and moves never replace a file, not even one another program
\* made after the last check.
THEOREM ClobbersNothing == Spec => NeverClobbers
  <1>1. IInv /\ [Next]_vars =>
          [\A c \in effective' \ effective :
             request[c].kind \in {"create", "move"} =>
                 files[request[c].to] = None]_vars
    <2> SUFFICES ASSUME IInv, [Next]_vars, NEW c \in effective' \ effective,
                        request[c].kind \in {"create", "move"}
                 PROVE  files[request[c].to] = None
      OBVIOUS
    <2>1. CASE Write(c)
      BY <2>1 DEF Write, Writable
    <2>2. CASE RemoteWrite(c)
      BY <2>2 DEF RemoteWrite, Authored
    <2> QED
      BY <2>1, <2>2, EffectOfWrite
  <1> QED
    BY <1>1, EngineInvariant, PTL DEF Spec, NeverClobbers

\* An attempt that succeeded, or may have, is never made again.
THEOREM OutcomesAreFinal == Spec => OutcomesFinal
  <1>1. IInv /\ [Next]_vars =>
          [\A o \in Operation :
             journal[o].outcome \in {"succeeded", "unknown"} =>
                 journal'[o] = journal[o]]_vars
    <2> SUFFICES ASSUME IInv, [Next]_vars, NEW o \in Operation,
                        journal[o].outcome \in {"succeeded", "unknown"}
                 PROVE  journal'[o] = journal[o]
      OBVIOUS
    <2>1. TypeOK /\ Staged /\ AttemptsOwned /\ \A c \in Call : journal[o].owner # c
      <3>1. journal[o].owner = None
        BY DEF IInv, JournalSound
      <3> QED
        BY <3>1, NoneAssumption DEF IInv
    <2>2. ASSUME NEW c \in Call, pc[c] # "idle",
                 NEW outcome \in {"succeeded", "conclusive", "unknown"},
                 Finish(c, outcome)
          PROVE  journal'[o] = journal[o]
      BY <2>1, <2>2, Finishing
    <2>3. ASSUME NEW c \in Call, Own(c) PROVE journal'[o] = journal[o]
      <3>1. request[c].op # o
        BY <2>3 DEF Own, MayOwn
      <3> QED
        BY <2>1, <2>3, <3>1 DEF Own, TypeOK
    <2>4. ASSUME NEW c \in Call, Step(c) PROVE journal'[o] = journal[o]
      BY <2>2, <2>3, <2>4 DEF Step, Work, Submit, Acquire, Admit, Load,
         LoadDestination, Reserve, Replay, BeginCommit, LoseCommit, Check,
         Write, Publish, RemoteWrite, RemoteRefuse, Refuse, Cancel, Drop,
         Suspended, session
    <2>5. CASE Environment
      BY <2>5 DEF Environment, Read, External, Disconnect, session
    <2>6. CASE UNCHANGED vars
      BY <2>6 DEF vars, session
    <2> QED
      BY <2>4, <2>5, <2>6 DEF Next
  <1> QED
    BY <1>1, EngineInvariant, PTL DEF Spec, OutcomesFinal

-----------------------------------------------------------------------------
(* The engine implements its contract.                                     *)

\* What two calls have locked is apart.
LEMMA KeysApart ==
    ASSUME IInv, NEW c \in Call, NEW d \in Call, c # d,
           pc[c] \in {"check", "write"}, pc[d] \in {"check", "write"}
    PROVE  Keys(c) \cap Keys(d) = {}
  BY DEF IInv, LocksHeld

\* A remote call that is not a creation changes one field.
LEMMA KindAtWrite ==
    ASSUME IInv, NEW c \in Call, pc[c] \in {"check", "write"}
    PROVE  /\ request[c] \in Request
           /\ request[c].kind \in Authored \cup {"field", "post"}
           /\ request[c].resource \in Resource /\ request[c].to \in Resource
           /\ c \notin effective /\ answer[c] = None
  <1>1. TypeOK /\ Staged /\ EffectsPlaced
    BY DEF IInv
  <1>2. request[c] \in Request /\ request[c].kind \in Kind
        /\ request[c].resource \in Resource /\ request[c].to \in Resource
    BY <1>1, Asked
  <1> QED
    BY <1>1, <1>2 DEF Staged, EffectsPlaced, Kind, Authored

\* A write touches the keys of its call only.
LEMMA WrittenApart ==
    ASSUME IInv, NEW c \in Call, pc[c] = "write", request[c].kind # "post",
           NEW r \in Resource \ Keys(c)
    PROVE  Written(c)[r] = files[r]
  <1>1. /\ request[c].kind \in Authored \cup {"field"}
        /\ request[c].resource \in Resource /\ request[c].to \in Resource
    BY KindAtWrite
  <1>2. r # request[c].resource /\ r # request[c].to
    BY DEF Keys
  <1>3. files \in [Resource -> Content \cup {None}]
    BY DEF IInv, TypeOK
  <1>4. CASE request[c].kind \in Snapshotting \cup {"field"}
    BY <1>2, <1>3, <1>4 DEF Written
  <1>5. CASE request[c].kind = "remove"
    BY <1>2, <1>3, <1>5 DEF Written, Snapshotting
  <1>6. CASE request[c].kind = "move"
    BY <1>2, <1>3, <1>6 DEF Written, Snapshotting
  <1> QED
    BY <1>1, <1>4, <1>5, <1>6 DEF Authored, Snapshotting

\* The window stays clean while the keys of the calls in it are left alone.
LEMMA WindowLeft ==
    ASSUME IInv, WindowClean, disturbed' = disturbed, request' = request,
           \A c \in Call : pc'[c] = "write" /\ request[c].kind # "post" =>
               /\ pc[c] = "write"
               /\ \A r \in Keys(c) : files'[r] = files[r]
    PROVE  WindowClean'
  <1> SUFFICES ASSUME ~disturbed, NEW c \in Call, pc'[c] = "write",
                      request[c].kind # "post"
               PROVE  /\ Matches(c)'
                      /\ request[c].kind = "move" => files'[request[c].to] = None
    BY DEF WindowClean
  <1>1. /\ pc[c] = "write"
        /\ files'[request[c].resource] = files[request[c].resource]
        /\ files'[request[c].to] = files[request[c].to]
    BY DEF Keys
  <1> QED
    BY <1>1 DEF WindowClean, Matches

\* The check opens it on what was compared; only other programs soil it.
LEMMA WindowStep == IInv /\ WindowClean /\ [Next]_vars => WindowClean'
  <1> SUFFICES ASSUME IInv, WindowClean, [Next]_vars PROVE WindowClean'
    OBVIOUS
  <1>0. TypeOK /\ Staged
    BY DEF IInv
  <1>1. ASSUME NEW c \in Call, Check(c) PROVE WindowClean'
    <2> SUFFICES ASSUME ~disturbed', NEW d \in Call, pc'[d] = "write",
                        request'[d].kind # "post"
                 PROVE  /\ Matches(d)'
                        /\ request'[d].kind = "move" => files'[request'[d].to] = None
      BY DEF WindowClean
    <2>1. request' = request /\ files' = files /\ ~disturbed
      BY <1>1 DEF Check, world
    <2>2. Matches(d) /\ (request[d].kind = "move" => files[request[d].to] = None)
      <3>1. CASE d = c
        BY <1>1, <3>1 DEF Check
      <3>2. CASE d # c
        BY <1>0, <1>1, <2>1, <3>2 DEF Check, WindowClean, TypeOK
      <3> QED
        BY <3>1, <3>2
    <2> QED
      BY <2>1, <2>2 DEF Matches
  <1>2. ASSUME NEW c \in Call, NEW q \in Request, Submit(c, q)
        PROVE  WindowClean'
    <2> SUFFICES ASSUME ~disturbed', NEW d \in Call, pc'[d] = "write",
                        request'[d].kind # "post"
                 PROVE  /\ Matches(d)'
                        /\ request'[d].kind = "move" => files'[request'[d].to] = None
      BY DEF WindowClean
    <2>1. d # c /\ request'[d] = request[d] /\ pc[d] = "write"
          /\ files' = files /\ ~disturbed
      BY <1>0, <1>2 DEF Submit, TypeOK, world
    <2> QED
      BY <2>1 DEF WindowClean, Matches
  <1>3. ASSUME NEW c \in Call, Write(c) \/ RemoteWrite(c) PROVE WindowClean'
    <2>1. /\ pc[c] = "write" /\ request' = request /\ disturbed' = disturbed
          /\ pc' = [pc EXCEPT ![c] = "publish"] \/ pc' = [pc EXCEPT ![c] = "done"]
          /\ request[c].kind # "post" => files' = Written(c)
          /\ request[c].kind = "post" => files' = files
      BY <1>3 DEF Write, RemoteWrite, Sent, Return, Authored
    <2>2. ASSUME NEW d \in Call, pc'[d] = "write", request[d].kind # "post"
          PROVE  /\ pc[d] = "write"
                 /\ \A r \in Keys(d) : files'[r] = files[r]
      <3>1. d # c /\ pc[d] = "write"
        BY <2>1, <2>2, <1>0 DEF TypeOK
      <3>2. Keys(d) \cap Keys(c) = {} /\ Keys(d) \subseteq Resource
        BY <2>1, <3>1, KeysApart, KindAtWrite DEF Keys
      <3> QED
        BY <2>1, <3>1, <3>2, WrittenApart
    <2> QED
      BY <2>1, <2>2, WindowLeft
  <1>4. ASSUME NEW r \in Resource, NEW x \in Content \cup {None}, External(r, x)
        PROVE  WindowClean'
    <2>1. CASE disturbed'
      BY <2>1 DEF WindowClean
    <2>2. CASE ~disturbed'
      <3>1. /\ request' = request /\ pc' = pc
            /\ files' = [files EXCEPT ![r] = x]
            /\ disturbed' = (disturbed \/ \E c \in Call : pc[c] = "write" /\ r \in Keys(c))
        BY <1>4 DEF External
      <3>2. disturbed' = disturbed
            /\ \A c \in Call : pc[c] = "write" => r \notin Keys(c)
        BY <2>2, <3>1, <1>0 DEF TypeOK
      <3>3. ASSUME NEW c \in Call, pc[c] = "write", NEW k \in Keys(c)
            PROVE  files'[k] = files[k]
        BY <3>1, <3>2, <3>3, <1>0, KindAtWrite DEF Keys, TypeOK
      <3> QED
        BY <3>1, <3>2, <3>3, WindowLeft
    <2> QED
      BY <2>1, <2>2
  <1>5. ASSUME request' = request, files' = files, disturbed' = disturbed,
               \A c \in Call : pc'[c] = "write" /\ request[c].kind # "post" =>
                   pc[c] = "write"
        PROVE  WindowClean'
    BY <1>5, WindowLeft
  <1>6. ASSUME NEW c \in Call,
               \/ \E r \in Resource : Acquire(c, r)
               \/ Admit(c) \/ Load(c) \/ LoadDestination(c) \/ Reserve(c)
               \/ Own(c) \/ Replay(c) \/ BeginCommit(c) \/ LoseCommit(c)
               \/ Publish(c) \/ RemoteRefuse(c) \/ Refuse(c) \/ Cancel(c)
               \/ Drop(c)
        PROVE  WindowClean'
    <2>1. /\ request' = request /\ files' = files /\ disturbed' = disturbed
          /\ \/ pc' = pc
             \/ \E s \in PcValues \ {"write"} : pc' = [pc EXCEPT ![c] = s]
             \/ /\ request[c].kind = "post"
                /\ pc' = [pc EXCEPT ![c] = "write"]
      <3>1. CASE \E r \in Resource : Acquire(c, r)
        BY <3>1 DEF Acquire, PcValues, world
      <3>2. CASE Admit(c)
        <4>1. request[c].kind \in Kind
          BY <3>2, <1>0, Asked DEF Admit
        <4> QED
          BY <3>2, <4>1 DEF Admit, PcValues, Kind, Authored, world
      <3>3. CASE Load(c)
        <4>1. request[c].kind \in Authored
          BY <3>3, <1>0 DEF Load, Staged
        <4> QED
          BY <3>3, <4>1 DEF Load, PcValues, Authored, Snapshotting, world
      <3>4. CASE LoadDestination(c) \/ Reserve(c) \/ Own(c)
        BY <3>4 DEF LoadDestination, Reserve, Own, PcValues, world
      <3>5. CASE BeginCommit(c)
        BY <3>5 DEF BeginCommit, PcValues, world
      <3>6. CASE Replay(c) \/ LoseCommit(c) \/ Publish(c) \/ RemoteRefuse(c)
                 \/ Refuse(c) \/ Drop(c)
        BY <3>6 DEF Replay, LoseCommit, Publish, RemoteRefuse, Refuse, Drop,
           Return, PcValues, world
      <3>7. CASE Cancel(c)
        BY <3>7 DEF Cancel, world
      <3> QED
        BY <1>6, <3>1, <3>2, <3>3, <3>4, <3>5, <3>6, <3>7
    <2> QED
      BY <1>0, <1>5, <2>1 DEF TypeOK, PcValues
  <1>7. CASE \/ \E r \in Resource, x \in Content : Read(r, x)
             \/ Disconnect \/ UNCHANGED vars
    BY <1>5, <1>7 DEF Read, Disconnect, vars, world
  <1>8. ASSUME NEW c \in Call, Step(c) PROVE WindowClean'
    BY <1>1, <1>2, <1>3, <1>6, <1>8 DEF Step, Work
  <1>9. CASE Environment
    BY <1>4, <1>7, <1>9 DEF Environment
  <1> QED
    BY <1>7, <1>8, <1>9 DEF Next

\* A write inside a clean window is the contract's compare-and-write.
LEMMA ApplyStep ==
    ASSUME IInv, WindowClean, ~disturbed, NEW c \in Call, pc[c] = "write",
           Write(c) \/ RemoteWrite(c)
    PROVE  Contract!Apply(c)
  <1>0. TypeOK /\ Staged /\ JournalSound /\ AttemptsOwned
    BY DEF IInv
  <1>1. /\ request[c] \in Request /\ request[c] # None
        /\ request[c].kind \in Authored \cup {"field", "post"}
        /\ request[c].kind = "post" => request[c].op \in Operation
        /\ request[c].resource \in Resource /\ request[c].to \in Resource
        /\ c \notin effective /\ answer[c] = None
    BY <1>0, KindAtWrite, Asked, NoneAssumption
  <1>2. request' = request /\ effective' = effective \cup {c}
    BY DEF Write, RemoteWrite
  <1>3. request[c].kind = "post" => posted[request[c].op] = 0
    <2> SUFFICES ASSUME request[c].kind = "post"
                 PROVE  posted[request[c].op] = 0
      OBVIOUS
    <2>1. request[c].op \in Operation /\ journal[request[c].op].owner = c
      BY <1>0, <1>1 DEF AttemptsOwned
    <2>2. journal[request[c].op].outcome = "pending"
      BY <1>0, <2>1, NoneAssumption DEF JournalSound
    <2> QED
      BY <1>0, <2>1, <2>2 DEF JournalSound
  <1>4. request[c].kind # "post" =>
          /\ Matches(c)
          /\ request[c].kind = "move" => files[request[c].to] = None
    BY DEF WindowClean
  <1>5. Contract!Expected(request[c])
    <2>1. CASE request[c].kind = "create"
      BY <1>4, <2>1 DEF Contract!Expected, Matches
    <2>2. CASE request[c].kind = "move"
      BY <1>4, <2>2 DEF Contract!Expected, Matches
    <2>3. CASE request[c].kind \in {"replace", "edit", "remove", "field"}
      BY <1>4, <2>3 DEF Contract!Expected, Matches
    <2>4. CASE request[c].kind = "post"
      BY <1>3, <2>4 DEF Contract!Expected
    <2> QED
      BY <1>1, <2>1, <2>2, <2>3, <2>4 DEF Authored
  <1>6. files' = Contract!Changed(request[c])
    <2>1. request[c].kind # "post" => files' = Written(c)
      BY <1>1 DEF Write, RemoteWrite, Sent, Authored
    <2>2. request[c].kind = "post" => files' = files
      BY <1>1 DEF Write, RemoteWrite, Sent, Authored
    <2>3. CASE request[c].kind \in Snapshotting \cup {"field"}
      BY <2>1, <2>3 DEF Contract!Changed, Written, Snapshotting
    <2>4. CASE request[c].kind = "remove"
      BY <2>1, <2>4 DEF Contract!Changed, Written, Snapshotting
    <2>5. CASE request[c].kind = "move"
      <3>1. files[request[c].resource] = request[c].base
        BY <1>4, <2>5 DEF Matches
      <3> QED
        BY <2>1, <2>5, <3>1 DEF Contract!Changed, Written, Snapshotting
    <2>6. CASE request[c].kind = "post"
      BY <2>2, <2>6 DEF Contract!Changed
    <2> QED
      BY <1>1, <2>3, <2>4, <2>5, <2>6 DEF Authored, Snapshotting
  <1>7. posted' = [o \in Operation |->
                     IF request[c].kind = "post" /\ request[c].op = o
                     THEN 1 ELSE posted[o]]
    <2>1. posted \in [Operation -> Nat]
      BY <1>0 DEF TypeOK
    <2>2. CASE request[c].kind = "post"
      <3>1. posted' = [posted EXCEPT ![request[c].op] = @ + 1]
        BY <2>2 DEF Write, RemoteWrite, Sent, Authored
      <3>2. posted[request[c].op] + 1 = 1
        BY <2>2, <1>3
      <3> QED
        BY <1>1, <2>1, <2>2, <3>1, <3>2
    <2>3. CASE request[c].kind # "post"
      <3>1. posted' = posted
        BY <2>3 DEF Write, RemoteWrite, Sent
      <3> QED
        BY <2>1, <2>3, <3>1
    <2> QED
      BY <2>2, <2>3
  <1>8. \E a \in {None, "ok", "unknown"} :
          /\ a = "unknown" => request[c].kind \in {"field", "post"}
          /\ answer' = [answer EXCEPT ![c] = a]
    <2>1. answer \in [Call -> {None, "ok", "refused", "cancelled", "unknown"}]
      BY <1>0 DEF TypeOK
    <2>2. CASE Write(c)
      <3>1. answer' = [answer EXCEPT ![c] = None]
        BY <1>1, <2>1, <2>2 DEF Write
      <3>2. WITNESS None \in {None, "ok", "unknown"}
      <3> QED
        BY <3>1, NoneAssumption
    <2>3. CASE RemoteWrite(c)
      BY <1>1, <2>3 DEF RemoteWrite, Return
    <2> QED
      BY <2>2, <2>3
  <1> QED
    BY <1>1, <1>2, <1>5, <1>6, <1>7, <1>8 DEF Contract!Apply

\* Every other way to return is an answer the contract lets a call give.
LEMMA TellStep ==
    ASSUME IInv, NEW c \in Call,
           NEW what \in {"ok", "refused", "cancelled", "unknown"},
           Return(c, what), pc[c] \notin {"idle", "done"},
           what = "ok" => \/ c \in effective
                          \/ request[c].kind = "post" /\ posted[request[c].op] = 1,
           what \in {"refused", "cancelled"} => c \notin effective,
           what = "unknown" => request[c].kind \in {"field", "post"},
           UNCHANGED <<request, files, posted, effective>>
    PROVE  Contract!Tell(c, what)
  BY DEF IInv, Staged, Return, Contract!Tell

\* Every step of the engine is a step of the contract, or none, unless another
\* program has written inside a window.
LEMMA ContractStep ==
    IInv /\ WindowClean /\ [Next]_vars =>
        [~disturbed' => Contract!Next]_(Contract!vars)
  <1> SUFFICES ASSUME IInv, WindowClean, [Next]_vars, ~disturbed'
               PROVE  Contract!Next \/ UNCHANGED Contract!vars
    OBVIOUS
  <1>0. TypeOK /\ CommitMasked /\ Staged /\ EffectsPlaced /\ JournalSound
        /\ AttemptsOwned
    BY DEF IInv
  <1> DEFINE Kept == UNCHANGED <<request, files, posted, effective>>
  <1>1. ASSUME NEW c \in Call, NEW q \in Request, Submit(c, q)
        PROVE  Contract!Next
    <2>1. Contract!Ask(c, q)
      BY <1>0, <1>1 DEF Submit, Staged, world, Contract!Ask
    <2> QED
      BY <2>1 DEF Contract!Next
  <1>2. ASSUME NEW c \in Call, Write(c) \/ RemoteWrite(c) PROVE Contract!Next
    <2>1. pc[c] = "write" /\ disturbed' = disturbed
      BY <1>2 DEF Write, RemoteWrite
    <2>2. Contract!Apply(c)
      BY <1>2, <2>1, ApplyStep
    <2> QED
      BY <2>2 DEF Contract!Next
  <1>3. ASSUME NEW c \in Call,
               NEW what \in {"ok", "refused", "cancelled", "unknown"},
               Contract!Tell(c, what)
        PROVE  Contract!Next
    BY <1>3 DEF Contract!Next
  <1>4. ASSUME NEW c \in Call, Publish(c) PROVE Contract!Next
    <2>1. pc[c] = "publish" /\ Return(c, "ok") /\ Kept
      BY <1>4 DEF Publish, world
    <2>2. c \in effective
      BY <1>0, <2>1 DEF EffectsPlaced
    <2> QED
      BY <1>3, <2>1, <2>2, TellStep
  <1>5. ASSUME NEW c \in Call, Replay(c) PROVE Contract!Next
    <2>1. pc[c] = "journal" /\ Kept
          /\ \/ journal[request[c].op].outcome = "succeeded" /\ Return(c, "ok")
             \/ Return(c, "unknown")
      BY <1>5 DEF Replay, world
    <2>2. request[c].kind = "post" /\ request[c].op \in Operation
      BY <1>0, <2>1, Asked DEF Staged
    <2>3. journal[request[c].op].outcome = "succeeded" =>
            posted[request[c].op] = 1
      BY <1>0, <2>2 DEF JournalSound
    <2> QED
      BY <1>3, <2>1, <2>2, <2>3, TellStep
  <1>6. ASSUME NEW c \in Call, LoseCommit(c) \/ Drop(c) PROVE Contract!Next
    <2>1. /\ pc[c] \in Suspended \cup {"begin"} /\ guard[c] = "cancelled"
          /\ Return(c, "cancelled") /\ Kept
      BY <1>6 DEF LoseCommit, Drop, world
    <2>2. pc[c] \notin {"idle", "done", "publish"}
      BY <1>0, <2>1 DEF CommitMasked, Suspended
    <2>3. c \notin effective
      BY <1>0, <2>2 DEF EffectsPlaced
    <2> QED
      BY <1>3, <2>1, <2>2, <2>3, TellStep
  <1>7. ASSUME NEW c \in Call, RemoteRefuse(c) \/ Refuse(c) PROVE Contract!Next
    <2>1. /\ pc[c] \in {"locked", "load", "destination", "reserve", "journal",
                        "check", "write"}
          /\ \/ Return(c, "refused")
             \/ /\ pc[c] = "write" /\ request[c].kind \notin Authored
                /\ Return(c, "unknown")
          /\ Kept
      BY <1>7 DEF RemoteRefuse, Refuse, world
    <2>2. c \notin effective
      BY <1>0, <2>1 DEF EffectsPlaced
    <2>3. pc[c] = "write" /\ request[c].kind \notin Authored =>
            request[c].kind \in {"field", "post"}
      BY KindAtWrite
    <2> QED
      BY <1>3, <2>1, <2>2, <2>3, TellStep
  <1>8. ASSUME NEW r \in Resource, NEW x \in Content \cup {None}, External(r, x)
        PROVE  Contract!Next
    <2>1. Contract!Disturb(r, x)
      BY <1>8 DEF External, Contract!Disturb
    <2> QED
      BY <2>1 DEF Contract!Next
  <1>9. ASSUME NEW c \in Call,
               \/ \E r \in Resource : Acquire(c, r)
               \/ Admit(c) \/ Load(c) \/ LoadDestination(c) \/ Reserve(c)
               \/ Own(c) \/ BeginCommit(c) \/ Check(c) \/ Cancel(c)
        PROVE  UNCHANGED Contract!vars
    BY <1>9 DEF Acquire, Admit, Load, LoadDestination, Reserve, Own, BeginCommit,
       Check, Cancel, world, Contract!vars
  <1>10. CASE \/ \E r \in Resource, x \in Content : Read(r, x)
              \/ Disconnect \/ UNCHANGED vars
    BY <1>10 DEF Read, Disconnect, vars, world, Contract!vars
  <1>11. ASSUME NEW c \in Call, Step(c)
         PROVE  Contract!Next \/ UNCHANGED Contract!vars
    BY <1>1, <1>2, <1>4, <1>5, <1>6, <1>7, <1>9, <1>11 DEF Step, Work
  <1>12. CASE Environment
    BY <1>8, <1>10, <1>12 DEF Environment
  <1> QED
    BY <1>10, <1>11, <1>12 DEF Next

\* For any calls, requests and other programs: until one of those writes between
\* an adapter's check and its write, every call compares and writes at once or
\* changes nothing, and is told which.
THEOREM EngineImplements == Spec => ImplementsContract
  <1>1. Init => WindowClean
    BY DEF Init, WindowClean
  <1>2. Init => Contract!Init
    BY DEF Init, Contract!Init
  <1>3. Spec => []WindowClean
    BY <1>1, WindowStep, EngineInvariant, PTL DEF Spec
  <1> QED
    BY <1>2, <1>3, ContractStep, EngineInvariant, PTL DEF Spec, ImplementsContract
=============================================================================
