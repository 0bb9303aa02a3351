--------------------------- MODULE MutationEngine ---------------------------
(***************************************************************************)
(* Mutating tool calls: crates/resourcefs-core/src/mutation.rs over the    *)
(* filesystem adapter (resourcefs-sources/src/filesystem_mutation.rs) and  *)
(* the GitHub adapter (resourcefs-sources/src/github/mutation.rs).         *)
(*                                                                         *)
(* A call resolves its targets, takes one lock per target in key order,    *)
(* validates against the current state, reserves the snapshot of what it   *)
(* will have written, wins or loses its OperationGuard against             *)
(* cancellation, lets the adapter validate once more and commit, and       *)
(* publishes the snapshot.  Other programs write the same files at any     *)
(* moment; the client may cancel; the session may end.                     *)
(*                                                                         *)
(* Kinds of call: create and replace (rfs_write of an authored text),      *)
(* edit, remove and move (rfs_edit), field (rfs_write of an existing       *)
(* remote field) and post (rfs_write of a remote Creation Target under an  *)
(* operation id).  A content stands for its Version Tag too.  What a       *)
(* read shows is recorded whole: the lines of a snapshot are in            *)
(* PathSession.  Quotas and I/O may refuse a call at any step before its   *)
(* effect, so a refusal needs no reason here.                              *)
(***************************************************************************)
EXTENDS Naturals, FiniteSets

CONSTANTS
    Call,            \* tool calls
    Resource,        \* mutation lock keys, ordered as sort_unstable orders them
    Content,         \* contents a Resource can hold
    Operation,       \* operation ids
    Request,         \* what calls may ask
    InitialFiles,    \* what the Resources hold at first
    MaxChanges,      \* bound on writes by other programs
    DebugAssertions, \* whether the build evaluates debug_assert!
    None             \* no call, no request, no answer, a missing file

Kind == {"create", "replace", "edit", "remove", "move", "field", "post"}

ASSUME ResourceAssumption == Resource \subseteq Nat

ASSUME NoneAssumption ==
    /\ None \notin Call /\ None \notin Content /\ None \notin Operation
    /\ None \notin Request
    /\ None \notin {"ok", "refused", "cancelled", "unknown"}

ASSUME RequestAssumption ==
    Request \subseteq [kind : Kind, resource : Resource, to : Resource,
                       base : Content \cup {None}, content : Content \cup {None},
                       op : Operation \cup {None}]

ASSUME RequestShapes ==
    \A q \in Request :
        /\ q.kind \in {"create", "replace", "edit", "field", "post"} =>
             q.content \in Content
        /\ q.kind \in {"replace", "edit", "remove", "move", "field"} =>
             q.base \in Content
        /\ q.kind = "post" => q.op \in Operation
        /\ q.kind # "move" => q.to = q.resource

ASSUME InitialAssumption == InitialFiles \in [Resource -> Content \cup {None}]

ASSUME BoundsAssumption ==
    MaxChanges \in Nat /\ DebugAssertions \in BOOLEAN

VARIABLES
    request,   \* call -> what it asks
    pc,        \* call -> its next step
    guard,     \* call -> its OperationGuard
    holder,    \* lock key -> the call that holds it
    reserving, \* calls that hold a seen reservation
    shown,     \* <<resource, content>> pairs a snapshot covers
    active,    \* the Path Session is live
    journal,   \* operation id -> its entry, once bound
    files,     \* resource -> content, or None when it does not exist
    posted,    \* operation id -> the objects the remote created for it
    answer,    \* call -> what its caller was told
    effective, \* history: calls whose change took place
    had,       \* history: <<resource, content>> pairs that were current once
    changes,   \* writes by other programs so far
    disturbed  \* history: one of them fell between an adapter's check and its write

session == <<shown, active, journal>>
world == <<files, posted, effective, had, changes, disturbed>>

vars == <<request, pc, guard, holder, reserving, session, answer, world>>

Authored == {"create", "replace", "edit", "remove", "move"}
Snapshotting == {"create", "replace", "edit"}

\* The keys of the lock set: sorted and without duplicates.
Keys(c) == {request[c].resource, request[c].to}

Held(c) == {r \in Resource : holder[r] = c}

\* Content matches what the call was written against.
Matches(c) ==
    LET q == request[c] IN
    IF q.kind = "create" THEN files[q.resource] = None
    ELSE files[q.resource] = q.base

\* The contents a map of files shows.
Current(f) == {p \in Resource \X Content : f[p[1]] = p[2]}

-----------------------------------------------------------------------------
(* The steps a call has to end with.                                       *)

\* The call returns: its guards drop, so does a reservation it still has.
Return(c, what) ==
    /\ pc' = [pc EXCEPT ![c] = "done"]
    /\ answer' = [answer EXCEPT ![c] = what]
    /\ holder' = [r \in Resource |-> IF holder[r] = c THEN None ELSE holder[r]]
    /\ reserving' = reserving \ {c}

\* The lease's outcome, when the call owns an attempt.
Finish(c, outcome) ==
    LET o == request[c].op IN
    journal' = IF o # None /\ journal[o].owner = c
               THEN [journal EXCEPT ![o].outcome = outcome, ![o].owner = None]
               ELSE journal

\* debug_assert!(operation.finish_commit()): only some builds take the step.
Finished(c) ==
    guard' = [guard EXCEPT ![c] =
                IF DebugAssertions /\ @ = "committing" THEN "complete" ELSE @]

-----------------------------------------------------------------------------
(* From submission to validation.                                          *)

Submit(c, q) ==
    /\ pc[c] = "idle"
    /\ request' = [request EXCEPT ![c] = q]
    /\ pc' = [pc EXCEPT ![c] = "locking"]
    /\ UNCHANGED <<guard, holder, reserving, session, answer, world>>

\* Mutant: the set is locked in the order it was given.
IsNextAsGiven(c, r) ==
    request[c].resource \in Held(c) \/ r = request[c].resource

\* MutationLocks::acquire sorts the keys.
IsNext(c, r) == \A k \in Keys(c) \ Held(c) : r <= k

\* It awaits them one after another (MutationLocks has the registry).
Acquire(c, r) ==
    /\ pc[c] = "locking"
    /\ r \in Keys(c) \ Held(c)
    /\ IsNext(c, r)
    /\ holder[r] = None
    /\ holder' = [holder EXCEPT ![r] = c]
    /\ pc' = IF Keys(c) \ Held(c) = {r} THEN [pc EXCEPT ![c] = "locked"]
             ELSE pc
    /\ UNCHANGED <<request, guard, reserving, session, answer, world>>

\* What the patch was written against was shown to the caller.
WasShown(c) == active /\ <<request[c].resource, request[c].base>> \in shown

\* The locks are held: a write asks whether it was cancelled, a patch resolves
\* its snapshot (resolve_seen).
Admit(c) ==
    LET kind == request[c].kind IN
    /\ pc[c] = "locked"
    /\ IF kind \in {"edit", "remove", "move"} THEN WasShown(c)
       ELSE guard[c] # "cancelled"
    /\ pc' = [pc EXCEPT ![c] = CASE kind = "post" -> "journal"
                                 [] kind = "field" -> "begin"
                                 [] kind \in Authored -> "load"]
    /\ UNCHANGED <<request, guard, holder, reserving, session, answer, world>>

\* adapter.load of the target, and the comparison with it.
Load(c) ==
    LET kind == request[c].kind IN
    /\ pc[c] = "load"
    /\ guard[c] # "cancelled"
    /\ Matches(c)
    /\ pc' = [pc EXCEPT ![c] = CASE kind \in Snapshotting -> "reserve"
                                 [] kind = "move" -> "destination"
                                 [] kind = "remove" -> "begin"]
    /\ UNCHANGED <<request, guard, holder, reserving, session, answer, world>>

\* adapter.load of a move's destination, which must be missing.
LoadDestination(c) ==
    /\ pc[c] = "destination"
    /\ guard[c] # "cancelled"
    /\ files[request[c].to] = None
    /\ pc' = [pc EXCEPT ![c] = "begin"]
    /\ UNCHANGED <<request, guard, holder, reserving, session, answer, world>>

\* Room for the snapshot of what will have been written.
Reserve(c) ==
    /\ pc[c] = "reserve"
    /\ active
    /\ reserving' = reserving \cup {c}
    /\ pc' = [pc EXCEPT ![c] = "begin"]
    /\ UNCHANGED <<request, guard, holder, session, answer, world>>

-----------------------------------------------------------------------------
(* The journal of Creation Targets: begin_mutation_operation.              *)

Binding(c) == [resource |-> request[c].resource, content |-> request[c].content]

\* Mutant: an unknown outcome may be tried again, as a conclusive one may.
MayOwnUnknown(c) ==
    LET entry == journal[request[c].op] IN
    \/ entry.outcome = "unbound"
    \/ entry.bound = Binding(c) /\ entry.outcome \in {"conclusive", "unknown"}

\* A new operation id, or the repeat of one that conclusively created nothing.
MayOwn(c) ==
    LET entry == journal[request[c].op] IN
    \/ entry.outcome = "unbound"
    \/ entry.bound = Binding(c) /\ entry.outcome = "conclusive"

Own(c) ==
    /\ pc[c] = "journal"
    /\ active
    /\ MayOwn(c)
    /\ journal' = [journal EXCEPT ![request[c].op] =
                     [bound |-> Binding(c), outcome |-> "pending", owner |-> c]]
    /\ pc' = [pc EXCEPT ![c] = "begin"]
    /\ UNCHANGED <<request, guard, holder, reserving, shown, active, answer,
                   world>>

\* An identical repeat is answered from the entry.  The waiting branch for a
\* pending attempt has no action: its owner holds the lock this call holds.
Replay(c) ==
    LET entry == journal[request[c].op] IN
    /\ pc[c] = "journal"
    /\ active
    /\ entry.bound = Binding(c)
    /\ \/ entry.outcome = "succeeded" /\ Return(c, "ok")
       \/ entry.outcome = "unknown" /\ Return(c, "unknown")
    /\ UNCHANGED <<request, guard, session, world>>

-----------------------------------------------------------------------------
(* Commit ownership, and the adapter's commit.                             *)

BeginCommit(c) ==
    /\ pc[c] = "begin"
    /\ guard[c] = "active"
    /\ guard' = [guard EXCEPT ![c] = "committing"]
    /\ pc' = [pc EXCEPT ![c] = IF request[c].kind = "post" THEN "write"
                               ELSE "check"]
    /\ UNCHANGED <<request, holder, reserving, session, answer, world>>

\* Mutant: the journal attempt is not ended.
LoseCommitForgets(c) ==
    /\ pc[c] = "begin"
    /\ guard[c] = "cancelled"
    /\ Return(c, "cancelled")
    /\ UNCHANGED <<request, guard, session, world>>

\* begin_commit lost against cancellation: the reservation is cancelled and
\* the journal attempt ends conclusively.
LoseCommit(c) ==
    /\ pc[c] = "begin"
    /\ guard[c] = "cancelled"
    /\ Return(c, "cancelled")
    /\ Finish(c, "conclusive")
    /\ UNCHANGED <<request, guard, shown, active, world>>

\* Mutant: the adapter relies on the comparison made when it loaded.
CheckNothing(c) ==
    /\ pc[c] = "check"
    /\ pc' = [pc EXCEPT ![c] = "write"]
    /\ UNCHANGED <<request, guard, holder, reserving, session, answer, world>>

\* The adapter compares the current state again, immediately before it writes.
Check(c) ==
    /\ pc[c] = "check"
    /\ Matches(c)
    /\ request[c].kind = "move" => files[request[c].to] = None
    /\ pc' = [pc EXCEPT ![c] = "write"]
    /\ UNCHANGED <<request, guard, holder, reserving, session, answer, world>>

\* Mutant: the rename replaces whatever has appeared since the check.
WritableOverwrites(c) ==
    request[c].kind \in {"remove", "move"} => files[request[c].resource] # None

\* What the file system lets the final call do: a rename with NOREPLACE for
\* a new name, an unconditional one for a replacement, an unlink.
Writable(c) ==
    LET q == request[c] IN
    /\ q.kind \in {"create", "move"} => files[q.to] = None
    /\ q.kind \in {"remove", "move"} => files[q.resource] # None

Written(c) ==
    LET q == request[c] IN
    CASE q.kind \in Snapshotting \cup {"field"} ->
           [files EXCEPT ![q.resource] = q.content]
      [] q.kind = "remove" -> [files EXCEPT ![q.resource] = None]
      [] q.kind = "move" ->
           [files EXCEPT ![q.to] = files[q.resource], ![q.resource] = None]

Write(c) ==
    /\ pc[c] = "write"
    /\ request[c].kind \in Authored
    /\ Writable(c)
    /\ files' = Written(c)
    /\ effective' = effective \cup {c}
    /\ had' = had \cup Current(files')
    /\ Finished(c)
    /\ pc' = [pc EXCEPT ![c] = "publish"]
    /\ UNCHANGED <<request, holder, reserving, session, answer, posted,
                   changes, disturbed>>

\* publish_seen, then the receipt.
Publish(c) ==
    /\ pc[c] = "publish"
    /\ shown' = IF request[c].kind \in Snapshotting
                THEN shown \cup {<<request[c].resource, request[c].content>>}
                ELSE shown
    /\ Return(c, "ok")
    /\ UNCHANGED <<request, guard, active, journal, world>>

\* Mutant: the transmission is retried once when its outcome is unknown.
SentRetried(c) ==
    IF request[c].kind = "post"
    THEN posted' = [posted EXCEPT ![request[c].op] = @ + 2] /\ UNCHANGED files
    ELSE files' = Written(c) /\ UNCHANGED posted

\* The remote carries the request out.
Sent(c) ==
    IF request[c].kind = "post"
    THEN posted' = [posted EXCEPT ![request[c].op] = @ + 1] /\ UNCHANGED files
    ELSE files' = Written(c) /\ UNCHANGED posted

\* The remote created or changed the object, and said so; or the answer was
\* lost, a server error, malformed or not for this object.
RemoteWrite(c) ==
    /\ pc[c] = "write"
    /\ request[c].kind \notin Authored
    /\ Sent(c)
    /\ effective' = effective \cup {c}
    /\ had' = had \cup Current(files')
    /\ Finished(c)
    /\ \/ Return(c, "ok") /\ Finish(c, "succeeded")
       \/ Return(c, "unknown") /\ Finish(c, "unknown")
    /\ UNCHANGED <<request, shown, active, changes, disturbed>>

\* The remote rejected it or never got it; or the answer left that open.
RemoteRefuse(c) ==
    /\ pc[c] = "write"
    /\ request[c].kind \notin Authored
    /\ Finished(c)
    /\ \/ Return(c, "refused") /\ Finish(c, "conclusive")
       \/ Return(c, "unknown") /\ Finish(c, "unknown")
    /\ UNCHANGED <<request, shown, active, world>>

\* A validation, a quota, an ended session, a permission or an I/O error ends
\* the call before it has changed anything.
Refuse(c) ==
    /\ \/ pc[c] \in {"locked", "load", "destination", "reserve", "journal"}
          /\ UNCHANGED guard
       \/ pc[c] = "check" /\ Finished(c)
       \/ pc[c] = "write" /\ request[c].kind \in Authored /\ Finished(c)
    /\ Return(c, "refused")
    /\ UNCHANGED <<request, session, world>>

-----------------------------------------------------------------------------
(* The client, the session and the other programs.                         *)

\* Mutant: cancellation takes a call that is committing, too.
CancelUnmasked(c) ==
    /\ pc[c] \notin {"idle", "done"}
    /\ guard[c] \in {"active", "committing"}
    /\ guard' = [guard EXCEPT ![c] = "cancelled"]
    /\ UNCHANGED <<request, pc, holder, reserving, session, answer, world>>

\* OperationGuard::cancel: nothing once the call owns its commit.
Cancel(c) ==
    /\ pc[c] \notin {"idle", "done"}
    /\ guard[c] = "active"
    /\ guard' = [guard EXCEPT ![c] = "cancelled"]
    /\ UNCHANGED <<request, pc, holder, reserving, session, answer, world>>

\* run_under_cancellation drops a cancelled call where it is suspended; every
\* await before begin_commit is such a place.
Suspended == {"locking", "locked", "load", "destination", "reserve",
              "journal", "check", "write", "publish"}

Drop(c) ==
    /\ pc[c] \in Suspended
    /\ guard[c] = "cancelled"
    /\ Return(c, "cancelled")
    /\ Finish(c, "unknown")
    /\ UNCHANGED <<request, guard, shown, active, world>>

\* A read that loaded r when it held x records the page it displayed.
Read(r, x) ==
    /\ active
    /\ <<r, x>> \in had \ shown
    /\ shown' = shown \cup {<<r, x>>}
    /\ UNCHANGED <<request, pc, guard, holder, reserving, active, journal,
                   answer, world>>

\* Another program writes, creates or removes a Resource.
External(r, x) ==
    /\ changes < MaxChanges
    /\ files[r] # x
    /\ files' = [files EXCEPT ![r] = x]
    /\ had' = had \cup Current(files')
    /\ changes' = changes + 1
    /\ disturbed' = (disturbed \/ \E c \in Call : pc[c] = "write" /\ r \in Keys(c))
    /\ UNCHANGED <<request, pc, guard, holder, reserving, session, answer,
                   posted, effective>>

\* The connection ends: invalidate().
Disconnect ==
    /\ active
    /\ active' = FALSE
    /\ UNCHANGED <<request, pc, guard, holder, reserving, shown, journal,
                   answer, world>>

-----------------------------------------------------------------------------
(* The specification.                                                      *)

Unbound == [bound |-> None, outcome |-> "unbound", owner |-> None]

Init ==
    /\ request = [c \in Call |-> None]
    /\ pc = [c \in Call |-> "idle"]
    /\ guard = [c \in Call |-> "active"]
    /\ holder = [r \in Resource |-> None]
    /\ reserving = {}
    /\ shown = {}
    /\ active = TRUE
    /\ journal = [o \in Operation |-> Unbound]
    /\ files = InitialFiles
    /\ posted = [o \in Operation |-> 0]
    /\ answer = [c \in Call |-> None]
    /\ effective = {}
    /\ had = Current(InitialFiles)
    /\ changes = 0
    /\ disturbed = FALSE

\* The steps a call takes by itself.
Work(c) ==
    \/ Admit(c) \/ Load(c) \/ LoadDestination(c) \/ Reserve(c)
    \/ Own(c) \/ Replay(c)
    \/ BeginCommit(c) \/ LoseCommit(c)
    \/ Check(c) \/ Write(c) \/ Publish(c)
    \/ RemoteWrite(c) \/ RemoteRefuse(c)
    \/ Refuse(c)

Step(c) ==
    \/ \E q \in Request : Submit(c, q)
    \/ \E r \in Resource : Acquire(c, r)
    \/ Work(c)
    \/ Cancel(c)
    \/ Drop(c)

Environment ==
    \/ \E r \in Resource, x \in Content : Read(r, x)
    \/ \E r \in Resource, x \in Content \cup {None} : External(r, x)
    \/ Disconnect

Next == (\E c \in Call : Step(c)) \/ Environment

Spec == Init /\ [][Next]_vars

-----------------------------------------------------------------------------
(* Fairness.                                                               *)

\* The executor polls every call that can go on, blocking work returns, and
\* tokio mutexes are handed over in FIFO order, so a call that keeps finding
\* its next key free gets it.
Fairness ==
    \A c \in Call : /\ WF_vars(Work(c))
                    /\ SF_vars(\E r \in Resource : Acquire(c, r))

FairSpec == Spec /\ Fairness

-----------------------------------------------------------------------------
(* Properties.                                                             *)

PcValues == {"idle", "locking", "locked", "load", "destination", "reserve",
             "journal", "begin", "check", "write", "publish", "done"}

Entry == [bound : [resource : Resource, content : Content], owner : Call \cup {None},
          outcome : {"pending", "succeeded", "conclusive", "unknown"}]

\* Every variable has its shape, and only calls between reserve_seen and their
\* end hold a reservation.
TypeOK ==
    /\ request \in [Call -> Request \cup {None}]
    /\ pc \in [Call -> PcValues]
    /\ guard \in [Call -> {"active", "cancelled", "committing", "complete"}]
    /\ holder \in [Resource -> Call \cup {None}]
    /\ reserving \subseteq
         {c \in Call : pc[c] \in {"begin", "check", "write", "publish"}}
    /\ shown \subseteq Resource \X Content
    /\ active \in BOOLEAN
    /\ journal \in [Operation -> {Unbound} \cup Entry]
    /\ files \in [Resource -> Content \cup {None}]
    /\ posted \in [Operation -> Nat]
    /\ answer \in [Call -> {None, "ok", "refused", "cancelled", "unknown"}]
    /\ effective \subseteq Call
    /\ had \subseteq Resource \X Content
    /\ changes \in 0 .. MaxChanges
    /\ disturbed \in BOOLEAN

\* Repeating an operation id, after whatever outcome, cancellation or conflict,
\* never creates a second remote object.
CreatedAtMostOnce == \A o \in Operation : posted[o] <= 1

\* Callers can rely on their answer: a call that reports success took effect
\* (or repeats a creation that did), one that reports an error or a
\* cancellation changed nothing, and only remote calls may not know.
AnswersTruthful ==
    \A c \in Call :
        /\ answer[c] = "ok" =>
             \/ c \in effective
             \/ request[c].kind = "post" /\ posted[request[c].op] = 1
        /\ answer[c] \in {"refused", "cancelled"} => c \notin effective
        /\ answer[c] = "unknown" => request[c].kind \in {"field", "post"}

\* A pending journal attempt has an owner that is still running and holds the
\* lock of its target: a repeat never waits for it.
PendingOwned ==
    \A o \in Operation : journal[o].outcome = "pending" =>
        \E c \in Call :
            /\ journal[o].owner = c
            /\ pc[c] \in {"begin", "write"}
            /\ request[c].op = o
            /\ holder[journal[o].bound.resource] = c

\* Snapshots are only ever reserved by one call per Resource (PathSession
\* takes this for granted in Unlocked).
ReservationsExclusive ==
    \A c, d \in reserving : c # d => Keys(c) \cap Keys(d) = {}

\* A snapshot covers content the Resource really had, so an edit against it
\* names something that once existed: failed commits publish nothing.
ShownExisted == shown \subseteq had

\* What a call holds is its own until it ends, whichever way it ends: attempts
\* of the journal, reservations, and the snapshots they become.
HoldingsSound == PendingOwned /\ ReservationsExclusive /\ ShownExisted

\* Creating or moving onto a name never replaces a file another program put
\* there between the check and the rename.
NeverClobbers ==
    [][\A c \in effective' \ effective :
         request[c].kind \in {"create", "move"} =>
             files[request[c].to] = None]_vars

\* What the journal knows is final: a creation that succeeded, or may have,
\* is never attempted again.
OutcomesFinal ==
    [][\A o \in Operation :
         journal[o].outcome \in {"succeeded", "unknown"} =>
             journal'[o] = journal[o]]_vars

\* Every submitted call is answered: no set of locks deadlocks (a call is made
\* once, and stays done).
CallsAnswered == []<>(\A c \in Call : pc[c] \in {"idle", "done"})

-----------------------------------------------------------------------------
(* What the proofs add to make these inductive.                            *)

\* A call past its acquire holds every key of its lock set.
LocksHeld ==
    \A c \in Call : pc[c] \notin {"idle", "locking", "done"} =>
        \A r \in Keys(c) : holder[r] = c

\* Cancellation is masked from begin_commit on.
CommitMasked ==
    \A c \in Call :
        /\ pc[c] \in {"check", "write"} => guard[c] = "committing"
        /\ pc[c] = "publish" => guard[c] \in {"committing", "complete"}

\* Which calls can be where.
Staged ==
    \A c \in Call :
        /\ request[c] = None <=> pc[c] = "idle"
        /\ pc[c] = "journal" => request[c].kind = "post"
        /\ pc[c] \in {"load", "destination", "reserve", "publish"} =>
             request[c].kind \in Authored
        /\ pc[c] = "check" => request[c].kind # "post"
        /\ answer[c] = None <=> pc[c] # "done"

\* An effect is in front of its answer, or behind it.
EffectsPlaced ==
    \A c \in Call :
        /\ c \in effective => pc[c] \in {"publish", "done"}
        /\ pc[c] = "publish" => c \in effective
        /\ pc[c] = "publish" /\ request[c].kind \in Snapshotting =>
             <<request[c].resource, request[c].content>> \in had

\* The journal knows what was created, and whose attempt is running.
JournalSound ==
    \A o \in Operation :
        /\ journal[o].outcome \in {"unbound", "conclusive", "pending"} =>
             posted[o] = 0
        /\ journal[o].outcome = "succeeded" => posted[o] = 1
        /\ posted[o] \in {0, 1}
        /\ journal[o].outcome = "pending" <=> journal[o].owner # None

AttemptsOwned ==
    /\ \A o \in Operation, c \in Call : journal[o].owner = c =>
         /\ pc[c] \in {"begin", "write"}
         /\ request[c].kind = "post" /\ request[c].op = o
         /\ journal[o].bound = Binding(c)
    /\ \A c \in Call : pc[c] \in {"begin", "write"} /\ request[c].kind = "post" =>
         journal[request[c].op].owner = c

IInv ==
    /\ TypeOK /\ LocksHeld /\ CommitMasked /\ Staged /\ EffectsPlaced
    /\ JournalSound /\ AttemptsOwned /\ AnswersTruthful /\ ShownExisted

\* What the adapter compared still holds when it writes, unless another program
\* wrote in between: the locks keep the other calls out.
WindowClean ==
    ~disturbed =>
        \A c \in Call : pc[c] = "write" /\ request[c].kind # "post" =>
            /\ Matches(c)
            /\ request[c].kind = "move" => files[request[c].to] = None

-----------------------------------------------------------------------------
(* The contract these calls keep.                                          *)

Contract == INSTANCE MutationContract

\* Until another program writes inside the check-to-write window of an adapter,
\* every call is a compare-and-write that happens at once or not at all
\* (MutationContract), whatever other calls do and wherever it is cancelled.
ImplementsContract ==
    /\ Contract!Init
    /\ [][~disturbed' => Contract!Next]_(Contract!vars)
=============================================================================
