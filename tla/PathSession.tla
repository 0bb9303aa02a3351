---------------------------- MODULE PathSession ----------------------------
(***************************************************************************)
(* The admission ledger of one Path Session                                *)
(* (crates/resourcefs-core/src/session.rs).                                *)
(*                                                                         *)
(* One tokio Mutex, `admission`, guards everything a session retains:      *)
(* immutable artifacts, caller-authored scratch, cached upstream           *)
(* representations, the read snapshots that record which lines a caller    *)
(* was shown, and the journal of mutation operations.  All of it is        *)
(* charged to one byte ceiling, and artifacts, scratch and cache also      *)
(* share one object ceiling.                                               *)
(*                                                                         *)
(* Most calls lock, compute and unlock without suspending: each is one     *)
(* action here.  retain and scratch_put await the storage with the lock    *)
(* held, so they are a begin step, which leaves the suspended call in      *)
(* `admission`, and the steps that finish it; while `admission` is not     *)
(* Free nothing else of the session moves except the lock-free `active`    *)
(* flag.  A seen reservation is taken in one locked section and published  *)
(* or released in a later one, and other calls run in between.             *)
(*                                                                         *)
(* Abstractions.  A content is a model value with a size and a digest that *)
(* may collide; its Version Tag is the content itself.  A snapshot's       *)
(* merged ranges are the set of lines they cover and displayed_eof, which  *)
(* is only ever OR-ed, is left out.  Cache recency stamps are compared     *)
(* only with each other, so the model keeps the order they induce.         *)
(* Pre-lock checks of `active` that are not repeated under the lock let a  *)
(* call that was already waiting run after invalidate(): `late` bounds how *)
(* many such calls there are.                                              *)
(***************************************************************************)
EXTENDS Weights

CONSTANTS
    Content,        \* what can be retained or written
    SizeOf,         \* bytes of each content
    DigestOf,       \* SHA-256 of each content
    Name,           \* Session Scratch names
    CacheKey,       \* cache keys
    NamespaceOf,    \* the source namespace of each cache key
    EntryBytes,     \* key + entry sizes the object ceiling lets into the cache
    Operation,      \* caller-chosen operation ids
    OperationBytes, \* id + target + content sizes of journal entries
    Snapshot,       \* (canonical reference, Version Tag) pairs
    ResourceOf,     \* the canonical reference of each pair
    Line,           \* line numbers
    KeyBytes,       \* reference + tag + flag bytes of one snapshot
    RangeBytes,     \* bytes of one displayed line range
    Mutation,       \* mutating calls that reserve a snapshot
    SessionLimit,   \* limits.session_bytes()
    ObjectLimit,    \* limits.object_bytes()
    MaxArtifacts,   \* MAX_SESSION_ARTIFACTS
    MaxOperations,  \* MAX_MUTATION_OPERATIONS
    MaxObjectId,    \* bound on the object ids a run hands out
    MaxLate,        \* bound on the calls waiting when the session ends
    None

ASSUME SizesAssumption ==
    /\ SizeOf \in [Content -> Nat]
    /\ EntryBytes \subseteq Nat \ {0}
    /\ OperationBytes \subseteq Nat
    /\ KeyBytes \in Nat /\ RangeBytes \in Nat
    /\ Line \subseteq Nat /\ IsFiniteSet(Line)

ASSUME LimitsAssumption ==
    /\ SessionLimit \in Nat /\ ObjectLimit \in Nat
    /\ MaxArtifacts \in Nat /\ MaxOperations \in Nat
    /\ MaxObjectId \in Nat /\ MaxLate \in Nat

ASSUME NoneAssumption == None \notin Snapshot

VARIABLES
    active,                  \* the lock-free session flag
    late,                    \* waiting calls whose pre-lock check passed
    admission,               \* Free, or the call suspended with the lock held
    next_object_id,
    used_bytes,
    records,                 \* artifact id -> content its digest indexes
    scratch,                 \* name -> [id, content]
    cache,                   \* cache key -> charged bytes
    older,                   \* <<k, j>>: k was used before j
    snapshots,               \* snapshot key -> lines displayed
    snapshot_bytes,
    reserved_snapshot_bytes,
    reservations,            \* mutating call -> its SeenReservation
    mutation_operations,     \* operation id -> charged bytes
    disk                     \* the backing store: object id -> content

objects == <<records, scratch, disk>>
caching == <<cache, older>>
seen == <<snapshots, snapshot_bytes>>
reserved == <<reserved_snapshot_bytes, reservations>>
control == <<active, late>>

vars == <<control, admission, next_object_id, used_bytes, objects, caching,
          seen, reserved, mutation_operations>>

Free == [op |-> "free"]

-----------------------------------------------------------------------------
(* Snapshots.                                                              *)

\* The number of maximal runs of consecutive lines: merge_seen_ranges keeps
\* one range per run.
Runs(lines) == Cardinality({l \in lines : l - 1 \notin lines})

RangesBytes(lines) == RangeBytes * Runs(lines)

Displayed(key) == IF key \in DOMAIN snapshots THEN snapshots[key] ELSE {}

\* Mutant: the new ranges replace the displayed ones but are charged as if
\* merged.
UpdateOverwrites(key, lines) ==
    IF key = None
    THEN [key |-> None, lines |-> {}, next |-> snapshot_bytes]
    ELSE [key   |-> key,
          lines |-> lines,
          next  |-> snapshot_bytes - RangesBytes(Displayed(key))
                    + (IF key \in DOMAIN snapshots THEN 0 ELSE KeyBytes)
                    + RangesBytes(Displayed(key) \cup lines)]

\* prepare_snapshot_update: the merged snapshot of `key` and the absolute
\* snapshot_bytes that publishing it would set.  key = None is a call that
\* records nothing.
Update(key, lines) ==
    IF key = None
    THEN [key |-> None, lines |-> {}, next |-> snapshot_bytes]
    ELSE LET merged == Displayed(key) \cup lines
         IN [key   |-> key,
             lines |-> merged,
             next  |-> snapshot_bytes - RangesBytes(Displayed(key))
                       + (IF key \in DOMAIN snapshots THEN 0 ELSE KeyBytes)
                       + RangesBytes(merged)]

\* Its checked subtraction.
Preparable(key) == key = None \/ RangesBytes(Displayed(key)) <= snapshot_bytes

\* apply_snapshot_update
ApplyUpdate(update) ==
    /\ snapshot_bytes' = update.next
    /\ snapshots' = IF update.key = None THEN snapshots
                    ELSE Put(snapshots, update.key, update.lines)

-----------------------------------------------------------------------------
(* Ceilings, and the cache that yields to them.                            *)

UsedWithout(E) == used_bytes - Weight(Only(cache, E))

\* combined_session_bytes, once the cache entries E are gone.
Combined(E, next, added) == (UsedWithout(E) - snapshot_bytes) + added + next

CombinedFits(E, next, added) ==
    /\ snapshot_bytes <= UsedWithout(E)
    /\ Combined(E, next, added) + reserved_snapshot_bytes <= SessionLimit

\* Mutant: the bytes a replacement releases are not credited.
ResultingUncredited(E, released, added) == UsedWithout(E) + added

\* scratch_resulting_bytes, once the cache entries E are gone.
Resulting(E, released, added) == (UsedWithout(E) - released) + added

ResultingFits(E, released, added) ==
    /\ released <= UsedWithout(E)
    /\ Resulting(E, released, added) + reserved_snapshot_bytes <= SessionLimit

\* session_object_count, once the cache entries E are gone.
ObjectCount(E) ==
    Cardinality(DOMAIN records) + Cardinality(DOMAIN scratch)
        + Cardinality(DOMAIN cache \ E)

\* Sets of entries the LRU loop can have removed: no survivor is older than
\* a victim.
Victims(keep) ==
    {E \in SUBSET (DOMAIN cache \ keep) :
        \A k \in E, j \in DOMAIN cache \ (keep \cup E) : <<k, j>> \in older}

\* yield_cache_until: the loop stops at the first admissible prefix of the
\* recency order, or with nothing left to remove.
Yielded(E, keep, Admissible(_)) ==
    /\ E \in Victims(keep)
    /\ Admissible(E) \/ E = DOMAIN cache \ keep
    /\ \A F \in Victims(keep) : F \subseteq E /\ F # E => ~Admissible(F)

\* release_cache_entry for every key of E.
ReleaseCache(E) ==
    /\ cache' = Without(cache, E)
    /\ older' = {pair \in older : pair[1] \notin E /\ pair[2] \notin E}

\* next_cache_stamp handed to `key`, after the entries E are gone.
Touched(key, E) ==
    {pair \in older : /\ pair[1] \notin E \cup {key}
                      /\ pair[2] \notin E \cup {key}}
        \cup {<<k, key>> : k \in DOMAIN cache \ (E \cup {key})}

-----------------------------------------------------------------------------
(* Session lifetime.                                                       *)

\* A call that tests `active` under the lock.
Live == admission = Free /\ active

\* A call that tested it only before it queued for the lock.
Admitted == admission = Free /\ (active \/ late > 0)

LeaveQueue == late' = IF active THEN late ELSE late - 1

\* invalidate(): stores the flag without the lock, at any moment.
Invalidate ==
    /\ active
    /\ active' = FALSE
    /\ late' \in 0 .. MaxLate
    /\ UNCHANGED <<admission, next_object_id, used_bytes, objects, caching,
                   seen, reserved, mutation_operations>>

-----------------------------------------------------------------------------
(* retain and retain_with_seen.                                            *)

\* Artifacts whose digest candidates hold exactly these bytes in storage.
Duplicates(content) ==
    {id \in DOMAIN records : /\ DigestOf[records[id]] = DigestOf[content]
                             /\ id \in DOMAIN disk
                             /\ disk[id] = content}

Retainable(content, key) ==
    Live /\ SizeOf[content] <= ObjectLimit /\ Preparable(key)

\* The content is already an artifact: only the snapshot is charged.
RetainReuse(content, key, lines) ==
    LET update == Update(key, lines) IN
    /\ Retainable(content, key)
    /\ Duplicates(content) # {}
    /\ CombinedFits({}, update.next, 0)
    /\ used_bytes' = Combined({}, update.next, 0)
    /\ ApplyUpdate(update)
    /\ UNCHANGED <<control, admission, next_object_id, objects, caching,
                   reserved, mutation_operations>>

\* The admission test the cache yields to, and the two checks after it.
ArtifactFits(E, content, next) ==
    ObjectCount(E) < MaxArtifacts /\ CombinedFits(E, next, SizeOf[content])

RetainYields(E, content, next) ==
    Yielded(E, {}, LAMBDA F : ArtifactFits(F, content, next))

\* Refused after the cache yielded everything it had.
RetainRefused(content, key, lines) ==
    LET update == Update(key, lines) IN
    /\ Retainable(content, key)
    /\ Duplicates(content) = {}
    /\ \E E \in SUBSET DOMAIN cache :
         /\ RetainYields(E, content, update.next)
         /\ ~ArtifactFits(E, content, update.next)
         /\ ReleaseCache(E)
         /\ used_bytes' = UsedWithout(E)
    /\ UNCHANGED <<control, admission, next_object_id, objects, seen,
                   reserved, mutation_operations>>

\* Admitted: the id is taken and the storage write is awaited under the lock.
RetainBegin(content, key, lines) ==
    LET update == Update(key, lines) IN
    /\ Retainable(content, key)
    /\ Duplicates(content) = {}
    /\ next_object_id <= MaxObjectId
    /\ \E E \in SUBSET DOMAIN cache :
         /\ RetainYields(E, content, update.next)
         /\ ArtifactFits(E, content, update.next)
         /\ ReleaseCache(E)
         /\ used_bytes' = UsedWithout(E)
         /\ admission' = [op |-> "retain", id |-> next_object_id,
                          content |-> content, update |-> update,
                          bytes |-> Combined(E, update.next, SizeOf[content])]
    /\ next_object_id' = next_object_id + 1
    /\ UNCHANGED <<control, objects, seen, reserved, mutation_operations>>

\* The write landed and the second ensure_commit_live still holds.
RetainPublish ==
    /\ admission.op = "retain"
    /\ active
    /\ disk' = Put(disk, admission.id, admission.content)
    /\ records' = Put(records, admission.id, admission.content)
    /\ ApplyUpdate(admission.update)
    /\ used_bytes' = admission.bytes
    /\ admission' = Free
    /\ UNCHANGED <<control, next_object_id, scratch, caching, reserved,
                   mutation_operations>>

\* The write failed, or the session or the operation died during it and the
\* object was removed; or the future was dropped (or the removal failed) and
\* the object stays in the store with no record naming it.
RetainAbandon ==
    /\ admission.op = "retain"
    /\ \/ disk' = disk
       \/ disk' = Put(disk, admission.id, admission.content)
    /\ admission' = Free
    /\ UNCHANGED <<control, next_object_id, used_bytes, records, scratch,
                   caching, seen, reserved, mutation_operations>>

-----------------------------------------------------------------------------
(* Session Scratch.                                                        *)

ScratchSize(name) ==
    IF name \in DOMAIN scratch THEN SizeOf[scratch[name].content] ELSE 0

\* The admission test of scratch_put: a replacement needs no new object.
ScratchFits(E, name, content) ==
    /\ name \in DOMAIN scratch \/ ObjectCount(E) < MaxArtifacts
    /\ ResultingFits(E, ScratchSize(name), SizeOf[content])

ScratchYields(E, name, content) ==
    Yielded(E, {}, LAMBDA F : ScratchFits(F, name, content))

ScratchPutRefused(name, content) ==
    /\ Live
    /\ SizeOf[content] <= ObjectLimit
    /\ \E E \in SUBSET DOMAIN cache :
         /\ ScratchYields(E, name, content)
         /\ ~ScratchFits(E, name, content)
         /\ ReleaseCache(E)
         /\ used_bytes' = UsedWithout(E)
    /\ UNCHANGED <<control, admission, next_object_id, objects, seen,
                   reserved, mutation_operations>>

\* Mutant: a new scratch name does not consume the id it takes.
ScratchPutBeginSameId(name, content) ==
    LET replaces == name \in DOMAIN scratch IN
    /\ Live
    /\ SizeOf[content] <= ObjectLimit
    /\ next_object_id <= MaxObjectId
    /\ \E E \in SUBSET DOMAIN cache :
         /\ ScratchYields(E, name, content)
         /\ ScratchFits(E, name, content)
         /\ ReleaseCache(E)
         /\ used_bytes' = UsedWithout(E)
         /\ admission' = [op |-> "scratch", name |-> name,
                          id |-> IF replaces THEN scratch[name].id
                                 ELSE next_object_id,
                          content |-> content,
                          bytes |-> Resulting(E, ScratchSize(name),
                                              SizeOf[content])]
    /\ UNCHANGED <<control, next_object_id, objects, seen, reserved,
                   mutation_operations>>

\* A replacement keeps its object id, a new name takes the next one; the
\* storage write is awaited under the lock.
ScratchPutBegin(name, content) ==
    LET replaces == name \in DOMAIN scratch
        id == IF replaces THEN scratch[name].id ELSE next_object_id
    IN
    /\ Live
    /\ SizeOf[content] <= ObjectLimit
    /\ replaces \/ next_object_id <= MaxObjectId
    /\ \E E \in SUBSET DOMAIN cache :
         /\ ScratchYields(E, name, content)
         /\ ScratchFits(E, name, content)
         /\ ReleaseCache(E)
         /\ used_bytes' = UsedWithout(E)
         /\ admission' = [op |-> "scratch", id |-> id, name |-> name,
                          content |-> content,
                          bytes |-> Resulting(E, ScratchSize(name),
                                              SizeOf[content])]
    /\ next_object_id' = IF replaces THEN next_object_id
                         ELSE next_object_id + 1
    /\ UNCHANGED <<control, objects, seen, reserved, mutation_operations>>

\* The write landed; there is no second liveness test.
ScratchPutPublish ==
    /\ admission.op = "scratch"
    /\ disk' = Put(disk, admission.id, admission.content)
    /\ scratch' = Put(scratch, admission.name,
                      [id |-> admission.id, content |-> admission.content])
    /\ used_bytes' = admission.bytes
    /\ admission' = Free
    /\ UNCHANGED <<control, next_object_id, records, caching, seen, reserved,
                   mutation_operations>>

\* write_atomic failed: before its rename the object is as it was; when the
\* directory sync after the rename fails it removes the object, and when that
\* fails too the new bytes stay.
ScratchPutFailed ==
    /\ admission.op = "scratch"
    /\ disk' \in {disk, Without(disk, {admission.id}),
                  Put(disk, admission.id, admission.content)}
    /\ admission' = Free
    /\ UNCHANGED <<control, next_object_id, used_bytes, records, scratch,
                   caching, seen, reserved, mutation_operations>>

\* The entry and its bytes go first, then the object, whose removal may fail.
ScratchRemove(name) ==
    /\ Admitted
    /\ LeaveQueue
    /\ name \in DOMAIN scratch
    /\ scratch' = Without(scratch, {name})
    /\ used_bytes' = used_bytes - ScratchSize(name)
    /\ disk' \in {disk, Without(disk, {scratch[name].id})}
    /\ UNCHANGED <<active, admission, next_object_id, records, caching, seen,
                   reserved, mutation_operations>>

ScratchRename(from, to) ==
    /\ Admitted
    /\ LeaveQueue
    /\ from \in DOMAIN scratch
    /\ from = to \/ to \notin DOMAIN scratch
    /\ scratch' = Put(Without(scratch, {from}), to, scratch[from])
    /\ UNCHANGED <<active, admission, next_object_id, used_bytes, records,
                   disk, caching, seen, reserved, mutation_operations>>

-----------------------------------------------------------------------------
(* Cache.                                                                  *)

CacheGet(key) ==
    /\ Admitted
    /\ LeaveQueue
    /\ key \in DOMAIN cache
    /\ older' = Touched(key, {})
    /\ UNCHANGED <<active, admission, next_object_id, used_bytes, objects,
                   cache, seen, reserved, mutation_operations>>

CachedBytes(key) == IF key \in DOMAIN cache THEN cache[key] ELSE 0

\* The admission test of cache_put; the entry it replaces is not a victim.
CacheFits(E, key, bytes) ==
    /\ key \in DOMAIN cache \/ ObjectCount(E) < MaxArtifacts
    /\ ResultingFits(E, CachedBytes(key), bytes)

CacheYields(E, key, bytes) ==
    Yielded(E, {key}, LAMBDA F : CacheFits(F, key, bytes))

\* cache_put: stored under a fresh stamp, or refused after the other entries
\* went.  The session flag is not tested again under the lock.
CachePut(key, bytes) ==
    /\ Admitted
    /\ LeaveQueue
    /\ \E E \in SUBSET (DOMAIN cache \ {key}) :
         /\ CacheYields(E, key, bytes)
         /\ IF CacheFits(E, key, bytes)
            THEN /\ cache' = Put(Without(cache, E), key, bytes)
                 /\ older' = Touched(key, E)
                 /\ used_bytes' = Resulting(E, CachedBytes(key), bytes)
            ELSE /\ ReleaseCache(E)
                 /\ used_bytes' = UsedWithout(E)
    /\ UNCHANGED <<active, admission, next_object_id, objects, seen, reserved,
                   mutation_operations>>

\* cache_remove of one key, cache_remove_namespace of all keys of one.
CacheRemove(E) ==
    /\ Admitted
    /\ LeaveQueue
    /\ E \subseteq DOMAIN cache
    /\ ReleaseCache(E)
    /\ used_bytes' = UsedWithout(E)
    /\ UNCHANGED <<active, admission, next_object_id, objects, seen, reserved,
                   mutation_operations>>

-----------------------------------------------------------------------------
(* The mutation operation journal.                                         *)

JournalYields(E, bytes) ==
    Yielded(E, {}, LAMBDA F : ResultingFits(F, 0, bytes))

\* A new identity is charged for its id, target and exact content, or refused
\* after the cache yielded.  An identity already bound charges nothing.
BeginMutationOperation(operation, bytes) ==
    /\ Live
    /\ operation \notin DOMAIN mutation_operations
    /\ Cardinality(DOMAIN mutation_operations) < MaxOperations
    /\ \E E \in SUBSET DOMAIN cache :
         /\ JournalYields(E, bytes)
         /\ ReleaseCache(E)
         /\ IF ResultingFits(E, 0, bytes)
            THEN /\ used_bytes' = Resulting(E, 0, bytes)
                 /\ mutation_operations' =
                      Put(mutation_operations, operation, bytes)
            ELSE /\ used_bytes' = UsedWithout(E)
                 /\ mutation_operations' = mutation_operations
    /\ UNCHANGED <<control, admission, next_object_id, objects, seen,
                   reserved>>

-----------------------------------------------------------------------------
(* Read snapshots.                                                         *)

RecordSeenFits(key, lines) ==
    /\ Preparable(key)
    /\ CombinedFits({}, Update(key, lines).next, 0)

\* record_seen: the lines a read displayed.
RecordSeen(key, lines) ==
    LET update == Update(key, lines) IN
    /\ Live
    /\ RecordSeenFits(key, lines)
    /\ used_bytes' = Combined({}, update.next, 0)
    /\ ApplyUpdate(update)
    /\ UNCHANGED <<control, admission, next_object_id, objects, caching,
                   reserved, mutation_operations>>

\* Mutant: the key of a new snapshot is not reserved.
ReservedBytesNoKey(key, lines) == RangesBytes(lines)

ReservedBytes(key, lines) ==
    (IF key \in DOMAIN snapshots THEN 0 ELSE KeyBytes) + RangesBytes(lines)

\* Mutations hold the lock of their Resource from before the reservation to
\* after its publication (MutationLocks), so two reservations never name the
\* same Resource.
Unlocked(key) ==
    \A m \in DOMAIN reservations :
        ResourceOf[reservations[m].update.key] # ResourceOf[key]

\* reserve_seen, before the commit of a mutation: the update, absolute counter
\* included, is prepared now and applied later.  It tests no session flag.
ReserveSeen(m, key, lines) ==
    LET bytes == ReservedBytes(key, lines) IN
    /\ admission = Free
    /\ m \notin DOMAIN reservations
    /\ Unlocked(key)
    /\ used_bytes + reserved_snapshot_bytes + bytes <= SessionLimit
    /\ Preparable(key)
    /\ reserved_snapshot_bytes' = reserved_snapshot_bytes + bytes
    /\ reservations' =
         Put(reservations, m, [update |-> Update(key, lines), bytes |-> bytes])
    /\ UNCHANGED <<control, admission, next_object_id, used_bytes, objects,
                   caching, seen, mutation_operations>>

\* publish_seen, after the commit.
PublishSeen(m) ==
    /\ admission = Free
    /\ m \in DOMAIN reservations
    /\ reserved_snapshot_bytes' =
         reserved_snapshot_bytes - reservations[m].bytes
    /\ used_bytes' =
         (used_bytes - snapshot_bytes) + reservations[m].update.next
    /\ ApplyUpdate(reservations[m].update)
    /\ reservations' = Without(reservations, {m})
    /\ UNCHANGED <<control, admission, next_object_id, objects, caching,
                   mutation_operations>>

\* cancel_seen, or the task SeenReservation::drop spawns.
ReleaseSeen(m) ==
    /\ admission = Free
    /\ m \in DOMAIN reservations
    /\ reserved_snapshot_bytes' =
         reserved_snapshot_bytes - reservations[m].bytes
    /\ reservations' = Without(reservations, {m})
    /\ UNCHANGED <<control, admission, next_object_id, used_bytes, objects,
                   caching, seen, mutation_operations>>

-----------------------------------------------------------------------------
Init ==
    /\ active = TRUE
    /\ late = 0
    /\ admission = Free
    /\ next_object_id = 1
    /\ used_bytes = 0
    /\ records = << >>
    /\ scratch = << >>
    /\ cache = << >>
    /\ older = {}
    /\ snapshots = << >>
    /\ snapshot_bytes = 0
    /\ reserved_snapshot_bytes = 0
    /\ reservations = << >>
    /\ mutation_operations = << >>
    /\ disk = << >>

\* Line sets a page can display or a mutation can author.
Shown == (SUBSET Line) \ {{}}

\* What retain may record with the artifact: nothing, or one page.
Seen == {<<None, {}>>} \cup Snapshot \X Shown

Retain ==
    \E content \in Content, s \in Seen :
        \/ RetainReuse(content, s[1], s[2])
        \/ RetainRefused(content, s[1], s[2])
        \/ RetainBegin(content, s[1], s[2])

Scratch ==
    \/ \E name \in Name, content \in Content :
        \/ ScratchPutRefused(name, content)
        \/ ScratchPutBegin(name, content)
    \/ \E name \in Name : ScratchRemove(name)
    \/ \E from, to \in Name : ScratchRename(from, to)

Cache ==
    \/ \E key \in CacheKey : CacheGet(key)
    \/ \E key \in CacheKey, bytes \in EntryBytes : CachePut(key, bytes)
    \/ \E key \in CacheKey :
        \/ CacheRemove({key})
        \/ CacheRemove({k \in DOMAIN cache : NamespaceOf[k] = NamespaceOf[key]})

Snapshots ==
    \/ \E key \in Snapshot, lines \in Shown : RecordSeen(key, lines)
    \/ \E m \in Mutation, key \in Snapshot, lines \in Shown :
        ReserveSeen(m, key, lines)
    \/ \E m \in Mutation : PublishSeen(m) \/ ReleaseSeen(m)

\* Mutant: a retain that cannot be published keeps the lock.
StorageAnswersNoAbandon ==
    RetainPublish \/ ScratchPutPublish \/ ScratchPutFailed

\* The storage answers the call that holds the lock.
StorageAnswers ==
    RetainPublish \/ RetainAbandon \/ ScratchPutPublish \/ ScratchPutFailed

Journal ==
    \E operation \in Operation, bytes \in OperationBytes :
        BeginMutationOperation(operation, bytes)

Next == \/ Invalidate \/ Retain \/ StorageAnswers \/ Scratch
        \/ Cache \/ Journal \/ Snapshots

Spec == Init /\ [][Next]_vars

\* Storage calls return, and the tokio mutex hands itself over in FIFO order,
\* so a call that keeps finding the lock free gets it.
Fairness ==
    /\ WF_vars(StorageAnswers)
    /\ \A m \in Mutation : SF_vars(PublishSeen(m) \/ ReleaseSeen(m))

-----------------------------------------------------------------------------
(* What the charges add up to.                                             *)

RecordBytes == [id \in DOMAIN records |-> SizeOf[records[id]]]
ScratchBytes == [n \in DOMAIN scratch |-> SizeOf[scratch[n].content]]
ReservationBytes == [m \in DOMAIN reservations |-> reservations[m].bytes]
SnapshotBytes ==
    [s \in DOMAIN snapshots |-> KeyBytes + RangesBytes(snapshots[s])]

\* Bytes of everything but snapshots.
ObjectBytes == Weight(RecordBytes) + Weight(ScratchBytes) + Weight(cache)
                 + Weight(mutation_operations)

ScratchIds == {scratch[n].id : n \in DOMAIN scratch}

UpdateType ==
    [key : Snapshot \cup {None}, lines : SUBSET Line, next : Nat]

AdmissionType ==
    {Free}
    \cup [op : {"retain"}, id : 1 .. next_object_id - 1, content : Content,
          update : UpdateType, bytes : Nat]
    \cup [op : {"scratch"}, id : 1 .. next_object_id - 1, name : Name,
          content : Content, bytes : Nat]

\* Every variable has its shape; the counters never go below zero.
TypeOK ==
    /\ active \in BOOLEAN
    /\ late \in 0 .. MaxLate
    /\ admission \in AdmissionType
    /\ next_object_id \in Nat \ {0}
    /\ used_bytes \in Nat
    /\ IsMap(records, 1 .. next_object_id - 1, Content)
    /\ IsMap(scratch, Name, [id : 1 .. next_object_id - 1,
                             content : Content])
    /\ IsMap(cache, CacheKey, EntryBytes)
    /\ older \subseteq (DOMAIN cache) \X (DOMAIN cache)
    /\ IsMap(snapshots, Snapshot, SUBSET Line)
    /\ snapshot_bytes \in Nat
    /\ reserved_snapshot_bytes \in Nat
    /\ IsMap(reservations, Mutation, [update : UpdateType, bytes : Nat])
    /\ IsMap(mutation_operations, Operation, OperationBytes)
    /\ IsMap(disk, 1 .. next_object_id - 1, Content)

\* What used_bytes counts besides the snapshot counter is, to the byte, the
\* artifacts, scratch, cache entries and journal entries that exist: the
\* `expect`s and checked subtractions of release_cache_entry, scratch_remove
\* and publish_seen cannot fail, whatever order calls run in.
ObjectAccounting == used_bytes = snapshot_bytes + ObjectBytes

\* Artifacts, scratch, cache and journal together never outgrow the session
\* ceiling (scratch_resulting_bytes, combined_session_bytes), whatever the
\* snapshot counter says.
ObjectsWithinQuota == ObjectBytes <= SessionLimit

\* The shared object ceiling holds although it is tested before the storage
\* write and the object is inserted after it (retain, scratch_put, cache_put).
ObjectCountWithinCeiling == ObjectCount({}) <= MaxArtifacts

\* The reserved counter is the sum of the reservations that are still to be
\* published or released, so neither publish_seen nor a dropped reservation
\* can underflow it, and a forgotten one cannot eat the quota.
ReservationsBalanced == reserved_snapshot_bytes = Weight(ReservationBytes)

\* One object id names one object: an artifact reference can never read back
\* scratch content, and no write in flight aims at an artifact's object.
ObjectIdsDistinct ==
    /\ ScratchIds \cap DOMAIN records = {}
    /\ \A m, n \in DOMAIN scratch : scratch[m].id = scratch[n].id => m = n
    /\ admission.op # "free" => admission.id \notin DOMAIN records
    /\ admission.op = "retain" => admission.id \notin ScratchIds

\* Retaining equal bytes twice yields one artifact even when digests collide
\* and the first write was still in flight (digest_index, content_equals).
ArtifactsDeduplicated ==
    \A i, j \in DOMAIN records : records[i] = records[j] => i = j

\* The ledger is sound, whatever order calls, storage answers and publications
\* run in: beside the counter of snapshots, taken as it stands, it counts to the
\* byte the objects it holds, these stay under its ceilings, and neither its
\* reservations nor its objects are mistaken for one another (session.rs,
\* retain, scratch_put, cache_put, publish_seen).
LedgerSound ==
    /\ ObjectAccounting
    /\ ObjectsWithinQuota
    /\ ObjectCountWithinCeiling
    /\ ReservationsBalanced
    /\ ObjectIdsDistinct
    /\ ArtifactsDeduplicated

\* A Recovery Reference stays readable with its exact bytes for the whole
\* session: artifacts are never dropped, overwritten or lost to another
\* object's failed write (artifact:// is immutable).
ArtifactsImmutable ==
    [][\A id \in DOMAIN records :
         /\ id \in DOMAIN records' /\ records'[id] = records[id]
         /\ id \in DOMAIN disk' /\ disk'[id] = disk[id]]_vars

\* The strengthening the proofs need: what the suspended call computed before
\* its storage write is still what the ledger says when the write returns ...
PendingCharged ==
    /\ admission.op = "retain" =>
         /\ admission.bytes = (used_bytes - snapshot_bytes)
                                + SizeOf[admission.content]
                                + admission.update.next
         /\ ObjectBytes + SizeOf[admission.content] <= SessionLimit
    /\ admission.op = "scratch" =>
         /\ admission.bytes = (used_bytes - ScratchSize(admission.name))
                                + SizeOf[admission.content]
         /\ (ObjectBytes - ScratchSize(admission.name))
                + SizeOf[admission.content] <= SessionLimit

\* ... its object is still new, or still the one it replaces, and there is
\* still room for it ...
PendingPlaced ==
    /\ admission.op = "retain" =>
         /\ ObjectCount({}) < MaxArtifacts
         /\ \A id \in DOMAIN records : records[id] # admission.content
    /\ admission.op = "scratch" =>
         IF admission.name \in DOMAIN scratch
         THEN admission.id = scratch[admission.name].id
         ELSE /\ ObjectCount({}) < MaxArtifacts
              /\ admission.id \notin ScratchIds

\* ... and an artifact's stored bytes are the ones its digest indexes.
ArtifactsStored ==
    \A id \in DOMAIN records : id \in DOMAIN disk /\ disk[id] = records[id]

\* Every reserved snapshot is published or released: no mutation leaves
\* session bytes reserved for ever (SeenReservation::drop).
ReservationsResolve ==
    \A m \in Mutation : (m \in DOMAIN reservations) ~> (m \notin DOMAIN reservations)

\* MAX_SESSION_BYTES: "Bytes retained by artifacts, scratch, cache, snapshots,
\* and exact mutation operation content": the snapshot counter is what the
\* snapshots cost.
SnapshotAccountingExact == snapshot_bytes = Weight(SnapshotBytes)

\* publish_seen expects that the "reserved snapshot update fits the session
\* byte ceiling": what is used and reserved stays under it.
UsedWithinQuota == used_bytes + reserved_snapshot_bytes <= SessionLimit

\* CachedObject: when the byte ceiling is reached "the cache yields ... before
\* an authoritative object is refused": a displayed page is refused only by a
\* session with nothing left in the cache.
SeenRefusedOnlyWithoutCache ==
    (admission = Free /\ active) =>
        \A key \in Snapshot, lines \in Shown :
            RecordSeenFits(key, lines) \/ DOMAIN cache = {}
=============================================================================
