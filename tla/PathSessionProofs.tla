------------------------- MODULE PathSessionProofs -------------------------
(***************************************************************************)
(* The ledger of PathSession is exact and bounded for every set of         *)
(* contents, names, keys and calls, and every value of the limits.         *)
(*                                                                         *)
(* LedgerInv is the inductive invariant.  ObjectAccounting alone is not    *)
(* inductive: a suspended call writes an absolute used_bytes computed      *)
(* before its storage write, so PendingCharged carries what that number   *)
(* was computed from, and ReservationsBalanced keeps the reserved counter  *)
(* from underflowing when a reservation is published.  SerialInv adds what  *)
(* holds of a session in which no reservation was overtaken.                *)
(***************************************************************************)
EXTENDS SerialSession, FiniteSetTheorems, TLAPS

-----------------------------------------------------------------------------
(* The laws of Weight, for maps of any finite size *)

\* A finite map to natural numbers.
Sizes(f) == IsFiniteSet(DOMAIN f) /\ \A k \in DOMAIN f : f[k] \in Nat

\* The units of one key are as many as its size.
LEMMA KeyUnits ==
    ASSUME NEW k, NEW n \in Nat
    PROVE  /\ IsFiniteSet({k} \X (1 .. n))
           /\ Cardinality({k} \X (1 .. n)) = n
<1>1. IsFiniteSet({k}) /\ Cardinality({k}) = 1
  BY FS_Singleton
<1>2. IsFiniteSet(1 .. n) /\ Cardinality(1 .. n) = n
  BY FS_Interval
<1>3. Cardinality({k} \X (1 .. n)) = Cardinality({k}) * Cardinality(1 .. n)
  BY <1>1, <1>2, FS_Product
<1>4. IsFiniteSet({k} \X (1 .. n))
  BY <1>1, <1>2, FS_Product
<1>5. 1 * n = n
  OBVIOUS
<1>6. QED
  BY <1>1, <1>2, <1>3, <1>4, <1>5

\* A finite map has finitely many units.
LEMMA UnitsFinite ==
    ASSUME NEW f, Sizes(f)
    PROVE  IsFiniteSet(Units(f)) /\ Weight(f) \in Nat
<1> DEFINE Blocks == {{k} \X (1 .. f[k]) : k \in DOMAIN f}
             block == [k \in DOMAIN f |-> {k} \X (1 .. f[k])]
<1>1. IsFiniteSet(Blocks)
  <2>1. block \in Surjection(DOMAIN f, Blocks)
    BY DEF Surjection
  <2>2. QED
    BY <2>1, FS_Surjection DEF Sizes
<1>2. ASSUME NEW T \in Blocks PROVE IsFiniteSet(T)
  <2>1. PICK k \in DOMAIN f : T = {k} \X (1 .. f[k])
    OBVIOUS
  <2>2. f[k] \in Nat
    BY DEF Sizes
  <2>3. QED
    BY <2>1, <2>2, KeyUnits
<1>3. IsFiniteSet(UNION Blocks)
  BY <1>1, <1>2, FS_UNION
<1>4. QED
  BY <1>3, FS_CardinalityType DEF Units, Weight

\* Nothing weighs nothing.
LEMMA WeightEmpty == Weight(<< >>) = 0
<1>1. Units(<< >>) = {}
  BY DEF Units
<1>2. QED
  BY <1>1, FS_EmptySet DEF Weight

\* HashMap::insert of a new key adds its size.
LEMMA WeightPutFresh ==
    ASSUME NEW f, Sizes(f), NEW x, x \notin DOMAIN f, NEW n \in Nat
    PROVE  /\ Sizes(Put(f, x, n))
           /\ Weight(Put(f, x, n)) = Weight(f) + n
<1> DEFINE Block == {x} \X (1 .. n)
<1>1. Sizes(Put(f, x, n))
  BY FS_AddElement DEF Sizes, Put
<1>2. Units(Put(f, x, n)) = Units(f) \cup Block
  BY DEF Units, Put
<1>3. Units(f) \cap Block = {}
  BY DEF Units
<1>4. Cardinality(Units(f) \cap Block) = 0
  BY <1>3, FS_EmptySet
<1>5. IsFiniteSet(Units(f)) /\ Cardinality(Units(f)) \in Nat
  BY UnitsFinite DEF Weight
<1>6. IsFiniteSet(Block) /\ Cardinality(Block) = n
  BY KeyUnits
<1> HIDE DEF Block
<1>7. Cardinality(Units(f) \cup Block)
        = Cardinality(Units(f)) + Cardinality(Block)
            - Cardinality(Units(f) \cap Block)
  BY <1>5, <1>6, FS_Union
<1>8. QED
  BY <1>1, <1>2, <1>4, <1>5, <1>6, <1>7 DEF Weight

\* Removing the keys of S takes away what those keys weigh, and no more than
\* there is.
LEMMA WeightWithout ==
    ASSUME NEW f, Sizes(f), NEW S
    PROVE  /\ Sizes(Without(f, S)) /\ Sizes(Only(f, S))
           /\ Weight(Only(f, S)) \in 0 .. Weight(f)
           /\ Weight(Without(f, S)) = Weight(f) - Weight(Only(f, S))
<1>1. Sizes(Without(f, S))
  BY FS_Difference DEF Sizes, Without
<1>2. Sizes(Only(f, S))
  BY FS_Intersection DEF Sizes, Only
<1>3. Units(Only(f, S)) \subseteq Units(f)
  BY DEF Units, Only
<1>4. Units(Without(f, S)) = Units(f) \ Units(Only(f, S))
  BY DEF Units, Only, Without
<1>5. IsFiniteSet(Units(f)) /\ Cardinality(Units(f)) \in Nat
  BY UnitsFinite DEF Weight
<1>6. Cardinality(Units(Only(f, S))) \in Nat
  BY <1>2, UnitsFinite DEF Weight
<1>7. Cardinality(Units(Only(f, S))) <= Cardinality(Units(f))
  BY <1>3, <1>5, FS_Subset
<1>8. Units(f) \cap Units(Only(f, S)) = Units(Only(f, S))
  BY <1>3
<1>9. Cardinality(Units(f) \ Units(Only(f, S)))
        = Cardinality(Units(f)) - Cardinality(Units(Only(f, S)))
  BY <1>5, <1>8, FS_Difference
<1>10. QED
  BY <1>1, <1>2, <1>4, <1>5, <1>6, <1>7, <1>9 DEF Weight

\* HashMap::remove of a present key credits exactly its size.
LEMMA WeightRemove ==
    ASSUME NEW f, Sizes(f), NEW x \in DOMAIN f
    PROVE  /\ Sizes(Without(f, {x}))
           /\ f[x] \in 0 .. Weight(f)
           /\ Weight(Without(f, {x})) = Weight(f) - f[x]
<1>1. f[x] \in Nat
  BY DEF Sizes
<1>2. Units(Only(f, {x})) = {x} \X (1 .. f[x])
  BY DEF Units, Only
<1>3. Weight(Only(f, {x})) = f[x]
  BY <1>1, <1>2, KeyUnits DEF Weight
<1>4. QED
  BY <1>3, WeightWithout

\* HashMap::insert over a present key trades its old size for the new one.
LEMMA WeightReplace ==
    ASSUME NEW f, Sizes(f), NEW x \in DOMAIN f, NEW n \in Nat
    PROVE  /\ Sizes(Put(f, x, n))
           /\ f[x] \in 0 .. Weight(f)
           /\ Weight(Put(f, x, n)) = (Weight(f) - f[x]) + n
<1>1. Put(f, x, n) = Put(Without(f, {x}), x, n)
  BY DEF Put, Without
<1>2. x \notin DOMAIN Without(f, {x})
  BY DEF Without
<1>3. QED
  BY <1>1, <1>2, WeightRemove, WeightPutFresh

\* Inserting or replacing, whichever it is.
LEMMA WeightPut ==
    ASSUME NEW f, Sizes(f), NEW x, NEW n \in Nat,
           NEW old, old = IF x \in DOMAIN f THEN f[x] ELSE 0
    PROVE  /\ Sizes(Put(f, x, n))
           /\ old \in 0 .. Weight(f)
           /\ Weight(Put(f, x, n)) = (Weight(f) - old) + n
<1>1. Weight(f) \in Nat
  BY UnitsFinite
<1>2. CASE x \in DOMAIN f
  BY <1>2, WeightReplace
<1>3. CASE x \notin DOMAIN f
  BY <1>1, <1>3, WeightPutFresh
<1>4. QED
  BY <1>2, <1>3

LedgerInv ==
    /\ TypeOK
    /\ ObjectAccounting
    /\ ObjectsWithinQuota
    /\ ReservationsBalanced
    /\ PendingCharged

-----------------------------------------------------------------------------
(* Finite maps.                                                            *)

\* Putting, removing and widening keep a map a finite one.
LEMMA MapPut ==
    ASSUME NEW f, NEW K, NEW V, IsMap(f, K, V), NEW k \in K, NEW v \in V
    PROVE  IsMap(Put(f, k, v), K, V)
BY FS_AddElement DEF IsMap, Put

\* A map without some of its keys is one.
LEMMA MapWithout ==
    ASSUME NEW f, NEW K, NEW V, IsMap(f, K, V), NEW S
    PROVE  IsMap(Without(f, S), K, V)
BY FS_Difference DEF IsMap, Without

\* A map is one over more keys and values.
LEMMA MapGrows ==
    ASSUME NEW f, NEW K, NEW V, IsMap(f, K, V),
           NEW L, NEW W, K \subseteq L, V \subseteq W
    PROVE  IsMap(f, L, W)
BY DEF IsMap

\* Object ids of the future are ids too.
LEMMA IdsGrow ==
    ASSUME NEW m \in Nat, NEW n \in Nat, m <= n
    PROVE  1 .. m - 1 \subseteq 1 .. n - 1
OBVIOUS

\* Every map the ledger sums has finitely many keys and natural sizes.
LEMMA LedgerSizes ==
    ASSUME TypeOK
    PROVE  /\ Sizes(RecordBytes) /\ Sizes(ScratchBytes) /\ Sizes(cache)
           /\ Sizes(mutation_operations) /\ Sizes(ReservationBytes)
BY SizesAssumption
   DEF TypeOK, IsMap, Sizes, RecordBytes, ScratchBytes, ReservationBytes

\* What the ledger weighs are natural numbers.
LEMMA LedgerWeights ==
    ASSUME TypeOK
    PROVE  /\ Weight(RecordBytes) \in Nat /\ Weight(ScratchBytes) \in Nat
           /\ Weight(cache) \in Nat /\ Weight(mutation_operations) \in Nat
           /\ Weight(ReservationBytes) \in Nat
BY LedgerSizes, UnitsFinite

\* What yielding the entries E of the cache leaves of used_bytes.
LEMMA Yielding ==
    ASSUME TypeOK, ObjectAccounting, NEW E \in SUBSET DOMAIN cache
    PROVE  /\ UsedWithout(E) \in Nat
           /\ UsedWithout(E) = snapshot_bytes + Weight(RecordBytes)
                + Weight(ScratchBytes) + Weight(Without(cache, E))
                + Weight(mutation_operations)
           /\ Weight(Without(cache, E)) \in Nat
           /\ Weight(Without(cache, E)) <= Weight(cache)
           /\ IsMap(Without(cache, E), CacheKey, EntryBytes)
           /\ Cardinality(DOMAIN Without(cache, E)) \in Nat
           /\ DOMAIN Without(cache, E) = DOMAIN cache \ E
<1>1. /\ Weight(Only(cache, E)) \in 0 .. Weight(cache)
      /\ Weight(Without(cache, E)) = Weight(cache) - Weight(Only(cache, E))
  BY LedgerSizes, WeightWithout
<1>2. IsMap(Without(cache, E), CacheKey, EntryBytes)
  BY MapWithout DEF TypeOK
<1>3. Cardinality(DOMAIN Without(cache, E)) \in Nat
  BY <1>2, FS_CardinalityType DEF IsMap
<1>4. DOMAIN Without(cache, E) = DOMAIN cache \ E
  BY DEF Without
<1>5. used_bytes \in Nat /\ snapshot_bytes \in Nat
  BY DEF TypeOK
<1>6. QED
  BY <1>1, <1>2, <1>3, <1>4, <1>5, LedgerWeights
     DEF UsedWithout, ObjectAccounting, ObjectBytes

\* Displayed lines cost a natural number of bytes.
LEMMA RangesBytesType ==
    ASSUME NEW lines \in SUBSET Line
    PROVE  RangesBytes(lines) \in Nat
<1> DEFINE starts == {l \in lines : l - 1 \notin lines}
<1>1. IsFiniteSet(starts)
  BY FS_Subset, SizesAssumption
<1>2. Runs(lines) \in Nat
  BY <1>1, FS_CardinalityType DEF Runs
<1>3. QED
  BY <1>2, SizesAssumption DEF RangesBytes

\* A prepared update carries a natural counter.
LEMMA UpdateTyped ==
    ASSUME TypeOK, NEW key \in Snapshot \cup {None}, NEW lines \in SUBSET Line,
           Preparable(key)
    PROVE  Update(key, lines) \in UpdateType
<1>1. snapshot_bytes \in Nat /\ KeyBytes \in Nat
  BY SizesAssumption DEF TypeOK
<1>2. Displayed(key) \in SUBSET Line
  BY DEF TypeOK, IsMap, Displayed
<1>3. /\ RangesBytes(Displayed(key)) \in Nat
      /\ RangesBytes(Displayed(key) \cup lines) \in Nat
  BY <1>2, RangesBytesType
<1>4. CASE key = None
  BY <1>1, <1>4 DEF Update, UpdateType
<1>5. CASE key # None
  <2>1. RangesBytes(Displayed(key)) <= snapshot_bytes
    BY <1>5 DEF Preparable
  <2>2. snapshot_bytes - RangesBytes(Displayed(key))
          + (IF key \in DOMAIN snapshots THEN 0 ELSE KeyBytes)
          + RangesBytes(Displayed(key) \cup lines) \in Nat
    BY <2>1, <1>1, <1>3
  <2>3. QED
    BY <2>2, <1>2, <1>5 DEF Update, UpdateType
<1>6. QED
  BY <1>4, <1>5

\* Applying an update keeps the snapshots well formed.
LEMMA ApplyTyped ==
    ASSUME TypeOK, NEW u \in UpdateType, ApplyUpdate(u)
    PROVE  /\ snapshot_bytes' \in Nat
           /\ IsMap(snapshots', Snapshot, SUBSET Line)
<1>1. snapshot_bytes' \in Nat
  BY DEF ApplyUpdate, UpdateType
<1>2. CASE u.key = None
  BY <1>1, <1>2 DEF ApplyUpdate, TypeOK
<1>3. CASE u.key # None
  <2>1. u.key \in Snapshot /\ u.lines \in SUBSET Line
    BY <1>3 DEF UpdateType
  <2>2. IsMap(Put(snapshots, u.key, u.lines), Snapshot, SUBSET Line)
    BY <2>1, MapPut DEF TypeOK
  <2>3. QED
    BY <2>2, <1>1, <1>3 DEF ApplyUpdate
<1>4. QED
  BY <1>1, <1>2, <1>3

\* Maps that do not move keep what they weigh.
LEMMA FrameRecords ==
    ASSUME records' = records PROVE Weight(RecordBytes)' = Weight(RecordBytes)
BY DEF RecordBytes

\* Scratch that is left alone weighs what it did.
LEMMA FrameScratch ==
    ASSUME scratch' = scratch
    PROVE  Weight(ScratchBytes)' = Weight(ScratchBytes)
BY DEF ScratchBytes

\* Reservations that are left alone stay balanced.
LEMMA FrameReservations ==
    ASSUME UNCHANGED reserved, ReservationsBalanced
    PROVE  ReservationsBalanced'
BY DEF reserved, ReservationsBalanced, ReservationBytes

\* While no call is suspended there is nothing pending to keep.
LEMMA NothingPending ==
    ASSUME admission' = Free PROVE PendingCharged'
BY DEF PendingCharged, Free

-----------------------------------------------------------------------------
(* The steps.                                                              *)

\* Ending the session touches no account.
LEMMA InvalidateKeeps ==
    ASSUME LedgerInv, Invalidate PROVE LedgerInv'
<1> USE DEF LedgerInv, Invalidate, objects, caching, seen, reserved
<1>1. TypeOK'
  BY DEF TypeOK, AdmissionType
<1>2. ObjectBytes' = ObjectBytes
  BY DEF ObjectBytes, RecordBytes, ScratchBytes
<1>3. ObjectAccounting' /\ ObjectsWithinQuota'
  BY <1>2 DEF ObjectAccounting, ObjectsWithinQuota
<1>4. ReservationsBalanced'
  BY FrameReservations
<1>5. PendingCharged'
  BY <1>2 DEF PendingCharged, ScratchSize
<1>6. QED
  BY <1>1, <1>3, <1>4, <1>5

\* Steps that only charge a snapshot: retain of known content, record_seen.
LEMMA SnapshotChargeKeeps ==
    ASSUME LedgerInv, NEW update \in UpdateType, admission = Free,
           CombinedFits({}, update.next, 0),
           used_bytes' = Combined({}, update.next, 0),
           ApplyUpdate(update),
           UNCHANGED <<control, admission, next_object_id, objects, caching,
                       reserved, mutation_operations>>
    PROVE  LedgerInv'
<1> USE DEF LedgerInv, objects, caching, reserved, control
<1>1. UsedWithout({}) = used_bytes
  <2>1. Only(cache, {}) = << >>
    BY DEF Only
  <2>2. Weight(Only(cache, {})) = 0
    BY <2>1, WeightEmpty
  <2>3. QED
    BY <2>2 DEF UsedWithout, TypeOK
<1>2. /\ used_bytes \in Nat /\ snapshot_bytes \in Nat /\ update.next \in Nat
      /\ snapshot_bytes <= used_bytes
  BY <1>1 DEF TypeOK, UpdateType, CombinedFits
<1>3. used_bytes' = (used_bytes - snapshot_bytes) + update.next
  BY <1>1, <1>2 DEF Combined
<1>4. TypeOK'
  <2>1. snapshot_bytes' \in Nat /\ IsMap(snapshots', Snapshot, SUBSET Line)
    BY ApplyTyped
  <2>2. used_bytes' \in Nat
    BY <1>2, <1>3
  <2>3. QED
    BY <2>1, <2>2 DEF TypeOK, AdmissionType
<1>5. ObjectBytes' = ObjectBytes
  BY FrameRecords, FrameScratch DEF ObjectBytes
<1>6. ObjectBytes \in Nat
  BY LedgerWeights DEF ObjectBytes
<1>7. ObjectAccounting'
  BY <1>2, <1>3, <1>5, <1>6 DEF ObjectAccounting, ApplyUpdate
<1>8. ObjectsWithinQuota'
  BY <1>5 DEF ObjectsWithinQuota
<1>9. QED
  BY <1>4, <1>7, <1>8, FrameReservations, NothingPending

\* A duplicate is charged for its lines alone.
LEMMA RetainReuseKeeps ==
    ASSUME LedgerInv, NEW content \in Content, NEW s \in Seen,
           RetainReuse(content, s[1], s[2])
    PROVE  LedgerInv'
<1>1. s[1] \in Snapshot \cup {None} /\ s[2] \in SUBSET Line
  BY DEF Seen, Shown
<1>2. Update(s[1], s[2]) \in UpdateType
  BY <1>1, UpdateTyped DEF LedgerInv, RetainReuse, Retainable
<1>3. QED
  BY <1>2, SnapshotChargeKeeps
     DEF RetainReuse, Retainable, Live

\* Displayed lines are charged as the snapshot counter grows.
LEMMA RecordSeenKeeps ==
    ASSUME LedgerInv, NEW key \in Snapshot, NEW lines \in Shown,
           RecordSeen(key, lines)
    PROVE  LedgerInv'
<1>1. Update(key, lines) \in UpdateType
  BY UpdateTyped DEF LedgerInv, RecordSeen, RecordSeenFits, Shown
<1>2. QED
  BY <1>1, SnapshotChargeKeeps DEF RecordSeen, RecordSeenFits, Live

\* The older relation stays among the entries the cache keeps.
LEMMA ReleaseTyped ==
    ASSUME TypeOK, NEW E \in SUBSET DOMAIN cache, ReleaseCache(E)
    PROVE  /\ IsMap(cache', CacheKey, EntryBytes)
           /\ older' \subseteq (DOMAIN cache') \X (DOMAIN cache')
<1>1. IsMap(cache', CacheKey, EntryBytes)
  BY MapWithout DEF TypeOK, ReleaseCache
<1>2. older' \subseteq (DOMAIN cache') \X (DOMAIN cache')
  BY DEF TypeOK, ReleaseCache, Without
<1>3. QED
  BY <1>1, <1>2

\* Steps that only evict: refused admissions and explicit cache removal.
LEMMA EvictionKeeps ==
    ASSUME LedgerInv, NEW E \in SUBSET DOMAIN cache, admission = Free,
           ReleaseCache(E), used_bytes' = UsedWithout(E),
           active' \in BOOLEAN, late' \in 0 .. MaxLate,
           UNCHANGED <<admission, next_object_id, objects, seen, reserved,
                       mutation_operations>>
    PROVE  LedgerInv'
<1> USE DEF LedgerInv, objects, seen, reserved
<1>1. /\ UsedWithout(E) \in Nat
      /\ UsedWithout(E) = snapshot_bytes + Weight(RecordBytes)
           + Weight(ScratchBytes) + Weight(Without(cache, E))
           + Weight(mutation_operations)
      /\ Weight(Without(cache, E)) \in Nat
      /\ Weight(Without(cache, E)) <= Weight(cache)
  BY Yielding
<1>2. cache' = Without(cache, E)
  BY DEF ReleaseCache
<1>3. TypeOK'
  BY <1>1, ReleaseTyped DEF TypeOK, AdmissionType
<1>4. ObjectBytes' = Weight(RecordBytes) + Weight(ScratchBytes)
                       + Weight(Without(cache, E)) + Weight(mutation_operations)
  BY <1>2, FrameRecords, FrameScratch DEF ObjectBytes
<1>5. ObjectAccounting'
  <2>1. used_bytes' = UsedWithout(E) /\ snapshot_bytes' = snapshot_bytes
    OBVIOUS
  <2>2. snapshot_bytes \in Nat
    BY DEF TypeOK
  <2>3. /\ Weight(RecordBytes) \in Nat
        /\ Weight(ScratchBytes) \in Nat
        /\ Weight(mutation_operations) \in Nat
    BY LedgerWeights
  <2>4. snapshot_bytes + ObjectBytes' = UsedWithout(E)
    BY <1>1, <1>4, <2>2, <2>3
  <2>5. QED
    BY <2>1, <2>4 DEF ObjectAccounting
<1>6. ObjectsWithinQuota'
  BY <1>1, <1>4, LedgerWeights, LimitsAssumption
     DEF ObjectsWithinQuota, ObjectBytes
<1>7. QED
  BY <1>3, <1>5, <1>6, FrameReservations, NothingPending

\* A late caller that leaves the queue is counted once.
LEMMA QueueTyped ==
    ASSUME TypeOK, Admitted, LeaveQueue PROVE late' \in 0 .. MaxLate
BY LimitsAssumption DEF TypeOK, Admitted, LeaveQueue

\* A refused artifact has cost the cache what it evicted, and nothing else.
LEMMA RetainRefusedKeeps ==
    ASSUME LedgerInv, NEW content \in Content, NEW s \in Seen,
           RetainRefused(content, s[1], s[2])
    PROVE  LedgerInv'
BY EvictionKeeps
   DEF RetainRefused, Retainable, Live, LedgerInv, TypeOK, control

\* So has a refused scratch entry.
LEMMA ScratchPutRefusedKeeps ==
    ASSUME LedgerInv, NEW name \in Name, NEW content \in Content,
           ScratchPutRefused(name, content)
    PROVE  LedgerInv'
BY EvictionKeeps DEF ScratchPutRefused, Live, LedgerInv, TypeOK, control

\* What the cache gives up is credited.
LEMMA CacheRemoveKeeps ==
    ASSUME LedgerInv, NEW E, CacheRemove(E) PROVE LedgerInv'
BY EvictionKeeps, QueueTyped DEF CacheRemove, Admitted, LedgerInv, TypeOK

\* Taking the next object id keeps every map over ids well formed.
LEMMA IdsTyped ==
    ASSUME TypeOK, UNCHANGED objects,
           next_object_id' = next_object_id \/ next_object_id' = next_object_id + 1
    PROVE  /\ next_object_id' \in Nat \ {0}
           /\ IsMap(records', 1 .. next_object_id' - 1, Content)
           /\ IsMap(scratch', Name, [id : 1 .. next_object_id' - 1,
                                     content : Content])
           /\ IsMap(disk', 1 .. next_object_id' - 1, Content)
<1> USE DEF objects
<1>1. next_object_id \in Nat \ {0} /\ next_object_id' \in Nat \ {0}
  BY DEF TypeOK
<1>2. 1 .. next_object_id - 1 \subseteq 1 .. next_object_id' - 1
  <2>1. next_object_id <= next_object_id'
    BY <1>1
  <2>2. QED
    BY <1>1, <2>1, IdsGrow
<1>3. [id : 1 .. next_object_id - 1, content : Content]
        \subseteq [id : 1 .. next_object_id' - 1, content : Content]
  BY <1>2
<1>4. QED
  BY <1>1, <1>2, <1>3, MapGrows DEF TypeOK

\* What a step that evicts E and suspends a call leaves.
LEMMA SuspendKeeps ==
    ASSUME LedgerInv, NEW E \in SUBSET DOMAIN cache, admission = Free,
           ReleaseCache(E), used_bytes' = UsedWithout(E),
           admission' \in AdmissionType',
           next_object_id' = next_object_id \/ next_object_id' = next_object_id + 1,
           UNCHANGED <<control, objects, seen, reserved, mutation_operations>>
    PROVE  /\ TypeOK' /\ ObjectAccounting' /\ ObjectsWithinQuota'
           /\ ReservationsBalanced'
           /\ ObjectBytes' \in Nat
           /\ UsedWithout(E) = snapshot_bytes + ObjectBytes'
<1> USE DEF LedgerInv, seen, reserved, control
<1>1. /\ UsedWithout(E) \in Nat
      /\ UsedWithout(E) = snapshot_bytes + Weight(RecordBytes)
           + Weight(ScratchBytes) + Weight(Without(cache, E))
           + Weight(mutation_operations)
      /\ Weight(Without(cache, E)) \in Nat
      /\ Weight(Without(cache, E)) <= Weight(cache)
  BY Yielding
<1>2. cache' = Without(cache, E)
  BY DEF ReleaseCache
<1>3. TypeOK'
  BY <1>1, ReleaseTyped, IdsTyped DEF TypeOK, AdmissionType
<1>4. ObjectBytes' = Weight(RecordBytes) + Weight(ScratchBytes)
                       + Weight(Without(cache, E)) + Weight(mutation_operations)
  BY <1>2, FrameRecords, FrameScratch DEF ObjectBytes, objects
<1>5. ObjectBytes' \in Nat /\ UsedWithout(E) = snapshot_bytes + ObjectBytes'
  <2>1. snapshot_bytes \in Nat
    BY DEF TypeOK
  <2>2. /\ Weight(RecordBytes) \in Nat /\ Weight(ScratchBytes) \in Nat
        /\ Weight(mutation_operations) \in Nat
    BY LedgerWeights
  <2> HIDE DEF LedgerInv
  <2>3. QED
    BY <1>1, <1>4, <2>1, <2>2
<1>6. ObjectAccounting'
  BY <1>5 DEF ObjectAccounting
<1>7. ObjectsWithinQuota'
  BY <1>1, <1>4, LedgerWeights, LimitsAssumption
     DEF ObjectsWithinQuota, ObjectBytes
<1>8. QED
  BY <1>3, <1>5, <1>6, <1>7, FrameReservations

\* An artifact is charged before its bytes are stored.
LEMMA RetainBeginKeeps ==
    ASSUME LedgerInv, NEW content \in Content, NEW s \in Seen,
           RetainBegin(content, s[1], s[2])
    PROVE  LedgerInv'
<1> DEFINE update == Update(s[1], s[2])
<1>1. update \in UpdateType
  <2>1. s[1] \in Snapshot \cup {None} /\ s[2] \in SUBSET Line
    BY DEF Seen, Shown
  <2>2. QED
    BY <2>1, UpdateTyped DEF LedgerInv, RetainBegin, Retainable
<1> HIDE DEF update
<1>2. PICK E \in SUBSET DOMAIN cache :
        /\ ArtifactFits(E, content, update.next)
        /\ ReleaseCache(E)
        /\ used_bytes' = UsedWithout(E)
        /\ admission' = [op |-> "retain", id |-> next_object_id,
                         content |-> content, update |-> update,
                         bytes |-> Combined(E, update.next, SizeOf[content])]
  BY DEF RetainBegin, update
<1>3. /\ SizeOf[content] \in Nat /\ update.next \in Nat
      /\ snapshot_bytes \in Nat /\ reserved_snapshot_bytes \in Nat
      /\ SessionLimit \in Nat
  BY <1>1, SizesAssumption, LimitsAssumption DEF LedgerInv, TypeOK, UpdateType
<1>4. /\ snapshot_bytes <= UsedWithout(E)
      /\ (UsedWithout(E) - snapshot_bytes) + SizeOf[content] + update.next
           + reserved_snapshot_bytes <= SessionLimit
  BY <1>2 DEF ArtifactFits, CombinedFits, Combined
<1>5. UsedWithout(E) \in Nat
  BY Yielding DEF LedgerInv
<1>6. Combined(E, update.next, SizeOf[content]) \in Nat
  BY <1>3, <1>4, <1>5 DEF Combined
<1>7. admission' \in AdmissionType'
  <2>1. next_object_id \in Nat \ {0} /\ next_object_id' = next_object_id + 1
    BY DEF LedgerInv, TypeOK, RetainBegin
  <2>2. next_object_id \in 1 .. next_object_id' - 1
    BY <2>1
  <2>3. QED
    BY <1>1, <1>2, <1>6, <2>2 DEF AdmissionType
<1>8. /\ TypeOK' /\ ObjectAccounting' /\ ObjectsWithinQuota'
      /\ ReservationsBalanced' /\ ObjectBytes' \in Nat
      /\ UsedWithout(E) = snapshot_bytes + ObjectBytes'
  BY <1>2, <1>7, SuspendKeeps DEF RetainBegin, Retainable, Live
<1>9. PendingCharged'
  <2>1. snapshot_bytes' = snapshot_bytes
    BY DEF RetainBegin, seen
  <2>2. ObjectBytes' + SizeOf[content] <= SessionLimit
    BY <1>3, <1>4, <1>5, <1>8
  <2>3. Combined(E, update.next, SizeOf[content])
          = (used_bytes' - snapshot_bytes) + SizeOf[content] + update.next
    BY <1>2, <1>3, <1>5 DEF Combined
  <2>4. QED
    BY <1>2, <2>1, <2>2, <2>3 DEF PendingCharged
<1>10. QED
  BY <1>8, <1>9 DEF LedgerInv

\* A suspended call is one of two kinds.
LEMMA Pending ==
    ASSUME TypeOK
    PROVE  /\ admission.op = "retain" =>
                /\ admission.id \in 1 .. next_object_id - 1
                /\ admission.content \in Content
                /\ admission.update \in UpdateType
                /\ admission.bytes \in Nat
           /\ admission.op = "scratch" =>
                /\ admission.id \in 1 .. next_object_id - 1
                /\ admission.name \in Name
                /\ admission.content \in Content
                /\ admission.bytes \in Nat
BY DEF TypeOK, AdmissionType, Free

\* The charge becomes that of the record.
LEMMA RetainPublishKeeps ==
    ASSUME LedgerInv, ObjectIdsDistinct, RetainPublish PROVE LedgerInv'
<1> USE DEF LedgerInv, RetainPublish, reserved, control, caching
<1> DEFINE id == admission.id
           size == SizeOf[admission.content]
           next == admission.update.next
<1>1. /\ id \in 1 .. next_object_id - 1 /\ admission.content \in Content
      /\ admission.update \in UpdateType /\ admission.bytes \in Nat
  BY Pending
<1>2. /\ size \in Nat /\ next \in Nat /\ snapshot_bytes \in Nat
      /\ used_bytes \in Nat
  BY <1>1, SizesAssumption DEF UpdateType, TypeOK
<1>3. /\ admission.bytes = (used_bytes - snapshot_bytes) + size + next
      /\ ObjectBytes + size <= SessionLimit
  BY DEF PendingCharged
<1>4. id \notin DOMAIN records
  BY DEF ObjectIdsDistinct
<1>5. RecordBytes' = Put(RecordBytes, id, size)
  BY <1>4 DEF RecordBytes, Put
<1>6. Weight(RecordBytes)' = Weight(RecordBytes) + size
  <2>1. Sizes(RecordBytes) /\ id \notin DOMAIN RecordBytes
    BY <1>4, LedgerSizes DEF RecordBytes
  <2>2. Weight(Put(RecordBytes, id, size)) = Weight(RecordBytes) + size
    BY <2>1, <1>2, WeightPutFresh
  <2>3. QED
    BY <1>5, <2>2
<1>7. ObjectBytes' = ObjectBytes + size /\ ObjectBytes \in Nat
  BY <1>2, <1>6, FrameScratch, LedgerWeights DEF ObjectBytes
<1>8. used_bytes' = admission.bytes /\ snapshot_bytes' = next
  BY DEF ApplyUpdate
<1>9. used_bytes = snapshot_bytes + ObjectBytes
  BY DEF ObjectAccounting
<1>10. TypeOK'
  <2>1. snapshot_bytes' \in Nat /\ IsMap(snapshots', Snapshot, SUBSET Line)
    BY <1>1, ApplyTyped
  <2>2. /\ IsMap(records', 1 .. next_object_id - 1, Content)
        /\ IsMap(disk', 1 .. next_object_id - 1, Content)
    BY <1>1, MapPut DEF TypeOK
  <2>3. QED
    BY <1>1, <2>1, <2>2 DEF TypeOK, AdmissionType
<1>11. ObjectAccounting' /\ ObjectsWithinQuota'
  <2> HIDE DEF LedgerInv, RetainPublish
  <2>1. QED
    BY <1>2, <1>3, <1>7, <1>8, <1>9 DEF ObjectAccounting, ObjectsWithinQuota
<1>12. QED
  BY <1>10, <1>11, FrameReservations, NothingPending

\* Or it is given back.
LEMMA RetainAbandonKeeps ==
    ASSUME LedgerInv, RetainAbandon PROVE LedgerInv'
<1> USE DEF LedgerInv, RetainAbandon, reserved, control, caching, seen
<1>1. IsMap(disk', 1 .. next_object_id - 1, Content)
  <2>1. /\ admission.id \in 1 .. next_object_id - 1
        /\ admission.content \in Content
    BY Pending
  <2>2. IsMap(Put(disk, admission.id, admission.content),
              1 .. next_object_id - 1, Content)
    BY <2>1, MapPut DEF TypeOK
  <2>3. QED
    BY <2>2 DEF TypeOK
<1>2. TypeOK'
  BY <1>1 DEF TypeOK, AdmissionType
<1>3. ObjectBytes' = ObjectBytes
  BY FrameRecords, FrameScratch DEF ObjectBytes
<1>4. ObjectAccounting' /\ ObjectsWithinQuota'
  BY <1>3 DEF ObjectAccounting, ObjectsWithinQuota
<1>5. QED
  BY <1>2, <1>4, FrameReservations, NothingPending

\* What an entry of a name weighs, if there is one.
LEMMA ScratchSizeType ==
    ASSUME TypeOK, NEW name
    PROVE  /\ ScratchSize(name) \in 0 .. Weight(ScratchBytes)
           /\ ScratchSize(name) = IF name \in DOMAIN ScratchBytes
                                  THEN ScratchBytes[name] ELSE 0
<1>1. ScratchSize(name) = IF name \in DOMAIN ScratchBytes
                          THEN ScratchBytes[name] ELSE 0
  BY DEF ScratchSize, ScratchBytes
<1>2. CASE name \in DOMAIN ScratchBytes
  BY <1>1, <1>2, LedgerSizes, WeightRemove
<1>3. CASE name \notin DOMAIN ScratchBytes
  BY <1>1, <1>3, LedgerWeights
<1>4. QED
  BY <1>1, <1>2, <1>3

\* An entry is charged for what it adds to the one it replaces.
LEMMA ScratchPutBeginKeeps ==
    ASSUME LedgerInv, NEW name \in Name, NEW content \in Content,
           ScratchPutBegin(name, content)
    PROVE  LedgerInv'
<1> DEFINE replaces == name \in DOMAIN scratch
           id == IF replaces THEN scratch[name].id ELSE next_object_id
           old == ScratchSize(name)
           size == SizeOf[content]
<1>1. PICK E \in SUBSET DOMAIN cache :
        /\ ScratchFits(E, name, content)
        /\ ReleaseCache(E)
        /\ used_bytes' = UsedWithout(E)
        /\ admission' = [op |-> "scratch", id |-> id, name |-> name,
                         content |-> content,
                         bytes |-> Resulting(E, old, size)]
  BY DEF ScratchPutBegin
<1>2. /\ size \in Nat /\ old \in 0 .. Weight(ScratchBytes)
      /\ reserved_snapshot_bytes \in Nat /\ SessionLimit \in Nat
      /\ snapshot_bytes \in Nat
  BY SizesAssumption, LimitsAssumption, ScratchSizeType DEF LedgerInv, TypeOK
<1>3. /\ old <= UsedWithout(E)
      /\ (UsedWithout(E) - old) + size + reserved_snapshot_bytes
           <= SessionLimit
  BY <1>1 DEF ScratchFits, ResultingFits, Resulting
<1>4. UsedWithout(E) \in Nat
  BY Yielding DEF LedgerInv
<1>5. /\ admission = Free
      /\ UNCHANGED <<control, objects, seen, reserved, mutation_operations>>
      /\ next_object_id' = IF replaces THEN next_object_id
                           ELSE next_object_id + 1
  BY DEF ScratchPutBegin, Live
<1>6. admission' \in AdmissionType'
  <2>1. Resulting(E, old, size) \in Nat
    <3>1. old \in Nat
      BY <1>2, LedgerWeights DEF LedgerInv
    <3>2. QED
      BY <3>1, <1>2, <1>3, <1>4 DEF Resulting
  <2>2. next_object_id \in Nat \ {0}
    BY DEF LedgerInv, TypeOK
  <2>3. CASE replaces
    <3>1. scratch[name].id \in 1 .. next_object_id - 1
      BY <2>3 DEF LedgerInv, TypeOK, IsMap
    <3>2. QED
      BY <1>1, <1>5, <2>1, <2>3, <3>1 DEF AdmissionType
  <2>4. CASE ~replaces
    <3>1. next_object_id \in 1 .. next_object_id' - 1
      BY <1>5, <2>2, <2>4
    <3>2. QED
      BY <1>1, <2>1, <2>4, <3>1 DEF AdmissionType
  <2>5. QED
    BY <2>3, <2>4
<1>7. /\ TypeOK' /\ ObjectAccounting' /\ ObjectsWithinQuota'
      /\ ReservationsBalanced' /\ ObjectBytes' \in Nat
      /\ UsedWithout(E) = snapshot_bytes + ObjectBytes'
  BY <1>1, <1>5, <1>6, SuspendKeeps
<1>8. PendingCharged'
  <2>1. ScratchSize(name)' = old
    BY <1>5 DEF objects, ScratchSize
  <2>2. (ObjectBytes' - old) + size <= SessionLimit
    <3>1. old \in Nat
      BY <1>2, LedgerWeights DEF LedgerInv
    <3>2. QED
      BY <3>1, <1>2, <1>3, <1>7
  <2>3. Resulting(E, old, size) = (used_bytes' - old) + size
    BY <1>1 DEF Resulting
  <2>4. QED
    BY <1>1, <2>1, <2>2, <2>3 DEF PendingCharged, ScratchSize
<1>9. QED
  BY <1>7, <1>8 DEF LedgerInv

\* The charge becomes that of the entry.
LEMMA ScratchPutPublishKeeps ==
    ASSUME LedgerInv, ScratchPutPublish PROVE LedgerInv'
<1> USE DEF LedgerInv, ScratchPutPublish, reserved, control, caching, seen
<1> DEFINE name == admission.name
           size == SizeOf[admission.content]
           old == ScratchSize(name)
<1>1. /\ admission.id \in 1 .. next_object_id - 1 /\ name \in Name
      /\ admission.content \in Content /\ admission.bytes \in Nat
  BY Pending
<1>2. /\ size \in Nat /\ snapshot_bytes \in Nat /\ used_bytes \in Nat
      /\ old \in 0 .. Weight(ScratchBytes)
      /\ old = IF name \in DOMAIN ScratchBytes THEN ScratchBytes[name] ELSE 0
  BY <1>1, SizesAssumption, ScratchSizeType DEF TypeOK
<1>3. /\ admission.bytes = (used_bytes - old) + size
      /\ (ObjectBytes - old) + size <= SessionLimit
  BY DEF PendingCharged
<1>4. ScratchBytes' = Put(ScratchBytes, name, size)
  BY DEF ScratchBytes, Put
<1>5. Weight(ScratchBytes)' = (Weight(ScratchBytes) - old) + size
  <2>1. Weight(Put(ScratchBytes, name, size))
          = (Weight(ScratchBytes) - old) + size
    BY <1>2, LedgerSizes, WeightPut
  <2>2. QED
    BY <1>4, <2>1
<1>6. ObjectBytes' = (ObjectBytes - old) + size
      /\ ObjectBytes \in Nat /\ old \in 0 .. ObjectBytes
  <2>1. /\ Weight(RecordBytes)' = Weight(RecordBytes)
        /\ cache' = cache /\ mutation_operations' = mutation_operations
    BY FrameRecords
  <2> HIDE DEF LedgerInv, ScratchPutPublish
  <2>2. QED
    BY <2>1, <1>2, <1>5, LedgerWeights DEF LedgerInv, ObjectBytes
<1>7. used_bytes = snapshot_bytes + ObjectBytes
  BY DEF ObjectAccounting
<1>8. TypeOK'
  <2>1. [id |-> admission.id, content |-> admission.content]
          \in [id : 1 .. next_object_id - 1, content : Content]
    BY <1>1
  <2>2. /\ IsMap(scratch', Name, [id : 1 .. next_object_id - 1,
                                  content : Content])
        /\ IsMap(disk', 1 .. next_object_id - 1, Content)
    BY <1>1, <2>1, MapPut DEF TypeOK
  <2>3. QED
    BY <1>1, <2>2 DEF TypeOK, AdmissionType
<1>9. ObjectAccounting' /\ ObjectsWithinQuota'
  <2>1. used_bytes' = admission.bytes /\ snapshot_bytes' = snapshot_bytes
    OBVIOUS
  <2> HIDE DEF LedgerInv, ScratchPutPublish
  <2>2. QED
    BY <2>1, <1>2, <1>3, <1>6, <1>7 DEF ObjectAccounting, ObjectsWithinQuota
<1>10. QED
  BY <1>8, <1>9, FrameReservations, NothingPending

\* Or it is given back, and the old entry stays.
LEMMA ScratchPutFailedKeeps ==
    ASSUME LedgerInv, ScratchPutFailed PROVE LedgerInv'
<1> USE DEF LedgerInv, ScratchPutFailed, reserved, control, caching, seen
<1>1. IsMap(disk', 1 .. next_object_id - 1, Content)
  <2>1. /\ admission.id \in 1 .. next_object_id - 1
        /\ admission.content \in Content
    BY Pending
  <2>2. /\ IsMap(disk, 1 .. next_object_id - 1, Content)
        /\ IsMap(Put(disk, admission.id, admission.content),
                 1 .. next_object_id - 1, Content)
        /\ IsMap(Without(disk, {admission.id}),
                 1 .. next_object_id - 1, Content)
    BY <2>1, MapPut, MapWithout DEF TypeOK
  <2>3. QED
    BY <2>2
<1>2. TypeOK'
  BY <1>1 DEF TypeOK, AdmissionType
<1>3. ObjectBytes' = ObjectBytes
  BY FrameRecords, FrameScratch DEF ObjectBytes
<1>4. ObjectAccounting' /\ ObjectsWithinQuota'
  BY <1>3 DEF ObjectAccounting, ObjectsWithinQuota
<1>5. QED
  BY <1>2, <1>4, FrameReservations, NothingPending

\* A removed entry is credited.
LEMMA ScratchRemoveKeeps ==
    ASSUME LedgerInv, NEW name \in Name, ScratchRemove(name)
    PROVE  LedgerInv'
<1> USE DEF LedgerInv, ScratchRemove, Admitted, reserved, caching, seen
<1> DEFINE old == ScratchSize(name)
<1>1. /\ snapshot_bytes \in Nat /\ used_bytes \in Nat
      /\ old \in 0 .. Weight(ScratchBytes)
      /\ name \in DOMAIN ScratchBytes /\ old = ScratchBytes[name]
  BY ScratchSizeType DEF TypeOK, ScratchBytes
<1>2. ScratchBytes' = Without(ScratchBytes, {name})
  BY DEF ScratchBytes, Without
<1>3. Weight(ScratchBytes)' = Weight(ScratchBytes) - old
  BY <1>1, <1>2, LedgerSizes, WeightRemove
<1>4. ObjectBytes' = ObjectBytes - old
      /\ ObjectBytes \in Nat /\ old \in 0 .. ObjectBytes
  <2>1. /\ Weight(RecordBytes)' = Weight(RecordBytes)
        /\ cache' = cache /\ mutation_operations' = mutation_operations
    BY FrameRecords
  <2> HIDE DEF LedgerInv, ScratchRemove
  <2>2. QED
    BY <2>1, <1>1, <1>3, LedgerWeights DEF LedgerInv, ObjectBytes
<1>5. used_bytes = snapshot_bytes + ObjectBytes /\ ObjectBytes <= SessionLimit
  BY DEF ObjectAccounting, ObjectsWithinQuota
<1>6. TypeOK'
  <2>1. used_bytes' \in Nat
    BY <1>1, <1>4, <1>5
  <2>2. /\ IsMap(scratch', Name, [id : 1 .. next_object_id - 1,
                                  content : Content])
        /\ IsMap(disk', 1 .. next_object_id - 1, Content)
    BY MapWithout DEF TypeOK
  <2>3. late' \in 0 .. MaxLate
    BY QueueTyped
  <2>4. QED
    BY <2>1, <2>2, <2>3 DEF TypeOK, AdmissionType
<1>7. ObjectAccounting' /\ ObjectsWithinQuota'
  <2>1. used_bytes' = used_bytes - old /\ snapshot_bytes' = snapshot_bytes
    OBVIOUS
  <2> HIDE DEF LedgerInv, ScratchRemove
  <2>2. QED
    BY <2>1, <1>1, <1>4, <1>5, LimitsAssumption
       DEF ObjectAccounting, ObjectsWithinQuota
<1>8. QED
  BY <1>6, <1>7, FrameReservations, NothingPending

\* A rename moves the charge, and credits what was overwritten.
LEMMA ScratchRenameKeeps ==
    ASSUME LedgerInv, NEW from \in Name, NEW to \in Name,
           ScratchRename(from, to)
    PROVE  LedgerInv'
<1> USE DEF LedgerInv, ScratchRename, Admitted, reserved, caching, seen
<1> DEFINE rest == Without(ScratchBytes, {from})
           size == ScratchBytes[from]
<1>1. from \in DOMAIN ScratchBytes
  BY DEF ScratchBytes
<1>2. ScratchBytes' = Put(rest, to, size)
  BY DEF ScratchBytes, Put, Without
<1>3. to \notin DOMAIN rest
  BY DEF ScratchBytes, Without
<1>4. /\ Sizes(rest) /\ size \in 0 .. Weight(ScratchBytes)
      /\ Weight(rest) = Weight(ScratchBytes) - size
  BY <1>1, LedgerSizes, WeightRemove
<1>5. size \in Nat
  BY <1>1, LedgerSizes DEF Sizes
<1>6. Weight(Put(rest, to, size)) = Weight(rest) + size
  BY <1>3, <1>4, <1>5, WeightPutFresh
<1>7. Weight(ScratchBytes)' = Weight(ScratchBytes)
  BY <1>2, <1>4, <1>5, <1>6, LedgerWeights
<1>8. ObjectBytes' = ObjectBytes
  BY <1>7, FrameRecords DEF ObjectBytes
<1>9. TypeOK'
  <2>1. scratch[from] \in [id : 1 .. next_object_id - 1, content : Content]
    BY DEF TypeOK, IsMap
  <2>2. IsMap(scratch', Name, [id : 1 .. next_object_id - 1,
                               content : Content])
    BY <2>1, MapWithout, MapPut DEF TypeOK
  <2>3. late' \in 0 .. MaxLate
    BY QueueTyped
  <2>4. QED
    BY <2>2, <2>3 DEF TypeOK, AdmissionType
<1>10. ObjectAccounting' /\ ObjectsWithinQuota'
  BY <1>8 DEF ObjectAccounting, ObjectsWithinQuota
<1>11. QED
  BY <1>9, <1>10, FrameReservations, NothingPending

\* A hit changes the order of recency and no account.
LEMMA CacheGetKeeps ==
    ASSUME LedgerInv, NEW key \in CacheKey, CacheGet(key)
    PROVE  LedgerInv'
<1> USE DEF LedgerInv, CacheGet, Admitted, objects, reserved, seen
<1>1. older' \subseteq (DOMAIN cache) \X (DOMAIN cache)
  BY DEF TypeOK, Touched
<1>2. TypeOK'
  BY <1>1, QueueTyped DEF TypeOK, AdmissionType
<1>3. ObjectBytes' = ObjectBytes
  BY FrameRecords, FrameScratch DEF ObjectBytes
<1>4. ObjectAccounting' /\ ObjectsWithinQuota'
  BY <1>3 DEF ObjectAccounting, ObjectsWithinQuota
<1>5. QED
  BY <1>2, <1>4, FrameReservations, NothingPending

\* cache_put when the entry is admitted.
LEMMA CacheStoreKeeps ==
    ASSUME LedgerInv, NEW key \in CacheKey, NEW bytes \in EntryBytes,
           NEW E \in SUBSET (DOMAIN cache \ {key}),
           CacheFits(E, key, bytes),
           cache' = Put(Without(cache, E), key, bytes),
           older' = Touched(key, E),
           used_bytes' = Resulting(E, CachedBytes(key), bytes),
           Admitted, LeaveQueue,
           UNCHANGED <<active, admission, next_object_id, objects, seen,
                       reserved, mutation_operations>>
    PROVE  LedgerInv'
<1> USE DEF LedgerInv, Admitted, objects, reserved, seen
<1> DEFINE old == CachedBytes(key)
           kept == Without(cache, E)
<1>1. /\ UsedWithout(E) \in Nat
      /\ UsedWithout(E) = snapshot_bytes + Weight(RecordBytes)
           + Weight(ScratchBytes) + Weight(kept)
           + Weight(mutation_operations)
      /\ Weight(kept) \in Nat
      /\ IsMap(kept, CacheKey, EntryBytes)
  BY Yielding
<1>2. Sizes(kept)
  BY LedgerSizes, WeightWithout
<1>3. old = IF key \in DOMAIN kept THEN kept[key] ELSE 0
  BY DEF CachedBytes, Without
<1>4. bytes \in Nat
  BY SizesAssumption
<1>5. old \in 0 .. Weight(kept) /\ Weight(cache)' = (Weight(kept) - old) + bytes
  BY <1>2, <1>3, <1>4, WeightPut
<1>6. /\ old <= UsedWithout(E)
      /\ (UsedWithout(E) - old) + bytes + reserved_snapshot_bytes
           <= SessionLimit
      /\ used_bytes' = (UsedWithout(E) - old) + bytes
  BY DEF CacheFits, ResultingFits, Resulting
<1>7. /\ snapshot_bytes \in Nat /\ reserved_snapshot_bytes \in Nat
      /\ SessionLimit \in Nat
  BY LimitsAssumption DEF TypeOK
<1>8. ObjectBytes' = Weight(RecordBytes) + Weight(ScratchBytes)
                       + Weight(cache)' + Weight(mutation_operations)
  BY FrameRecords, FrameScratch DEF ObjectBytes
<1>9. TypeOK'
  <2>1. IsMap(cache', CacheKey, EntryBytes)
    BY <1>1, MapPut
  <2>2. older' \subseteq (DOMAIN cache') \X (DOMAIN cache')
    BY DEF TypeOK, Touched, Put, Without
  <2>3. used_bytes' \in Nat
    BY <1>1, <1>4, <1>5, <1>6
  <2>4. late' \in 0 .. MaxLate
    BY QueueTyped
  <2>5. QED
    BY <2>1, <2>2, <2>3, <2>4 DEF TypeOK, AdmissionType
<1>10. ObjectAccounting' /\ ObjectsWithinQuota'
  <2>1. snapshot_bytes' = snapshot_bytes
    OBVIOUS
  <2> HIDE DEF LedgerInv
  <2>2. QED
    BY <2>1, <1>1, <1>4, <1>5, <1>6, <1>7, <1>8, LedgerWeights
       DEF LedgerInv, ObjectAccounting, ObjectsWithinQuota
<1>11. QED
  BY <1>9, <1>10, FrameReservations, NothingPending

\* An entry replaces its predecessor's charge by its own.
LEMMA CachePutKeeps ==
    ASSUME LedgerInv, NEW key \in CacheKey, NEW bytes \in EntryBytes,
           CachePut(key, bytes)
    PROVE  LedgerInv'
<1>1. PICK E \in SUBSET (DOMAIN cache \ {key}) :
        IF CacheFits(E, key, bytes)
        THEN /\ cache' = Put(Without(cache, E), key, bytes)
             /\ older' = Touched(key, E)
             /\ used_bytes' = Resulting(E, CachedBytes(key), bytes)
        ELSE /\ ReleaseCache(E)
             /\ used_bytes' = UsedWithout(E)
  BY DEF CachePut
<1>2. /\ Admitted /\ LeaveQueue
      /\ UNCHANGED <<active, admission, next_object_id, objects, seen,
                     reserved, mutation_operations>>
  BY DEF CachePut
<1>3. CASE CacheFits(E, key, bytes)
  BY <1>1, <1>2, <1>3, CacheStoreKeeps
<1>4. CASE ~CacheFits(E, key, bytes)
  BY <1>1, <1>2, <1>4, EvictionKeeps, QueueTyped
     DEF Admitted, LedgerInv, TypeOK
<1>5. QED
  BY <1>3, <1>4

\* A journal entry is charged as it is made.
LEMMA BeginMutationOperationKeeps ==
    ASSUME LedgerInv, NEW operation \in Operation, NEW bytes \in OperationBytes,
           BeginMutationOperation(operation, bytes)
    PROVE  LedgerInv'
<1>1. PICK E \in SUBSET DOMAIN cache :
        /\ ReleaseCache(E)
        /\ IF ResultingFits(E, 0, bytes)
           THEN /\ used_bytes' = Resulting(E, 0, bytes)
                /\ mutation_operations' =
                     Put(mutation_operations, operation, bytes)
           ELSE /\ used_bytes' = UsedWithout(E)
                /\ mutation_operations' = mutation_operations
  BY DEF BeginMutationOperation
<1>2. /\ admission = Free /\ operation \notin DOMAIN mutation_operations
      /\ UNCHANGED <<control, admission, next_object_id, objects, seen,
                     reserved>>
  BY DEF BeginMutationOperation, Live
<1>3. CASE ~ResultingFits(E, 0, bytes)
  BY <1>1, <1>2, <1>3, EvictionKeeps DEF control, LedgerInv, TypeOK
<1>4. CASE ResultingFits(E, 0, bytes)
  <2> USE DEF LedgerInv, objects, reserved, seen, control
  <2>1. /\ UsedWithout(E) \in Nat
        /\ UsedWithout(E) = snapshot_bytes + Weight(RecordBytes)
             + Weight(ScratchBytes) + Weight(Without(cache, E))
             + Weight(mutation_operations)
        /\ Weight(Without(cache, E)) \in Nat
    BY Yielding
  <2>2. bytes \in Nat /\ snapshot_bytes \in Nat
        /\ reserved_snapshot_bytes \in Nat /\ SessionLimit \in Nat
    BY SizesAssumption, LimitsAssumption DEF TypeOK
  <2>3. /\ UsedWithout(E) + bytes + reserved_snapshot_bytes <= SessionLimit
        /\ used_bytes' = UsedWithout(E) + bytes
    BY <1>1, <1>4, <2>1, <2>2 DEF ResultingFits, Resulting
  <2>4. Weight(mutation_operations)' = Weight(mutation_operations) + bytes
    BY <1>1, <1>2, <1>4, <2>2, LedgerSizes, WeightPutFresh
  <2>5. cache' = Without(cache, E)
    BY <1>1 DEF ReleaseCache
  <2>6. ObjectBytes' = Weight(RecordBytes) + Weight(ScratchBytes)
          + Weight(Without(cache, E)) + Weight(mutation_operations)'
    BY <1>2, <2>5, FrameRecords, FrameScratch DEF ObjectBytes
  <2>7. TypeOK'
    <3>1. IsMap(mutation_operations', Operation, OperationBytes)
      BY <1>1, <1>4, MapPut DEF TypeOK
    <3>2. used_bytes' \in Nat
      BY <2>1, <2>2, <2>3
    <3>3. QED
      BY <1>1, <1>2, <3>1, <3>2, ReleaseTyped DEF TypeOK, AdmissionType
  <2>8. ObjectAccounting' /\ ObjectsWithinQuota'
    <3>1. snapshot_bytes' = snapshot_bytes
      BY <1>2
    <3> HIDE DEF LedgerInv
    <3>2. QED
      BY <3>1, <2>1, <2>2, <2>3, <2>4, <2>6, LedgerWeights
         DEF LedgerInv, ObjectAccounting, ObjectsWithinQuota
  <2>9. QED
    BY <1>2, <2>7, <2>8, FrameReservations, NothingPending
<1>5. QED
  BY <1>3, <1>4

\* A reservation is charged to the reserved counter alone.
LEMMA ReserveSeenKeeps ==
    ASSUME LedgerInv, NEW m \in Mutation, NEW key \in Snapshot,
           NEW lines \in Shown, ReserveSeen(m, key, lines)
    PROVE  LedgerInv'
<1> USE DEF LedgerInv, ReserveSeen, control, objects, caching, seen
<1> DEFINE bytes == ReservedBytes(key, lines)
           entry == [update |-> Update(key, lines), bytes |-> bytes]
<1>1. bytes \in Nat
  <2>1. RangesBytes(lines) \in Nat
    BY RangesBytesType DEF Shown
  <2>2. QED
    BY <2>1, SizesAssumption DEF ReservedBytes
<1>2. Update(key, lines) \in UpdateType
  BY UpdateTyped DEF Shown
<1>3. reservations' = Put(reservations, m, entry)
  OBVIOUS
<1>4. IsMap(reservations', Mutation, [update : UpdateType, bytes : Nat])
  <2>1. entry \in [update : UpdateType, bytes : Nat]
    BY <1>1, <1>2
  <2>2. IsMap(reservations, Mutation, [update : UpdateType, bytes : Nat])
    BY DEF TypeOK
  <2> HIDE DEF LedgerInv, ReserveSeen, entry
  <2>3. QED
    BY <1>3, <2>1, <2>2, MapPut
<1>5. reserved_snapshot_bytes' \in Nat
  BY <1>1 DEF TypeOK
<1>6. TypeOK'
  BY <1>4, <1>5 DEF TypeOK, AdmissionType
<1>7. ObjectBytes' = ObjectBytes
  BY FrameRecords, FrameScratch DEF ObjectBytes
<1>8. ObjectAccounting' /\ ObjectsWithinQuota'
  BY <1>7 DEF ObjectAccounting, ObjectsWithinQuota
<1>9. ReservationsBalanced'
  <2>1. ReservationBytes' = Put(ReservationBytes, m, bytes)
    BY <1>3 DEF ReservationBytes, Put
  <2>2. Sizes(ReservationBytes) /\ m \notin DOMAIN ReservationBytes
    BY LedgerSizes DEF ReservationBytes
  <2>3. Weight(Put(ReservationBytes, m, bytes))
          = Weight(ReservationBytes) + bytes
    BY <1>1, <2>2, WeightPutFresh
  <2>4. QED
    BY <2>1, <2>3 DEF ReservationsBalanced
<1>10. QED
  BY <1>6, <1>8, <1>9, NothingPending

\* Taking a reservation out credits exactly what it reserved.
LEMMA ReservationTaken ==
    ASSUME LedgerInv, NEW m \in DOMAIN reservations,
           reservations' = Without(reservations, {m}),
           reserved_snapshot_bytes' =
             reserved_snapshot_bytes - reservations[m].bytes
    PROVE  /\ reserved_snapshot_bytes' \in Nat
           /\ IsMap(reservations', Mutation,
                    [update : UpdateType, bytes : Nat])
           /\ ReservationsBalanced'
<1>1. IsMap(reservations', Mutation, [update : UpdateType, bytes : Nat])
  BY MapWithout DEF LedgerInv, TypeOK
<1>2. ReservationBytes' = Without(ReservationBytes, {m})
  BY DEF ReservationBytes, Without
<1>3. m \in DOMAIN ReservationBytes
      /\ ReservationBytes[m] = reservations[m].bytes
  BY DEF ReservationBytes
<1>4. /\ reservations[m].bytes \in 0 .. Weight(ReservationBytes)
      /\ Weight(Without(ReservationBytes, {m}))
           = Weight(ReservationBytes) - reservations[m].bytes
  BY <1>3, LedgerSizes, WeightRemove DEF LedgerInv
<1>5. reserved_snapshot_bytes = Weight(ReservationBytes)
      /\ Weight(ReservationBytes) \in Nat
  BY LedgerWeights DEF LedgerInv, ReservationsBalanced
<1>6. ReservationsBalanced'
  BY <1>2, <1>4, <1>5 DEF ReservationsBalanced
<1>7. QED
  BY <1>1, <1>4, <1>5, <1>6

\* A reservation that is published leaves the reserved counter.
LEMMA PublishSeenKeeps ==
    ASSUME LedgerInv, NEW m \in Mutation, PublishSeen(m) PROVE LedgerInv'
<1> USE DEF LedgerInv, PublishSeen, control, objects, caching
<1> DEFINE update == reservations[m].update
<1>1. update \in UpdateType
  BY DEF TypeOK, IsMap
<1>2. /\ reserved_snapshot_bytes' \in Nat
      /\ IsMap(reservations', Mutation, [update : UpdateType, bytes : Nat])
      /\ ReservationsBalanced'
  BY ReservationTaken
<1>3. snapshot_bytes' = update.next /\ update.next \in Nat
  BY <1>1 DEF ApplyUpdate, UpdateType
<1>4. ObjectBytes' = ObjectBytes /\ ObjectBytes \in Nat
  BY FrameRecords, FrameScratch, LedgerWeights DEF ObjectBytes
<1>5. /\ used_bytes = snapshot_bytes + ObjectBytes /\ snapshot_bytes \in Nat
      /\ used_bytes' = (used_bytes - snapshot_bytes) + update.next
  BY DEF ObjectAccounting, TypeOK
<1>6. used_bytes' = ObjectBytes + update.next
  BY <1>3, <1>4, <1>5
<1>7. TypeOK'
  <2>1. snapshot_bytes' \in Nat /\ IsMap(snapshots', Snapshot, SUBSET Line)
    BY <1>1, ApplyTyped
  <2>2. used_bytes' \in Nat
    BY <1>3, <1>4, <1>6
  <2>3. QED
    BY <1>2, <2>1, <2>2 DEF TypeOK, AdmissionType
<1>8. ObjectAccounting' /\ ObjectsWithinQuota'
  BY <1>3, <1>4, <1>6 DEF ObjectAccounting, ObjectsWithinQuota
<1>9. QED
  BY <1>2, <1>7, <1>8, NothingPending

\* So does one that is released.
LEMMA ReleaseSeenKeeps ==
    ASSUME LedgerInv, NEW m \in Mutation, ReleaseSeen(m) PROVE LedgerInv'
<1> USE DEF LedgerInv, ReleaseSeen, control, objects, caching, seen
<1>1. /\ reserved_snapshot_bytes' \in Nat
      /\ IsMap(reservations', Mutation, [update : UpdateType, bytes : Nat])
      /\ ReservationsBalanced'
  BY ReservationTaken
<1>2. TypeOK'
  BY <1>1 DEF TypeOK, AdmissionType
<1>3. ObjectBytes' = ObjectBytes
  BY FrameRecords, FrameScratch DEF ObjectBytes
<1>4. ObjectAccounting' /\ ObjectsWithinQuota'
  BY <1>3 DEF ObjectAccounting, ObjectsWithinQuota
<1>5. QED
  BY <1>1, <1>2, <1>4, NothingPending

\* Stuttering keeps the accounts.
LEMMA QuietKeeps ==
    ASSUME LedgerInv, UNCHANGED vars PROVE LedgerInv'
<1> USE DEF LedgerInv, vars, control, objects, caching, seen, reserved
<1>1. TypeOK'
  BY DEF TypeOK, AdmissionType
<1>2. ObjectBytes' = ObjectBytes
  BY FrameRecords, FrameScratch DEF ObjectBytes
<1>3. ObjectAccounting' /\ ObjectsWithinQuota'
  BY <1>2 DEF ObjectAccounting, ObjectsWithinQuota
<1>4. PendingCharged'
  BY <1>2 DEF PendingCharged, ScratchSize
<1>5. QED
  BY <1>1, <1>3, <1>4, FrameReservations

\* At first there is nothing to account for.
LEMMA LedgerInit == Init => LedgerInv
<1> SUFFICES ASSUME Init PROVE LedgerInv
  OBVIOUS
<1> USE DEF Init
<1>1. \A K, V : IsMap(<< >>, K, V)
  BY FS_EmptySet DEF IsMap
<1>2. TypeOK
  BY <1>1, LimitsAssumption DEF TypeOK, AdmissionType
<1>3. /\ Weight(RecordBytes) = 0 /\ Weight(ScratchBytes) = 0
      /\ Weight(cache) = 0 /\ Weight(mutation_operations) = 0
      /\ Weight(ReservationBytes) = 0
  <2>1. RecordBytes = << >> /\ ScratchBytes = << >> /\ ReservationBytes = << >>
    BY DEF RecordBytes, ScratchBytes, ReservationBytes
  <2>2. QED
    BY <2>1, WeightEmpty
<1>4. ObjectBytes = 0
  BY <1>3 DEF ObjectBytes
<1>5. ObjectAccounting /\ ObjectsWithinQuota
  BY <1>4, LimitsAssumption DEF ObjectAccounting, ObjectsWithinQuota
<1>6. ReservationsBalanced /\ PendingCharged
  BY <1>3 DEF ReservationsBalanced, PendingCharged, Free
<1>7. QED
  BY <1>2, <1>5, <1>6 DEF LedgerInv

\* One case per disjunct of Next.
LEMMA LedgerStep ==
    ASSUME LedgerInv, ObjectIdsDistinct, [Next]_vars PROVE LedgerInv'
<1>1. CASE Invalidate
  BY <1>1, InvalidateKeeps
<1>2. CASE Retain
  <2>1. PICK content \in Content, s \in Seen :
          \/ RetainReuse(content, s[1], s[2])
          \/ RetainRefused(content, s[1], s[2])
          \/ RetainBegin(content, s[1], s[2])
    BY <1>2 DEF Retain
  <2>2. QED
    BY <2>1, RetainReuseKeeps, RetainRefusedKeeps, RetainBeginKeeps
<1>3. CASE StorageAnswers
  BY <1>3, RetainPublishKeeps, RetainAbandonKeeps, ScratchPutPublishKeeps,
     ScratchPutFailedKeeps DEF StorageAnswers
<1>4. CASE Scratch
  BY <1>4, ScratchPutRefusedKeeps, ScratchPutBeginKeeps, ScratchRemoveKeeps,
     ScratchRenameKeeps DEF Scratch
<1>5. CASE Cache
  BY <1>5, CacheGetKeeps, CachePutKeeps, CacheRemoveKeeps DEF Cache
<1>6. CASE Journal
  BY <1>6, BeginMutationOperationKeeps DEF Journal
<1>7. CASE Snapshots
  BY <1>7, RecordSeenKeeps, ReserveSeenKeeps, PublishSeenKeeps,
     ReleaseSeenKeeps DEF Snapshots
<1>8. CASE UNCHANGED vars
  BY <1>8, QuietKeeps
<1>9. QED
  BY <1>1, <1>2, <1>3, <1>4, <1>5, <1>6, <1>7, <1>8 DEF Next

-----------------------------------------------------------------------------
(***************************************************************************)
(* Where objects live: ids, the shared object ceiling and deduplication.   *)
(* A call tests the ceiling and the digest index before its storage write  *)
(* and inserts after it, so PendingPlaced says that what it tested still   *)
(* holds; it does because the call keeps the admission lock.               *)
(***************************************************************************)
PlacedInv ==
    /\ ObjectIdsDistinct
    /\ ObjectCountWithinCeiling
    /\ ArtifactsStored
    /\ ArtifactsDeduplicated
    /\ PendingPlaced

\* What is counted is finite.
LEMMA Counts ==
    ASSUME TypeOK
    PROVE  /\ IsFiniteSet(DOMAIN records) /\ Cardinality(DOMAIN records) \in Nat
           /\ IsFiniteSet(DOMAIN scratch) /\ Cardinality(DOMAIN scratch) \in Nat
           /\ IsFiniteSet(DOMAIN cache) /\ Cardinality(DOMAIN cache) \in Nat
           /\ ObjectCount({}) = Cardinality(DOMAIN records)
                + Cardinality(DOMAIN scratch) + Cardinality(DOMAIN cache)
<1>1. /\ IsFiniteSet(DOMAIN records) /\ IsFiniteSet(DOMAIN scratch)
      /\ IsFiniteSet(DOMAIN cache)
  BY DEF TypeOK, IsMap
<1>2. DOMAIN cache \ {} = DOMAIN cache
  OBVIOUS
<1>3. QED
  BY <1>1, <1>2, FS_CardinalityType DEF ObjectCount

\* The count after a step whose cache keys are DOMAIN cache \ E.
LEMMA CountAfter ==
    ASSUME TypeOK, UNCHANGED <<records, scratch>>,
           NEW E \in SUBSET DOMAIN cache, DOMAIN cache' = DOMAIN cache \ E
    PROVE  /\ ObjectCount({})' = ObjectCount(E)
           /\ ObjectCount(E) <= ObjectCount({})
<1>1. DOMAIN cache' \ {} = DOMAIN cache \ E
  OBVIOUS
<1>2. ObjectCount({})' = ObjectCount(E)
  BY <1>1 DEF ObjectCount
<1>3. /\ Cardinality(DOMAIN cache \ E) <= Cardinality(DOMAIN cache)
      /\ Cardinality(DOMAIN cache \ E) \in Nat
  BY Counts, FS_Subset, FS_CardinalityType
<1>4. QED
  BY <1>2, <1>3, Counts DEF ObjectCount

\* Steps that neither place nor suspend an object.
LEMMA PlacedFrame ==
    ASSUME TypeOK, PlacedInv, UNCHANGED <<admission, records, scratch, disk>>,
           NEW E \in SUBSET DOMAIN cache, DOMAIN cache' = DOMAIN cache \ E
    PROVE  PlacedInv'
<1> USE DEF PlacedInv
<1>1. ObjectCount({})' <= ObjectCount({})
  BY CountAfter
<1>2. /\ ObjectCount({}) \in Nat /\ MaxArtifacts \in Nat
      /\ ObjectCount({})' \in Nat
  <2>1. Cardinality(DOMAIN cache \ E) \in Nat
    BY Counts, FS_Subset, FS_CardinalityType
  <2>2. QED
    BY <2>1, Counts, CountAfter, LimitsAssumption DEF ObjectCount
<1>3. ObjectIdsDistinct'
  BY DEF ObjectIdsDistinct, ScratchIds
<1>4. ObjectCountWithinCeiling'
  BY <1>1, <1>2 DEF ObjectCountWithinCeiling
<1>5. ArtifactsStored' /\ ArtifactsDeduplicated'
  BY DEF ArtifactsStored, ArtifactsDeduplicated
<1>6. PendingPlaced'
  <2>1. ObjectCount({}) < MaxArtifacts => ObjectCount({})' < MaxArtifacts
    BY <1>1, <1>2
  <2>2. ScratchIds' = ScratchIds
    BY DEF ScratchIds
  <2>3. QED
    BY <2>1, <2>2 DEF PendingPlaced
<1>7. QED
  BY <1>3, <1>4, <1>5, <1>6

\* The special case of a step that leaves the cached keys alone.
LEMMA PlacedFrameAll ==
    ASSUME TypeOK, PlacedInv, UNCHANGED <<admission, records, scratch, disk>>,
           DOMAIN cache' = DOMAIN cache
    PROVE  PlacedInv'
<1>1. {} \in SUBSET DOMAIN cache /\ DOMAIN cache' = DOMAIN cache \ {}
  OBVIOUS
<1>2. QED
  BY <1>1, PlacedFrame

\* The cache loses the keys that are released.
LEMMA ReleasedKeys ==
    ASSUME NEW E, ReleaseCache(E) PROVE DOMAIN cache' = DOMAIN cache \ E
BY DEF ReleaseCache, Without

\* A fresh id is nobody's.
LEMMA NextIdFresh ==
    ASSUME TypeOK
    PROVE  next_object_id \notin DOMAIN records /\ next_object_id \notin ScratchIds
<1>1. next_object_id \notin 1 .. next_object_id - 1
  BY DEF TypeOK
<1>2. DOMAIN records \subseteq 1 .. next_object_id - 1
  BY DEF TypeOK, IsMap
<1>3. ScratchIds \subseteq 1 .. next_object_id - 1
  BY DEF TypeOK, IsMap, ScratchIds
<1>4. QED
  BY <1>1, <1>2, <1>3

\* An artifact under way takes a fresh id, with room left for it.
LEMMA RetainBeginPlaces ==
    ASSUME TypeOK, PlacedInv, NEW content \in Content, NEW s \in Seen,
           RetainBegin(content, s[1], s[2])
    PROVE  PlacedInv'
<1> USE DEF PlacedInv
<1>1. PICK E \in SUBSET DOMAIN cache :
        /\ ArtifactFits(E, content, Update(s[1], s[2]).next)
        /\ ReleaseCache(E)
        /\ admission'.op = "retain" /\ admission'.id = next_object_id
        /\ admission'.content = content
  BY DEF RetainBegin
<1>2. /\ UNCHANGED <<records, scratch, disk>>
      /\ Duplicates(content) = {}
  BY DEF RetainBegin, objects
<1>3. ObjectCount({})' = ObjectCount(E) /\ ObjectCount(E) < MaxArtifacts
  BY <1>1, <1>2, CountAfter, ReleasedKeys DEF ArtifactFits
<1>4. ObjectCount({})' \in Nat
  <2>1. Cardinality(DOMAIN cache \ E) \in Nat
    BY Counts, FS_Subset, FS_CardinalityType
  <2>2. QED
    BY <2>1, <1>3, Counts DEF ObjectCount
<1>5. ObjectIdsDistinct'
  BY <1>1, <1>2, NextIdFresh DEF ObjectIdsDistinct, ScratchIds
<1>6. ObjectCountWithinCeiling'
  BY <1>3, <1>4, LimitsAssumption DEF ObjectCountWithinCeiling
<1>7. ArtifactsStored' /\ ArtifactsDeduplicated'
  BY <1>2 DEF ArtifactsStored, ArtifactsDeduplicated
<1>8. \A id \in DOMAIN records : records[id] # content
  BY <1>2 DEF Duplicates, ArtifactsStored
<1>9. PendingPlaced'
  BY <1>1, <1>2, <1>3, <1>8 DEF PendingPlaced
<1>10. QED
  BY <1>5, <1>6, <1>7, <1>9

\* It enters the index under that id.
LEMMA RetainPublishPlaces ==
    ASSUME TypeOK, PlacedInv, RetainPublish PROVE PlacedInv'
<1> USE DEF PlacedInv, RetainPublish, caching
<1> DEFINE id == admission.id
<1>1. /\ id \notin DOMAIN records /\ id \notin ScratchIds
      /\ ObjectCount({}) < MaxArtifacts
      /\ \A i \in DOMAIN records : records[i] # admission.content
  BY DEF ObjectIdsDistinct, PendingPlaced
<1>2. DOMAIN records' = DOMAIN records \cup {id} /\ admission' = Free
  BY DEF Put
<1>3. ObjectCount({})' = ObjectCount({}) + 1
  <2>1. Cardinality(DOMAIN records') = Cardinality(DOMAIN records) + 1
    BY <1>1, <1>2, Counts, FS_AddElement
  <2>2. ObjectCount({})' = Cardinality(DOMAIN records')
          + Cardinality(DOMAIN scratch) + Cardinality(DOMAIN cache \ {})
    BY DEF ObjectCount
  <2>3. DOMAIN cache \ {} = DOMAIN cache
    OBVIOUS
  <2> HIDE DEF RetainPublish
  <2>4. QED
    BY <2>1, <2>2, <2>3, Counts
<1>4. ObjectCountWithinCeiling'
  BY <1>1, <1>3, Counts, LimitsAssumption DEF ObjectCountWithinCeiling
<1>5. ObjectIdsDistinct'
  BY <1>1, <1>2 DEF ObjectIdsDistinct, ScratchIds, Free
<1>6. ArtifactsStored'
  BY <1>1 DEF ArtifactsStored, Put
<1>7. ArtifactsDeduplicated'
  BY <1>1 DEF ArtifactsDeduplicated, Put
<1>8. PendingPlaced'
  BY <1>2 DEF PendingPlaced, Free
<1>9. QED
  BY <1>4, <1>5, <1>6, <1>7, <1>8

\* Or the id is nobody's.
LEMMA RetainAbandonPlaces ==
    ASSUME TypeOK, PlacedInv, RetainAbandon PROVE PlacedInv'
<1> USE DEF PlacedInv, RetainAbandon, caching
<1>1. admission.id \notin DOMAIN records
  BY DEF ObjectIdsDistinct
<1>2. ObjectCount({})' = ObjectCount({})
  BY DEF ObjectCount
<1>3. ObjectIdsDistinct' /\ PendingPlaced'
  BY DEF ObjectIdsDistinct, PendingPlaced, ScratchIds, Free
<1>4. ArtifactsStored'
  BY <1>1 DEF ArtifactsStored, Put
<1>5. QED
  BY <1>2, <1>3, <1>4 DEF ObjectCountWithinCeiling, ArtifactsDeduplicated

\* A scratch entry under way takes a fresh id, or keeps that of the entry it
\* replaces.
LEMMA ScratchPutBeginPlaces ==
    ASSUME TypeOK, PlacedInv, NEW name \in Name, NEW content \in Content,
           ScratchPutBegin(name, content)
    PROVE  PlacedInv'
<1> USE DEF PlacedInv
<1> DEFINE replaces == name \in DOMAIN scratch
           id == IF replaces THEN scratch[name].id ELSE next_object_id
<1>1. PICK E \in SUBSET DOMAIN cache :
        /\ ScratchFits(E, name, content)
        /\ ReleaseCache(E)
        /\ admission'.op = "scratch" /\ admission'.id = id
        /\ admission'.name = name
  BY DEF ScratchPutBegin
<1>2. UNCHANGED <<records, scratch, disk>>
  BY DEF ScratchPutBegin, objects
<1>3. ObjectCount({})' = ObjectCount(E) /\ ObjectCount(E) <= ObjectCount({})
  BY <1>1, <1>2, CountAfter, ReleasedKeys
<1>4. ObjectCount(E) \in Nat /\ ObjectCount({}) \in Nat /\ MaxArtifacts \in Nat
  <2>1. Cardinality(DOMAIN cache \ E) \in Nat
    BY Counts, FS_Subset, FS_CardinalityType
  <2>2. QED
    BY <2>1, Counts, LimitsAssumption DEF ObjectCount
<1>5. ObjectCountWithinCeiling'
  BY <1>3, <1>4 DEF ObjectCountWithinCeiling
<1>6. id \notin DOMAIN records
  <2>1. CASE replaces
    BY <2>1 DEF ObjectIdsDistinct, ScratchIds
  <2>2. CASE ~replaces
    BY <2>2, NextIdFresh
  <2>3. QED
    BY <2>1, <2>2
<1>7. ScratchIds' = ScratchIds
  BY <1>2 DEF ScratchIds
<1>8. ObjectIdsDistinct'
  BY <1>1, <1>2, <1>6, <1>7 DEF ObjectIdsDistinct
<1>9. ArtifactsStored' /\ ArtifactsDeduplicated'
  BY <1>2 DEF ArtifactsStored, ArtifactsDeduplicated
<1>10. PendingPlaced'
  <2>1. CASE replaces
    BY <1>1, <1>2, <2>1 DEF PendingPlaced
  <2>2. CASE ~replaces
    <3>1. ObjectCount({})' < MaxArtifacts
      BY <1>1, <1>3, <2>2 DEF ScratchFits
    <3>2. QED
      BY <1>1, <1>2, <1>7, <2>2, <3>1, NextIdFresh DEF PendingPlaced
  <2>3. QED
    BY <2>1, <2>2
<1>11. QED
  BY <1>5, <1>8, <1>9, <1>10

\* It enters scratch under that id.
LEMMA ScratchPutPublishPlaces ==
    ASSUME TypeOK, PlacedInv, ScratchPutPublish PROVE PlacedInv'
<1> USE DEF PlacedInv, ScratchPutPublish, caching
<1> DEFINE id == admission.id
           name == admission.name
<1>1. /\ id \notin DOMAIN records
      /\ name \in DOMAIN scratch => id = scratch[name].id
      /\ name \notin DOMAIN scratch =>
           ObjectCount({}) < MaxArtifacts /\ id \notin ScratchIds
  BY DEF ObjectIdsDistinct, PendingPlaced
<1>2. /\ DOMAIN scratch' = DOMAIN scratch \cup {name} /\ admission' = Free
      /\ scratch'[name].id = id
      /\ \A n \in DOMAIN scratch : n # name => scratch'[n] = scratch[n]
  BY DEF Put
<1>3. ObjectCount({})' = Cardinality(DOMAIN records)
        + Cardinality(DOMAIN scratch') + Cardinality(DOMAIN cache)
  <2>1. DOMAIN cache \ {} = DOMAIN cache
    OBVIOUS
  <2>2. QED
    BY <2>1 DEF ObjectCount
<1>4. ObjectCountWithinCeiling'
  <2>1. CASE name \in DOMAIN scratch
    <3>1. DOMAIN scratch' = DOMAIN scratch
      BY <1>2, <2>1
    <3>2. QED
      BY <1>3, <3>1, Counts DEF ObjectCountWithinCeiling
  <2>2. CASE name \notin DOMAIN scratch
    <3>1. Cardinality(DOMAIN scratch') = Cardinality(DOMAIN scratch) + 1
      BY <1>2, <2>2, Counts, FS_AddElement
    <3>2. ObjectCount({}) < MaxArtifacts
      BY <1>1, <2>2
    <3> HIDE DEF PlacedInv, ScratchPutPublish, name
    <3>3. QED
      BY <1>3, <3>1, <3>2, Counts, LimitsAssumption
         DEF ObjectCountWithinCeiling
  <2>3. QED
    BY <2>1, <2>2
<1>5. ObjectIdsDistinct'
  <2>1. \A n \in DOMAIN scratch' : scratch'[n].id \notin DOMAIN records
    BY <1>1, <1>2 DEF ObjectIdsDistinct, ScratchIds
  <2>2. \A n \in DOMAIN scratch : n # name => scratch[n].id # id
    BY <1>1 DEF ObjectIdsDistinct, ScratchIds
  <2>3. \A m, n \in DOMAIN scratch' :
          scratch'[m].id = scratch'[n].id => m = n
    BY <1>2, <2>2 DEF ObjectIdsDistinct
  <2>4. QED
    BY <1>2, <2>1, <2>3 DEF ObjectIdsDistinct, ScratchIds, Free
<1>6. ArtifactsStored'
  BY <1>1 DEF ArtifactsStored, Put
<1>7. ArtifactsDeduplicated' /\ PendingPlaced'
  BY <1>2 DEF ArtifactsDeduplicated, PendingPlaced, Free
<1>8. QED
  BY <1>4, <1>5, <1>6, <1>7

\* Or a fresh id is nobody's.
LEMMA ScratchPutFailedPlaces ==
    ASSUME TypeOK, PlacedInv, ScratchPutFailed PROVE PlacedInv'
<1> USE DEF PlacedInv, ScratchPutFailed, caching
<1>1. admission.id \notin DOMAIN records
  BY DEF ObjectIdsDistinct
<1>2. ObjectCount({})' = ObjectCount({})
  BY DEF ObjectCount
<1>3. ObjectIdsDistinct' /\ PendingPlaced'
  BY DEF ObjectIdsDistinct, PendingPlaced, ScratchIds, Free
<1>4. ArtifactsStored'
  BY <1>1 DEF ArtifactsStored, Put, Without
<1>5. QED
  BY <1>2, <1>3, <1>4 DEF ObjectCountWithinCeiling, ArtifactsDeduplicated

\* Removing an entry frees its place.
LEMMA ScratchRemovePlaces ==
    ASSUME TypeOK, PlacedInv, NEW name \in Name, ScratchRemove(name)
    PROVE  PlacedInv'
<1> USE DEF PlacedInv, ScratchRemove, Admitted, caching
<1>1. /\ DOMAIN scratch' = DOMAIN scratch \ {name}
      /\ \A n \in DOMAIN scratch' : scratch'[n] = scratch[n]
  BY DEF Without
<1>2. Cardinality(DOMAIN scratch') <= Cardinality(DOMAIN scratch)
      /\ Cardinality(DOMAIN scratch') \in Nat
  BY <1>1, Counts, FS_Subset, FS_CardinalityType
<1>3. ObjectCountWithinCeiling'
  <2>1. DOMAIN cache \ {} = DOMAIN cache
    OBVIOUS
  <2>2. ObjectCount({})' = Cardinality(DOMAIN records)
          + Cardinality(DOMAIN scratch') + Cardinality(DOMAIN cache)
    BY <2>1 DEF ObjectCount
  <2>3. ObjectCount({}) <= MaxArtifacts
    BY DEF ObjectCountWithinCeiling
  <2> HIDE DEF PlacedInv, ScratchRemove
  <2>4. QED
    BY <1>2, <2>2, <2>3, Counts, LimitsAssumption
       DEF ObjectCountWithinCeiling
<1>4. ObjectIdsDistinct'
  <2>1. ScratchIds' \subseteq ScratchIds
    BY <1>1 DEF ScratchIds
  <2>2. \A m, n \in DOMAIN scratch' :
          scratch'[m].id = scratch'[n].id => m = n
    BY <1>1 DEF ObjectIdsDistinct
  <2>3. QED
    BY <2>1, <2>2 DEF ObjectIdsDistinct, Free
<1>5. ArtifactsStored'
  <2>1. scratch[name].id \notin DOMAIN records
    BY DEF ObjectIdsDistinct, ScratchIds
  <2>2. QED
    BY <2>1 DEF ArtifactsStored, Without
<1>6. ArtifactsDeduplicated' /\ PendingPlaced'
  BY DEF ArtifactsDeduplicated, PendingPlaced, Free
<1>7. QED
  BY <1>3, <1>4, <1>5, <1>6

\* A rename takes the id along, and frees the place of what it overwrites.
LEMMA ScratchRenamePlaces ==
    ASSUME TypeOK, PlacedInv, NEW from \in Name, NEW to \in Name,
           ScratchRename(from, to)
    PROVE  PlacedInv'
<1> USE DEF PlacedInv, ScratchRename, Admitted, caching
<1> DEFINE rest == DOMAIN scratch \ {from}
<1>1. /\ DOMAIN scratch' = rest \cup {to} /\ to \notin rest
      /\ scratch'[to] = scratch[from]
      /\ \A n \in rest : scratch'[n] = scratch[n]
  BY DEF Put, Without
<1>2. Cardinality(DOMAIN scratch') = Cardinality(DOMAIN scratch)
  <2>1. IsFiniteSet(rest) /\ Cardinality(rest) = Cardinality(DOMAIN scratch) - 1
    BY Counts, FS_RemoveElement
  <2>2. Cardinality(rest \cup {to}) = Cardinality(rest) + 1
    BY <1>1, <2>1, FS_AddElement
  <2> HIDE DEF rest, PlacedInv, ScratchRename
  <2>3. QED
    BY <1>1, <2>1, <2>2, Counts
<1>3. ObjectCount({})' = ObjectCount({})
  BY <1>2 DEF ObjectCount
<1>4. ObjectIdsDistinct'
  <2>1. from \in DOMAIN scratch
    OBVIOUS
  <2>2. ScratchIds' \subseteq ScratchIds
    BY <1>1, <2>1 DEF ScratchIds
  <2>3. \A n \in rest : scratch[n].id # scratch[from].id
    BY <2>1 DEF ObjectIdsDistinct
  <2>4. \A m, n \in DOMAIN scratch' :
          scratch'[m].id = scratch'[n].id => m = n
    BY <1>1, <2>3 DEF ObjectIdsDistinct
  <2>5. QED
    BY <2>2, <2>4 DEF ObjectIdsDistinct, Free
<1>5. QED
  BY <1>3, <1>4 DEF ObjectCountWithinCeiling, ArtifactsStored,
     ArtifactsDeduplicated, PendingPlaced, Free

\* A cache entry takes a place only where one is left.
LEMMA CachePutPlaces ==
    ASSUME TypeOK, PlacedInv, NEW key \in CacheKey, NEW bytes \in EntryBytes,
           CachePut(key, bytes)
    PROVE  PlacedInv'
<1> USE DEF PlacedInv
<1>1. UNCHANGED <<admission, records, scratch, disk>>
  BY DEF CachePut, objects
<1>2. PICK E \in SUBSET (DOMAIN cache \ {key}) :
        IF CacheFits(E, key, bytes)
        THEN cache' = Put(Without(cache, E), key, bytes)
        ELSE ReleaseCache(E)
  BY DEF CachePut
<1>3. CASE ~CacheFits(E, key, bytes)
  BY <1>1, <1>2, <1>3, ReleasedKeys, PlacedFrame
<1>4. CASE CacheFits(E, key, bytes) /\ key \in DOMAIN cache
  <2>1. DOMAIN cache' = DOMAIN cache \ E
    BY <1>2, <1>4 DEF Put, Without
  <2>2. QED
    BY <1>1, <2>1, PlacedFrame
<1>5. CASE CacheFits(E, key, bytes) /\ key \notin DOMAIN cache
  <2>1. DOMAIN cache' = (DOMAIN cache \ E) \cup {key}
    BY <1>2, <1>5 DEF Put, Without
  <2>2. IsFiniteSet(DOMAIN cache \ E) /\ Cardinality(DOMAIN cache \ E) \in Nat
    BY Counts, FS_Subset, FS_CardinalityType
  <2>3. Cardinality(DOMAIN cache') = Cardinality(DOMAIN cache \ E) + 1
    BY <1>5, <2>1, <2>2, FS_AddElement
  <2>4. DOMAIN cache' \ {} = DOMAIN cache'
    OBVIOUS
  <2>5. ObjectCount({})' = ObjectCount(E) + 1
    <3>1. ObjectCount({})' = Cardinality(DOMAIN records)
            + Cardinality(DOMAIN scratch) + Cardinality(DOMAIN cache')
      BY <1>1, <2>4 DEF ObjectCount
    <3>2. QED
      BY <2>2, <2>3, <3>1, Counts DEF ObjectCount
  <2>6. ObjectCount(E) < MaxArtifacts
    BY <1>5 DEF CacheFits
  <2>7. ObjectCount(E) \in Nat
    BY <2>2, Counts DEF ObjectCount
  <2>8. ObjectCountWithinCeiling'
    BY <2>5, <2>6, <2>7, LimitsAssumption DEF ObjectCountWithinCeiling
  <2>9. admission = Free
    BY DEF CachePut, Admitted
  <2>10. ObjectIdsDistinct' /\ PendingPlaced'
    BY <1>1, <2>9 DEF ObjectIdsDistinct, PendingPlaced, ScratchIds, Free
  <2>11. QED
    BY <1>1, <2>8, <2>10 DEF ArtifactsStored, ArtifactsDeduplicated
<1>6. QED
  BY <1>3, <1>4, <1>5

\* Steps whose only effect on objects is that the cache yields.
LEMMA YieldPlaces ==
    ASSUME TypeOK, PlacedInv, UNCHANGED <<admission, records, scratch, disk>>,
           \E E \in SUBSET DOMAIN cache : ReleaseCache(E)
    PROVE  PlacedInv'
BY ReleasedKeys, PlacedFrame

\* At first no place is taken.
LEMMA PlacedInit == Init => PlacedInv
<1> SUFFICES ASSUME Init PROVE PlacedInv
  OBVIOUS
<1> USE DEF Init
<1>1. ObjectCount({}) = 0
  BY FS_EmptySet DEF ObjectCount
<1>2. QED
  BY <1>1, LimitsAssumption DEF PlacedInv, ObjectIdsDistinct, ScratchIds, Free,
     ObjectCountWithinCeiling, ArtifactsStored, ArtifactsDeduplicated,
     PendingPlaced

\* One case per disjunct of Next.
LEMMA PlacedStep ==
    ASSUME TypeOK, PlacedInv, [Next]_vars PROVE PlacedInv'
<1> USE DEF control, objects, caching, seen, reserved
<1>1. CASE Invalidate
  BY <1>1, PlacedFrameAll DEF Invalidate
<1>2. CASE Retain
  <2>1. PICK content \in Content, s \in Seen :
          \/ RetainReuse(content, s[1], s[2])
          \/ RetainRefused(content, s[1], s[2])
          \/ RetainBegin(content, s[1], s[2])
    BY <1>2 DEF Retain
  <2>2. CASE RetainReuse(content, s[1], s[2])
    BY <2>2, PlacedFrameAll DEF RetainReuse
  <2>3. CASE RetainRefused(content, s[1], s[2])
    BY <2>3, YieldPlaces DEF RetainRefused
  <2>4. QED
    BY <2>1, <2>2, <2>3, RetainBeginPlaces
<1>3. CASE StorageAnswers
  BY <1>3, RetainPublishPlaces, RetainAbandonPlaces, ScratchPutPublishPlaces,
     ScratchPutFailedPlaces DEF StorageAnswers
<1>4. CASE Scratch
  <2>1. ASSUME NEW name \in Name, NEW content \in Content,
               ScratchPutRefused(name, content)
        PROVE  PlacedInv'
    BY <2>1, YieldPlaces DEF ScratchPutRefused
  <2>2. QED
    BY <1>4, <2>1, ScratchPutBeginPlaces, ScratchRemovePlaces,
       ScratchRenamePlaces DEF Scratch
<1>5. CASE Cache
  <2>1. ASSUME NEW key \in CacheKey, CacheGet(key) PROVE PlacedInv'
    BY <2>1, PlacedFrameAll DEF CacheGet
  <2>2. ASSUME NEW E, CacheRemove(E) PROVE PlacedInv'
    BY <2>2, YieldPlaces DEF CacheRemove
  <2>3. QED
    BY <1>5, <2>1, <2>2, CachePutPlaces DEF Cache
<1>6. CASE Journal
  BY <1>6, YieldPlaces DEF Journal, BeginMutationOperation
<1>7. CASE Snapshots
  BY <1>7, PlacedFrameAll
     DEF Snapshots, RecordSeen, ReserveSeen, PublishSeen, ReleaseSeen
<1>8. CASE UNCHANGED vars
  BY <1>8, PlacedFrameAll DEF vars
<1>9. QED
  BY <1>1, <1>2, <1>3, <1>4, <1>5, <1>6, <1>7, <1>8 DEF Next

-----------------------------------------------------------------------------
(* The theorems.                                                           *)

\* Accounts and places are kept by every step.
LEMMA Inductive == Spec => [](LedgerInv /\ PlacedInv)
<1>1. Init => LedgerInv /\ PlacedInv
  BY LedgerInit, PlacedInit
<1>2. (LedgerInv /\ PlacedInv) /\ [Next]_vars => (LedgerInv /\ PlacedInv)'
  BY LedgerStep, PlacedStep DEF LedgerInv, PlacedInv
<1>3. QED
  BY <1>1, <1>2, PTL DEF Spec

\* No counter of SessionState goes below zero and every map keeps its shape,
\* whatever calls interleave, fail or outlive the session.
THEOREM TypeCorrect == Spec => []TypeOK
<1>1. LedgerInv => TypeOK
  BY DEF LedgerInv
<1>2. QED
  BY <1>1, Inductive, PTL

\* used_bytes is, to the byte, the objects the session holds and the snapshot
\* counter: no order of retain, scratch, cache, journal and snapshot calls
\* makes a later subtraction of session.rs fail or leaks quota.
THEOREM ObjectsAccounted == Spec => []ObjectAccounting
<1>1. LedgerInv => ObjectAccounting
  BY DEF LedgerInv
<1>2. QED
  BY <1>1, Inductive, PTL

\* Artifacts, scratch, cache and journal never outgrow limits.session_bytes().
THEOREM ObjectsBounded == Spec => []ObjectsWithinQuota
<1>1. LedgerInv => ObjectsWithinQuota
  BY DEF LedgerInv
<1>2. QED
  BY <1>1, Inductive, PTL

\* Reserved bytes belong to reservations still held: publish_seen and the
\* release of a dropped reservation cannot underflow the counter.
THEOREM ReservationsAccounted == Spec => []ReservationsBalanced
<1>1. LedgerInv => ReservationsBalanced
  BY DEF LedgerInv
<1>2. QED
  BY <1>1, Inductive, PTL

\* Two objects never share a storage id, nor does a write in flight aim at an
\* artifact.
THEOREM IdsDistinct == Spec => []ObjectIdsDistinct
<1>1. PlacedInv => ObjectIdsDistinct
  BY DEF PlacedInv
<1>2. QED
  BY <1>1, Inductive, PTL

\* MAX_SESSION_ARTIFACTS bounds artifacts, scratch and cache together although
\* it is tested before the storage write that the object waits for.
THEOREM CountBounded == Spec => []ObjectCountWithinCeiling
<1>1. PlacedInv => ObjectCountWithinCeiling
  BY DEF PlacedInv
<1>2. QED
  BY <1>1, Inductive, PTL

\* Equal bytes are one artifact, colliding digests included.
THEOREM Deduplicated == Spec => []ArtifactsDeduplicated
<1>1. PlacedInv => ArtifactsDeduplicated
  BY DEF PlacedInv
<1>2. QED
  BY <1>1, Inductive, PTL

\* All of it at once: what the runs check of the ledger.
THEOREM LedgerIsSound == Spec => []LedgerSound
<1>1. LedgerInv /\ PlacedInv => LedgerSound
  BY DEF LedgerInv, PlacedInv, LedgerSound
<1>2. QED
  BY <1>1, Inductive, PTL

\* No step drops or overwrites an artifact, in the index or in storage.
THEOREM Immutable == Spec => ArtifactsImmutable
<1> DEFINE Kept == \A id \in DOMAIN records :
                     /\ id \in DOMAIN records' /\ records'[id] = records[id]
                     /\ id \in DOMAIN disk' /\ disk'[id] = disk[id]
<1>1. ASSUME PlacedInv, [Next]_vars PROVE [Kept]_vars
  <2> SUFFICES ASSUME Next PROVE Kept
    BY <1>1
  <2> USE <1>1 DEF control, objects, caching, seen, reserved
  <2>1. \A id \in DOMAIN records : id \in DOMAIN disk
    BY DEF PlacedInv, ArtifactsStored
  <2>2. CASE UNCHANGED <<records, disk>>
    BY <2>1, <2>2
  <2>3. CASE RetainPublish
    BY <2>1, <2>3 DEF PlacedInv, ObjectIdsDistinct, RetainPublish, Put
  <2>4. CASE RetainAbandon
    BY <2>1, <2>4 DEF PlacedInv, ObjectIdsDistinct, RetainAbandon, Put
  <2>5. CASE ScratchPutPublish
    BY <2>1, <2>5 DEF PlacedInv, ObjectIdsDistinct, ScratchPutPublish, Put
  <2>6. CASE ScratchPutFailed
    BY <2>1, <2>6
       DEF PlacedInv, ObjectIdsDistinct, ScratchPutFailed, Put, Without
  <2>7. ASSUME NEW name \in Name, ScratchRemove(name) PROVE Kept
    <3>1. scratch[name].id \notin DOMAIN records
      BY <2>7 DEF PlacedInv, ObjectIdsDistinct, ScratchIds, ScratchRemove
    <3>2. QED
      BY <2>1, <2>7, <3>1 DEF ScratchRemove, Without
  <2>8. CASE Invalidate \/ Retain
    BY <2>2, <2>8 DEF Invalidate, Retain, RetainReuse, RetainRefused,
       RetainBegin
  <2>9. CASE Scratch
    BY <2>2, <2>7, <2>9 DEF Scratch, ScratchPutRefused, ScratchPutBegin,
       ScratchRename
  <2>10. CASE Cache
    BY <2>2, <2>10 DEF Cache, CacheGet, CachePut, CacheRemove
  <2>11. CASE Journal \/ Snapshots
    BY <2>2, <2>11 DEF Journal, BeginMutationOperation, Snapshots, RecordSeen,
       ReserveSeen, PublishSeen, ReleaseSeen
  <2>12. QED
    BY <2>3, <2>4, <2>5, <2>6, <2>8, <2>9, <2>10, <2>11
       DEF Next, StorageAnswers
<1>2. Spec => [][Kept]_vars
  BY <1>1, Inductive, PTL DEF Spec
<1>3. QED
  BY <1>2 DEF ArtifactsImmutable

-----------------------------------------------------------------------------
(***************************************************************************)
(* Sessions in which no reservation is overtaken.  The update of an open   *)
(* reservation, and the one a suspended retain carries, is what would be   *)
(* prepared now: that is what publishing an absolute counter relies on.    *)
(***************************************************************************)

\* The update u could have been prepared from the snapshots as they are.
Prepared(u) ==
    IF u.key = None THEN u.next = snapshot_bytes
    ELSE /\ Displayed(u.key) \subseteq u.lines
         /\ u.next = (snapshot_bytes - RangesBytes(Displayed(u.key)))
                       + (IF u.key \in DOMAIN snapshots THEN 0 ELSE KeyBytes)
                       + RangesBytes(u.lines)

\* It costs no more than was reserved for it.
ReservationsPrepared ==
    \A m \in DOMAIN reservations :
        /\ Prepared(reservations[m].update)
        /\ reservations[m].update.next <= snapshot_bytes + reservations[m].bytes

\* What the suspended call will store still fits.
PendingFits ==
    /\ admission.op = "retain" => Prepared(admission.update)
    /\ admission.op # "free" => admission.bytes + reserved_snapshot_bytes <= SessionLimit

SerialInv ==
    /\ overlapped \in BOOLEAN
    /\ ~overlapped => /\ SnapshotAccountingExact /\ UsedWithinQuota
                      /\ ReservationsPrepared /\ PendingFits

\* Lines shown together take no more ranges than apart.
LEMMA RangesJoin ==
    ASSUME NEW A \in SUBSET Line, NEW B \in SUBSET Line
    PROVE  RangesBytes(A \cup B) <= RangesBytes(A) + RangesBytes(B)
<1> DEFINE Starts(S) == {l \in S : l - 1 \notin S}
<1>1. IsFiniteSet(Starts(A)) /\ IsFiniteSet(Starts(B))
  BY FS_Subset, SizesAssumption
<1>2. /\ IsFiniteSet(Starts(A) \cup Starts(B))
      /\ Cardinality(Starts(A) \cup Starts(B)) <= Cardinality(Starts(A)) + Cardinality(Starts(B))
  <2>1. Cardinality(Starts(A) \cup Starts(B))
          = Cardinality(Starts(A)) + Cardinality(Starts(B)) - Cardinality(Starts(A) \cap Starts(B))
        /\ IsFiniteSet(Starts(A) \cup Starts(B))
    BY <1>1, FS_Union
  <2>2. Cardinality(Starts(A) \cap Starts(B)) \in Nat
    BY <1>1, FS_Intersection, FS_CardinalityType
  <2>3. Cardinality(Starts(A)) \in Nat /\ Cardinality(Starts(B)) \in Nat
    BY <1>1, FS_CardinalityType
  <2>4. QED
    BY <2>1, <2>2, <2>3
<1>3. Starts(A \cup B) \subseteq Starts(A) \cup Starts(B)
  OBVIOUS
<1>4. Cardinality(Starts(A \cup B)) <= Cardinality(Starts(A) \cup Starts(B))
  BY <1>2, <1>3, FS_Subset
<1>5. /\ Runs(A \cup B) \in Nat /\ Runs(A) \in Nat /\ Runs(B) \in Nat
      /\ Runs(A \cup B) <= Runs(A) + Runs(B)
  <2>1. IsFiniteSet(Starts(A \cup B))
    BY <1>2, <1>3, FS_Subset
  <2>2. Cardinality(Starts(A \cup B)) \in Nat /\ Cardinality(Starts(A)) \in Nat
        /\ Cardinality(Starts(B)) \in Nat /\ Cardinality(Starts(A) \cup Starts(B)) \in Nat
    BY <1>1, <1>2, <2>1, FS_CardinalityType
  <2>3. QED
    BY <1>2, <1>4, <2>2 DEF Runs
<1>6. \A r, x, y, z \in Nat : x <= y + z => r * x <= r * y + r * z
  OBVIOUS
<1>7. QED
  BY <1>5, <1>6, SizesAssumption DEF RangesBytes

\* No lines cost nothing.
LEMMA NoLines == RangesBytes({}) = 0
<1>1. Runs({}) = 0
  <2>1. {l \in {} : l - 1 \notin {}} = {}
    OBVIOUS
  <2>2. QED
    BY <2>1, FS_EmptySet DEF Runs
<1>2. QED
  BY <1>1, SizesAssumption DEF RangesBytes

\* What prepare_snapshot_update prepares, and what is reserved for it.
LEMMA UpdatePrepared ==
    ASSUME TypeOK, NEW key \in Snapshot \cup {None}, NEW lines \in SUBSET Line, Preparable(key)
    PROVE  /\ Prepared(Update(key, lines))
           /\ key # None =>
                Update(key, lines).next <= snapshot_bytes + ReservedBytes(key, lines)
<1>1. snapshot_bytes \in Nat /\ KeyBytes \in Nat
  BY SizesAssumption DEF TypeOK
<1>2. Displayed(key) \in SUBSET Line
  BY DEF TypeOK, IsMap, Displayed
<1>3. /\ RangesBytes(Displayed(key)) \in Nat /\ RangesBytes(lines) \in Nat
      /\ RangesBytes(Displayed(key) \cup lines) \in Nat
      /\ RangesBytes(Displayed(key) \cup lines)
           <= RangesBytes(Displayed(key)) + RangesBytes(lines)
  BY <1>2, RangesBytesType, RangesJoin
<1>4. CASE key = None
  BY <1>4 DEF Update, Prepared
<1>5. CASE key # None
  <2> DEFINE merged == Displayed(key) \cup lines
  <2>1. /\ Update(key, lines).key = key /\ Update(key, lines).lines = merged
        /\ Update(key, lines).next =
             snapshot_bytes - RangesBytes(Displayed(key))
               + (IF key \in DOMAIN snapshots THEN 0 ELSE KeyBytes) + RangesBytes(merged)
    BY <1>5 DEF Update
  <2>2. Prepared(Update(key, lines))
    BY <1>5, <2>1 DEF Prepared
  <2>3. Update(key, lines).next <= snapshot_bytes + ReservedBytes(key, lines)
    BY <1>1, <1>3, <2>1 DEF ReservedBytes
  <2>4. QED
    BY <2>2, <2>3
<1>6. QED
  BY <1>4, <1>5

\* What is prepared depends on the snapshots alone.
LEMMA StaysPrepared ==
    ASSUME UNCHANGED seen, NEW u
    PROVE  Prepared(u)' <=> Prepared(u)
BY DEF seen, Prepared, Displayed

\* Storing a prepared update keeps the counter exact.
LEMMA PreparedApplied ==
    ASSUME TypeOK, SnapshotAccountingExact, NEW u \in UpdateType, Prepared(u), ApplyUpdate(u)
    PROVE  SnapshotAccountingExact'
<1>1. CASE u.key = None
  BY <1>1 DEF ApplyUpdate, Prepared, SnapshotAccountingExact, SnapshotBytes
<1>2. CASE u.key # None
  <2> DEFINE key == u.key
             cost == KeyBytes + RangesBytes(u.lines)
             old == IF key \in DOMAIN SnapshotBytes THEN SnapshotBytes[key] ELSE 0
  <2>1. /\ snapshots' = Put(snapshots, key, u.lines) /\ snapshot_bytes' = u.next
        /\ u.lines \in SUBSET Line
    BY <1>2 DEF ApplyUpdate, UpdateType
  <2>2. SnapshotBytes' = Put(SnapshotBytes, key, cost)
    BY <2>1 DEF SnapshotBytes, Put
  <2>3. /\ RangesBytes(u.lines) \in Nat /\ KeyBytes \in Nat /\ snapshot_bytes \in Nat
        /\ \A s \in DOMAIN snapshots : RangesBytes(snapshots[s]) \in Nat
    BY <2>1, RangesBytesType, SizesAssumption DEF TypeOK, IsMap
  <2>4. Sizes(SnapshotBytes)
    BY <2>3 DEF Sizes, SnapshotBytes, TypeOK, IsMap
  <2>5. cost \in Nat
    BY <2>3
  <2>6. /\ old \in 0 .. Weight(SnapshotBytes)
        /\ Weight(Put(SnapshotBytes, key, cost)) = (Weight(SnapshotBytes) - old) + cost
    <3> HIDE DEF cost
    <3>1. QED
      BY <2>4, <2>5, WeightPut
  <2>7. old = IF key \in DOMAIN snapshots THEN KeyBytes + RangesBytes(Displayed(key)) ELSE 0
    BY DEF SnapshotBytes, Displayed
  <2>8. key \notin DOMAIN snapshots => RangesBytes(Displayed(key)) = 0
    BY NoLines DEF Displayed
  <2>9. /\ u.next = (snapshot_bytes - RangesBytes(Displayed(key)))
                      + (IF key \in DOMAIN snapshots THEN 0 ELSE KeyBytes) + RangesBytes(u.lines)
        /\ snapshot_bytes = Weight(SnapshotBytes)
    BY <1>2 DEF Prepared, SnapshotAccountingExact
  <2>10. RangesBytes(Displayed(key)) \in Nat
    BY <2>3, <2>8 DEF Displayed
  <2>11. u.next = Weight(Put(SnapshotBytes, key, cost))
    <3>1. CASE key \in DOMAIN snapshots
      BY <2>3, <2>6, <2>7, <2>9, <2>10, <3>1
    <3>2. CASE key \notin DOMAIN snapshots
      BY <2>3, <2>6, <2>7, <2>8, <2>9, <3>2
    <3>3. QED
      BY <3>1, <3>2
  <2>12. QED
    BY <2>1, <2>2, <2>11 DEF SnapshotAccountingExact
<1>3. QED
  BY <1>1, <1>2

\* A prepared update forgets no line.
LEMMA PreparedKeepsLines ==
    ASSUME NEW u, Prepared(u), ApplyUpdate(u)
    PROVE  \A s \in DOMAIN snapshots : s \in DOMAIN snapshots' /\ snapshots[s] \subseteq snapshots'[s]
BY DEF ApplyUpdate, Prepared, Displayed, Put

\* Entries that yield give their bytes back.
LEMMA YieldedLess ==
    ASSUME TypeOK, NEW E
    PROVE  UsedWithout(E) <= used_bytes
<1>1. Weight(Only(cache, E)) \in 0 .. Weight(cache) /\ Weight(cache) \in Nat
  BY LedgerSizes, LedgerWeights, WeightWithout
<1>2. QED
  BY <1>1 DEF UsedWithout, TypeOK

\* Steps that leave snapshots and reservations alone.
LEMMA SerialQuiet ==
    ASSUME SerialInv, Observe, UNCHANGED <<seen, reserved>>,
           ~overlapped => UsedWithinQuota' /\ PendingFits'
    PROVE  SerialInv'
<1>1. overlapped' = overlapped
  BY DEF Observe, SerialInv
<1>2. SnapshotAccountingExact' <=> SnapshotAccountingExact
  BY DEF seen, SnapshotAccountingExact, SnapshotBytes
<1>3. ReservationsPrepared => ReservationsPrepared'
  BY StaysPrepared DEF seen, reserved, ReservationsPrepared
<1>4. QED
  BY <1>1, <1>2, <1>3 DEF SerialInv

\* Steps that store an update.
LEMMA SerialPublishes ==
    ASSUME TypeOK, SerialInv, Observe, NEW u \in UpdateType, ApplyUpdate(u),
           ~overlapped => Prepared(u) /\ UsedWithinQuota',
           DOMAIN reservations' \subseteq DOMAIN reservations,
           \A m \in DOMAIN reservations' : reservations'[m] = reservations[m],
           admission' = Free
    PROVE  /\ SerialInv'
           /\ ~overlapped' => \A s \in DOMAIN snapshots :
                 s \in DOMAIN snapshots' /\ snapshots[s] \subseteq snapshots'[s]
<1>1. overlapped' \in BOOLEAN /\ (overlapped => overlapped')
  BY DEF Observe, SerialInv
<1>2. ASSUME ~overlapped'
      PROVE  /\ SnapshotAccountingExact' /\ UsedWithinQuota'
             /\ ReservationsPrepared' /\ PendingFits'
  <2>1. ~overlapped
    BY <1>1, <1>2
  <2>2. SnapshotAccountingExact'
    BY <2>1, PreparedApplied DEF SerialInv
  <2>3. UNCHANGED seen \/ DOMAIN reservations' = {}
    BY <1>2 DEF Observe
  <2>4. ReservationsPrepared'
    BY <2>1, <2>3, StaysPrepared DEF SerialInv, ReservationsPrepared, seen
  <2>5. PendingFits'
    BY DEF PendingFits, Free
  <2>6. QED
    BY <2>1, <2>2, <2>4, <2>5
<1>3. ASSUME ~overlapped'
      PROVE  \A s \in DOMAIN snapshots :
                 s \in DOMAIN snapshots' /\ snapshots[s] \subseteq snapshots'[s]
  BY <1>1, <1>3, PreparedKeepsLines
<1>4. QED
  BY <1>1, <1>2, <1>3 DEF SerialInv

\* A step that has the lock, suspends nobody and charges no more than fits.
LEMMA SerialCharges ==
    ASSUME SerialInv, Observe, UNCHANGED <<seen, reserved>>, admission' = Free,
           ~overlapped => used_bytes' + reserved_snapshot_bytes <= SessionLimit
    PROVE  SerialInv'
<1>1. ~overlapped => UsedWithinQuota' /\ PendingFits'
  BY DEF reserved, UsedWithinQuota, PendingFits, Free
<1>2. QED
  BY <1>1, SerialQuiet

\* Or gives back some of what it had.
LEMMA SerialYields ==
    ASSUME TypeOK, SerialInv, Observe, UNCHANGED <<seen, reserved>>, admission' = Free,
           used_bytes' <= used_bytes, used_bytes' \in Int
    PROVE  SerialInv'
<1>1. ~overlapped => used_bytes' + reserved_snapshot_bytes <= SessionLimit
  BY LimitsAssumption DEF SerialInv, UsedWithinQuota, TypeOK
<1>2. QED
  BY <1>1, SerialCharges

\* Artifacts: a call that is refused, one that is suspended, and their ends.
LEMMA RetainSerial ==
    ASSUME LedgerInv, SerialInv, Observe, NEW content \in Content, NEW s \in Seen,
           \/ RetainReuse(content, s[1], s[2])
           \/ RetainRefused(content, s[1], s[2])
           \/ RetainBegin(content, s[1], s[2])
    PROVE  /\ SerialInv'
           /\ ~overlapped' => \A k \in DOMAIN snapshots :
                 k \in DOMAIN snapshots' /\ snapshots[k] \subseteq snapshots'[k]
<1> DEFINE update == Update(s[1], s[2])
<1>1. s[1] \in Snapshot \cup {None} /\ s[2] \in SUBSET Line /\ TypeOK
  BY DEF Seen, Shown, LedgerInv
<1>2. Preparable(s[1]) /\ admission = Free
  BY DEF RetainReuse, RetainRefused, RetainBegin, Retainable, Live
<1>3. update \in UpdateType /\ Prepared(update)
  BY <1>1, <1>2, UpdateTyped, UpdatePrepared
<1> HIDE DEF update
<1>4. CASE RetainReuse(content, s[1], s[2])
  <2>1. /\ CombinedFits({}, update.next, 0) /\ used_bytes' = Combined({}, update.next, 0)
        /\ ApplyUpdate(update) /\ UNCHANGED <<admission, reserved>>
    BY <1>4 DEF RetainReuse, update
  <2>2. UsedWithinQuota'
    BY <2>1 DEF CombinedFits, UsedWithinQuota, reserved
  <2>3. QED
    BY <1>1, <1>2, <1>3, <2>1, <2>2, SerialPublishes DEF reserved
<1>5. CASE RetainRefused(content, s[1], s[2])
  <2>1. PICK E \in SUBSET DOMAIN cache : used_bytes' = UsedWithout(E)
    BY <1>5 DEF RetainRefused
  <2>2. UNCHANGED <<admission, seen, reserved>>
    BY <1>5 DEF RetainRefused
  <2>3. UsedWithout(E) <= used_bytes /\ UsedWithout(E) \in Nat
    BY <1>1, YieldedLess, Yielding DEF LedgerInv
  <2>4. QED
    BY <1>1, <1>2, <2>1, <2>2, <2>3, SerialYields DEF seen
<1>6. CASE RetainBegin(content, s[1], s[2])
  <2>1. PICK E \in SUBSET DOMAIN cache :
          /\ ArtifactFits(E, content, update.next)
          /\ used_bytes' = UsedWithout(E)
          /\ admission' = [op |-> "retain", id |-> next_object_id,
                           content |-> content, update |-> update,
                           bytes |-> Combined(E, update.next, SizeOf[content])]
    BY <1>6 DEF RetainBegin, update
  <2>2. UNCHANGED <<seen, reserved>>
    BY <1>6 DEF RetainBegin
  <2>3. UsedWithout(E) <= used_bytes /\ UsedWithout(E) \in Nat
    BY <1>1, YieldedLess, Yielding DEF LedgerInv
  <2>4. UsedWithinQuota => UsedWithinQuota'
    BY <1>1, <2>1, <2>2, <2>3, LimitsAssumption DEF UsedWithinQuota, reserved, TypeOK
  <2>5. PendingFits'
    <3>1. /\ admission'.op = "retain" /\ admission'.update = update
          /\ admission'.bytes = Combined(E, update.next, SizeOf[content])
      BY <2>1
    <3>2. Prepared(admission.update)'
      BY <1>3, <2>2, <3>1 DEF Prepared, Displayed, seen
    <3>3. admission'.bytes + reserved_snapshot_bytes' <= SessionLimit
      BY <2>1, <2>2, <3>1 DEF ArtifactFits, CombinedFits, reserved
    <3>4. QED
      BY <3>1, <3>2, <3>3 DEF PendingFits
  <2>6. QED
    BY <2>2, <2>4, <2>5, SerialQuiet DEF SerialInv, seen
<1>7. QED
  BY <1>4, <1>5, <1>6

\* The storage answers the suspended call.
LEMMA StorageSerial ==
    ASSUME LedgerInv, SerialInv, Observe, StorageAnswers
    PROVE  /\ SerialInv'
           /\ ~overlapped' => \A k \in DOMAIN snapshots :
                 k \in DOMAIN snapshots' /\ snapshots[k] \subseteq snapshots'[k]
<1>1. TypeOK
  BY DEF LedgerInv
<1>2. CASE RetainPublish
  <2>1. /\ admission.op = "retain" /\ ApplyUpdate(admission.update)
        /\ used_bytes' = admission.bytes /\ admission' = Free /\ UNCHANGED reserved
    BY <1>2 DEF RetainPublish
  <2>2. admission.update \in UpdateType
    BY <1>1, <2>1, Pending
  <2>3. ~overlapped => Prepared(admission.update) /\ UsedWithinQuota'
    BY <2>1 DEF SerialInv, PendingFits, UsedWithinQuota, reserved
  <2>4. QED
    BY <1>1, <2>1, <2>2, <2>3, SerialPublishes DEF reserved
<1>3. CASE RetainAbandon \/ ScratchPutFailed
  <2>1. UNCHANGED <<seen, reserved, used_bytes>> /\ admission' = Free
    BY <1>3 DEF RetainAbandon, ScratchPutFailed
  <2>2. QED
    BY <1>1, <2>1, SerialYields DEF TypeOK, seen
<1>4. CASE ScratchPutPublish
  <2>1. /\ admission.op = "scratch" /\ used_bytes' = admission.bytes /\ admission' = Free
        /\ UNCHANGED <<seen, reserved>>
    BY <1>4 DEF ScratchPutPublish
  <2>2. ~overlapped => used_bytes' + reserved_snapshot_bytes <= SessionLimit
    BY <2>1 DEF SerialInv, PendingFits
  <2>3. QED
    BY <2>1, <2>2, SerialCharges DEF seen
<1>5. QED
  BY <1>2, <1>3, <1>4 DEF StorageAnswers

\* Session Scratch.
LEMMA ScratchSerial ==
    ASSUME LedgerInv, SerialInv, Observe, Scratch
    PROVE  SerialInv' /\ UNCHANGED seen
<1>1. TypeOK /\ ObjectAccounting
  BY DEF LedgerInv
<1>2. ASSUME NEW name \in Name, NEW content \in Content, ScratchPutRefused(name, content)
      PROVE  SerialInv' /\ UNCHANGED seen
  <2>1. PICK E \in SUBSET DOMAIN cache : used_bytes' = UsedWithout(E)
    BY <1>2 DEF ScratchPutRefused
  <2>2. UNCHANGED <<admission, seen, reserved>> /\ admission = Free
    BY <1>2 DEF ScratchPutRefused, Live
  <2>3. UsedWithout(E) <= used_bytes /\ UsedWithout(E) \in Nat
    BY <1>1, YieldedLess, Yielding
  <2>4. QED
    BY <1>1, <2>1, <2>2, <2>3, SerialYields
<1>3. ASSUME NEW name \in Name, NEW content \in Content, ScratchPutBegin(name, content)
      PROVE  SerialInv' /\ UNCHANGED seen
  <2>1. PICK E \in SUBSET DOMAIN cache :
          /\ ScratchFits(E, name, content)
          /\ used_bytes' = UsedWithout(E)
          /\ \E id : admission' =
                [op |-> "scratch", id |-> id, name |-> name, content |-> content,
                 bytes |-> Resulting(E, ScratchSize(name), SizeOf[content])]
    BY <1>3 DEF ScratchPutBegin
  <2>2. UNCHANGED <<seen, reserved>>
    BY <1>3 DEF ScratchPutBegin
  <2>3. UsedWithout(E) <= used_bytes /\ UsedWithout(E) \in Nat
    BY <1>1, YieldedLess, Yielding
  <2>4. UsedWithinQuota => UsedWithinQuota'
    BY <1>1, <2>1, <2>2, <2>3, LimitsAssumption DEF UsedWithinQuota, reserved, TypeOK
  <2>5. PendingFits'
    <3>1. /\ admission'.op = "scratch"
          /\ admission'.bytes = Resulting(E, ScratchSize(name), SizeOf[content])
      BY <2>1
    <3>2. admission'.bytes + reserved_snapshot_bytes' <= SessionLimit
      BY <2>1, <2>2, <3>1 DEF ScratchFits, ResultingFits, reserved
    <3>3. QED
      BY <3>1, <3>2 DEF PendingFits
  <2>6. QED
    BY <2>2, <2>4, <2>5, SerialQuiet DEF SerialInv
<1>4. ASSUME NEW name \in Name, ScratchRemove(name)
      PROVE  SerialInv' /\ UNCHANGED seen
  <2>1. /\ used_bytes' = used_bytes - ScratchSize(name)
        /\ UNCHANGED <<admission, seen, reserved>> /\ admission = Free
    BY <1>4 DEF ScratchRemove, Admitted
  <2>2. ScratchSize(name) \in Nat /\ used_bytes \in Nat
    BY <1>1, ScratchSizeType, LedgerWeights DEF TypeOK
  <2>3. used_bytes' <= used_bytes /\ used_bytes' \in Int
    BY <2>1, <2>2
  <2>4. QED
    BY <1>1, <2>1, <2>3, SerialYields
<1>5. ASSUME NEW from \in Name, NEW to \in Name, ScratchRename(from, to)
      PROVE  SerialInv' /\ UNCHANGED seen
  <2>1. UNCHANGED <<admission, used_bytes, seen, reserved>> /\ admission = Free
    BY <1>5 DEF ScratchRename, Admitted
  <2>2. QED
    BY <1>1, <2>1, SerialYields DEF TypeOK
<1>6. QED
  BY <1>2, <1>3, <1>4, <1>5 DEF Scratch

\* The cache.
LEMMA CacheSerial ==
    ASSUME LedgerInv, SerialInv, Observe, Cache
    PROVE  SerialInv' /\ UNCHANGED seen
<1>1. TypeOK /\ ObjectAccounting
  BY DEF LedgerInv
<1>2. ASSUME NEW key \in CacheKey, CacheGet(key)
      PROVE  SerialInv' /\ UNCHANGED seen
  <2>1. UNCHANGED <<admission, used_bytes, seen, reserved>> /\ admission = Free
    BY <1>2 DEF CacheGet, Admitted
  <2>2. QED
    BY <1>1, <2>1, SerialYields DEF TypeOK
<1>3. ASSUME NEW key \in CacheKey, NEW bytes \in EntryBytes, CachePut(key, bytes)
      PROVE  SerialInv' /\ UNCHANGED seen
  <2>1. UNCHANGED <<admission, seen, reserved>> /\ admission = Free
    BY <1>3 DEF CachePut, Admitted
  <2>2. PICK E \in SUBSET (DOMAIN cache \ {key}) :
          IF CacheFits(E, key, bytes)
          THEN used_bytes' = Resulting(E, CachedBytes(key), bytes)
          ELSE used_bytes' = UsedWithout(E)
    BY <1>3 DEF CachePut
  <2>3. CASE CacheFits(E, key, bytes)
    <3>1. used_bytes' + reserved_snapshot_bytes <= SessionLimit
      BY <2>2, <2>3 DEF CacheFits, ResultingFits
    <3>2. QED
      BY <2>1, <3>1, SerialCharges
  <2>4. CASE ~CacheFits(E, key, bytes)
    <3>1. UsedWithout(E) <= used_bytes /\ UsedWithout(E) \in Nat
      BY <1>1, YieldedLess, Yielding
    <3>2. QED
      BY <1>1, <2>1, <2>2, <2>4, <3>1, SerialYields
  <2>5. QED
    BY <2>3, <2>4
<1>4. ASSUME NEW E, CacheRemove(E)
      PROVE  SerialInv' /\ UNCHANGED seen
  <2>1. /\ UNCHANGED <<admission, seen, reserved>> /\ admission = Free
        /\ used_bytes' = UsedWithout(E) /\ E \subseteq DOMAIN cache
    BY <1>4 DEF CacheRemove, Admitted
  <2>2. UsedWithout(E) <= used_bytes /\ UsedWithout(E) \in Nat
    BY <1>1, <2>1, YieldedLess, Yielding
  <2>3. QED
    BY <1>1, <2>1, <2>2, SerialYields
<1>5. QED
  BY <1>2, <1>3, <1>4 DEF Cache

\* The journal.
LEMMA JournalSerial ==
    ASSUME LedgerInv, SerialInv, Observe, Journal
    PROVE  SerialInv' /\ UNCHANGED seen
<1>1. TypeOK /\ ObjectAccounting
  BY DEF LedgerInv
<1>2. PICK operation \in Operation, bytes \in OperationBytes :
        BeginMutationOperation(operation, bytes)
  BY DEF Journal
<1>3. UNCHANGED <<admission, seen, reserved>> /\ admission = Free
  BY <1>2 DEF BeginMutationOperation, Live
<1>4. PICK E \in SUBSET DOMAIN cache :
        IF ResultingFits(E, 0, bytes) THEN used_bytes' = Resulting(E, 0, bytes)
        ELSE used_bytes' = UsedWithout(E)
  BY <1>2 DEF BeginMutationOperation
<1>5. CASE ResultingFits(E, 0, bytes)
  <2>1. used_bytes' + reserved_snapshot_bytes <= SessionLimit
    BY <1>4, <1>5 DEF ResultingFits
  <2>2. QED
    BY <1>3, <2>1, SerialCharges
<1>6. CASE ~ResultingFits(E, 0, bytes)
  <2>1. UsedWithout(E) <= used_bytes /\ UsedWithout(E) \in Nat
    BY <1>1, YieldedLess, Yielding
  <2>2. QED
    BY <1>1, <1>3, <1>4, <1>6, <2>1, SerialYields
<1>7. QED
  BY <1>5, <1>6

\* Snapshots: a reservation is prepared as it is taken, and is still what
\* would be prepared when it is published, unless it was overtaken.
LEMMA SnapshotsSerial ==
    ASSUME LedgerInv, SerialInv, Observe, Snapshots
    PROVE  /\ SerialInv'
           /\ ~overlapped' => \A k \in DOMAIN snapshots :
                 k \in DOMAIN snapshots' /\ snapshots[k] \subseteq snapshots'[k]
<1>1. TypeOK
  BY DEF LedgerInv
<1>2. ASSUME NEW key \in Snapshot, NEW lines \in Shown, RecordSeen(key, lines)
      PROVE  /\ SerialInv'
             /\ ~overlapped' => \A k \in DOMAIN snapshots :
                   k \in DOMAIN snapshots' /\ snapshots[k] \subseteq snapshots'[k]
  <2> DEFINE update == Update(key, lines)
  <2>1. /\ CombinedFits({}, update.next, 0) /\ used_bytes' = Combined({}, update.next, 0)
        /\ ApplyUpdate(update) /\ UNCHANGED <<admission, reserved>> /\ admission = Free
        /\ Preparable(key)
    BY <1>2 DEF RecordSeen, RecordSeenFits, Live
  <2>2. update \in UpdateType /\ Prepared(update)
    BY <1>1, <2>1, UpdateTyped, UpdatePrepared DEF Shown
  <2> HIDE DEF update
  <2>3. UsedWithinQuota'
    BY <2>1 DEF CombinedFits, UsedWithinQuota, reserved
  <2>4. QED
    BY <1>1, <2>1, <2>2, <2>3, SerialPublishes DEF reserved
<1>3. ASSUME NEW m \in Mutation, NEW key \in Snapshot, NEW lines \in Shown,
             ReserveSeen(m, key, lines)
      PROVE  SerialInv' /\ UNCHANGED seen
  <2> DEFINE update == Update(key, lines)
             bytes == ReservedBytes(key, lines)
  <2>1. /\ admission = Free /\ m \notin DOMAIN reservations /\ Preparable(key)
        /\ used_bytes + reserved_snapshot_bytes + bytes <= SessionLimit
        /\ reserved_snapshot_bytes' = reserved_snapshot_bytes + bytes
        /\ reservations' = Put(reservations, m, [update |-> update, bytes |-> bytes])
        /\ UNCHANGED <<admission, used_bytes, seen>>
    BY <1>3 DEF ReserveSeen
  <2>2. Prepared(update) /\ update.next <= snapshot_bytes + bytes
    BY <1>1, <2>1, UpdatePrepared, NoneAssumption DEF Shown
  <2>3. bytes \in Nat
    BY RangesBytesType, SizesAssumption DEF ReservedBytes, Shown
  <2> HIDE DEF update, bytes
  <2>4. overlapped' = overlapped
    BY <2>1 DEF Observe, SerialInv
  <2>5. UsedWithinQuota'
    BY <1>1, <2>1, <2>3 DEF UsedWithinQuota, TypeOK
  <2>6. ~overlapped => ReservationsPrepared'
    <3> SUFFICES ASSUME ~overlapped, NEW n \in DOMAIN reservations'
                 PROVE  /\ Prepared(reservations[n].update)'
                        /\ reservations'[n].update.next <= snapshot_bytes' + reservations'[n].bytes
      BY DEF ReservationsPrepared
    <3>1. CASE n = m
      <4>1. reservations'[n] = [update |-> update, bytes |-> bytes]
        BY <2>1, <3>1 DEF Put
      <4>2. reservations'[n].update = update /\ reservations'[n].bytes = bytes
        BY <4>1
      <4>3. QED
        BY <2>1, <2>2, <4>2 DEF Prepared, Displayed, seen
    <3>2. CASE n # m
      <4>1. n \in DOMAIN reservations /\ reservations'[n] = reservations[n]
        BY <2>1, <3>2 DEF Put
      <4>2. QED
        BY <2>1, <4>1 DEF SerialInv, ReservationsPrepared, Prepared, Displayed, seen
    <3>3. QED
      BY <3>1, <3>2
  <2>7. SnapshotAccountingExact' <=> SnapshotAccountingExact
    BY <2>1 DEF seen, SnapshotAccountingExact, SnapshotBytes
  <2>8. PendingFits'
    BY <2>1 DEF PendingFits, Free
  <2>9. QED
    BY <2>1, <2>4, <2>5, <2>6, <2>7, <2>8 DEF SerialInv
<1>4. ASSUME NEW m \in Mutation, PublishSeen(m)
      PROVE  /\ SerialInv'
             /\ ~overlapped' => \A k \in DOMAIN snapshots :
                   k \in DOMAIN snapshots' /\ snapshots[k] \subseteq snapshots'[k]
  <2> DEFINE u == reservations[m].update
  <2>1. /\ admission = Free /\ m \in DOMAIN reservations
        /\ reserved_snapshot_bytes' = reserved_snapshot_bytes - reservations[m].bytes
        /\ used_bytes' = (used_bytes - snapshot_bytes) + u.next
        /\ ApplyUpdate(u) /\ reservations' = Without(reservations, {m}) /\ UNCHANGED admission
    BY <1>4 DEF PublishSeen
  <2>2. u \in UpdateType /\ u.next \in Nat /\ reservations[m].bytes \in Nat
    BY <1>1, <2>1 DEF TypeOK, IsMap, UpdateType
  <2>3. ~overlapped => Prepared(u) /\ UsedWithinQuota'
    <3> SUFFICES ASSUME ~overlapped PROVE Prepared(u) /\ UsedWithinQuota'
      OBVIOUS
    <3>1. Prepared(u) /\ u.next <= snapshot_bytes + reservations[m].bytes
      BY <2>1 DEF SerialInv, ReservationsPrepared
    <3>2. used_bytes + reserved_snapshot_bytes <= SessionLimit
      BY DEF SerialInv, UsedWithinQuota
    <3>3. /\ used_bytes \in Nat /\ snapshot_bytes \in Nat /\ reserved_snapshot_bytes \in Nat
          /\ SessionLimit \in Nat
      BY <1>1, LimitsAssumption DEF TypeOK
    <3>4. UsedWithinQuota'
      BY <2>1, <2>2, <3>1, <3>2, <3>3 DEF UsedWithinQuota
    <3>5. QED
      BY <3>1, <3>4
  <2>4. /\ DOMAIN reservations' \subseteq DOMAIN reservations
        /\ \A n \in DOMAIN reservations' : reservations'[n] = reservations[n]
    BY <2>1 DEF Without
  <2> HIDE DEF u
  <2>5. QED
    BY <1>1, <2>1, <2>2, <2>3, <2>4, SerialPublishes
<1>5. ASSUME NEW m \in Mutation, ReleaseSeen(m)
      PROVE  SerialInv' /\ UNCHANGED seen
  <2>1. /\ admission = Free /\ m \in DOMAIN reservations
        /\ reserved_snapshot_bytes' = reserved_snapshot_bytes - reservations[m].bytes
        /\ reservations' = Without(reservations, {m})
        /\ UNCHANGED <<admission, used_bytes, seen>>
    BY <1>5 DEF ReleaseSeen
  <2>2. reservations[m].bytes \in Nat
    BY <1>1, <2>1 DEF TypeOK, IsMap
  <2>3. overlapped' = overlapped
    BY <2>1 DEF Observe, SerialInv
  <2>4. UsedWithinQuota => UsedWithinQuota'
    BY <1>1, <2>1, <2>2, LimitsAssumption DEF UsedWithinQuota, TypeOK
  <2>5. /\ DOMAIN reservations' \subseteq DOMAIN reservations
        /\ \A n \in DOMAIN reservations' : reservations'[n] = reservations[n]
    BY <2>1 DEF Without
  <2>6. ReservationsPrepared => ReservationsPrepared'
    BY <2>1, <2>5 DEF ReservationsPrepared, Prepared, Displayed, seen
  <2>7. SnapshotAccountingExact' <=> SnapshotAccountingExact
    BY <2>1 DEF seen, SnapshotAccountingExact, SnapshotBytes
  <2>8. PendingFits'
    BY <2>1 DEF PendingFits, Free
  <2>9. QED
    BY <2>1, <2>3, <2>4, <2>6, <2>7, <2>8 DEF SerialInv
<1>6. UNCHANGED seen => \A k \in DOMAIN snapshots :
                            k \in DOMAIN snapshots' /\ snapshots[k] \subseteq snapshots'[k]
  BY DEF seen
<1>7. QED
  BY <1>2, <1>3, <1>4, <1>5, <1>6 DEF Snapshots

\* At first nothing is overtaken, and nothing is shown.
LEMMA SerialBegins == SerialInit => SerialInv
<1> SUFFICES ASSUME SerialInit PROVE SerialInv
  OBVIOUS
<1>1. SnapshotAccountingExact
  <2>1. SnapshotBytes = << >>
    BY DEF SerialInit, Init, SnapshotBytes
  <2>2. QED
    BY <2>1, WeightEmpty DEF SerialInit, Init, SnapshotAccountingExact
<1>2. UsedWithinQuota /\ ReservationsPrepared /\ PendingFits
  BY LimitsAssumption
     DEF SerialInit, Init, UsedWithinQuota, ReservationsPrepared, PendingFits, Free
<1>3. QED
  BY <1>1, <1>2 DEF SerialInit, SerialInv

\* One case per disjunct of Next.
LEMMA SerialStep ==
    ASSUME LedgerInv, SerialInv, [SerialNext]_serialVars
    PROVE  /\ SerialInv'
           /\ ~overlapped' => \A k \in DOMAIN snapshots :
                 k \in DOMAIN snapshots' /\ snapshots[k] \subseteq snapshots'[k]
<1>1. UNCHANGED seen => \A k \in DOMAIN snapshots :
                            k \in DOMAIN snapshots' /\ snapshots[k] \subseteq snapshots'[k]
  BY DEF seen
<1>2. CASE Observe /\ (Invalidate \/ UNCHANGED vars)
  <2>1. UNCHANGED <<admission, used_bytes, seen, reserved>>
    BY <1>2 DEF Invalidate, vars
  <2>2. UsedWithinQuota => UsedWithinQuota'
    BY <2>1 DEF UsedWithinQuota, reserved
  <2>3. PendingFits => PendingFits'
    BY <2>1, StaysPrepared DEF PendingFits, reserved
  <2>4. QED
    BY <1>1, <1>2, <2>1, <2>2, <2>3, SerialQuiet DEF SerialInv
<1>3. CASE Observe /\ Retain
  <2>1. PICK content \in Content, s \in Seen :
          \/ RetainReuse(content, s[1], s[2])
          \/ RetainRefused(content, s[1], s[2])
          \/ RetainBegin(content, s[1], s[2])
    BY <1>3 DEF Retain
  <2>2. QED
    BY <1>3, <2>1, RetainSerial
<1>4. CASE UNCHANGED serialVars
  <2>1. UNCHANGED vars /\ overlapped' = overlapped
    BY <1>4 DEF serialVars
  <2>2. UNCHANGED <<admission, used_bytes, seen, reserved>>
    BY <2>1 DEF vars
  <2>3. Observe
    BY <2>1, <2>2 DEF Observe, SerialInv
  <2>4. QED
    BY <1>2, <2>1, <2>3
<1>5. QED
  BY <1>1, <1>2, <1>3, <1>4, StorageSerial, ScratchSerial, CacheSerial, JournalSerial,
     SnapshotsSerial DEF SerialNext, Next

\* A session that is observed is a session.
LEMMA SerialInductive == SerialSpec => [](LedgerInv /\ PlacedInv /\ SerialInv)
<1>1. SerialInit => LedgerInv /\ PlacedInv /\ SerialInv
  BY LedgerInit, PlacedInit, SerialBegins DEF SerialInit
<1>2. (LedgerInv /\ PlacedInv /\ SerialInv) /\ [SerialNext]_serialVars
        => (LedgerInv /\ PlacedInv /\ SerialInv)'
  <2> SUFFICES ASSUME LedgerInv, PlacedInv, SerialInv, [SerialNext]_serialVars
               PROVE  LedgerInv' /\ PlacedInv' /\ SerialInv'
    OBVIOUS
  <2>1. [Next]_vars
    BY DEF SerialNext, serialVars
  <2>2. QED
    BY <2>1, LedgerStep, PlacedStep, SerialStep DEF LedgerInv, PlacedInv
<1>3. QED
  BY <1>1, <1>2, PTL DEF SerialSpec

\* Without a reservation that was overtaken, the counter publish_seen stores is
\* to the byte what the snapshots cost, and what is used and reserved stays under
\* limits.session_bytes(): its `expect` on checked_add cannot fail.
THEOREM SerialLedgerExact == SerialSpec => []SerialLedger
<1>1. SerialInv => SerialLedger
  BY DEF SerialInv, SerialLedger
<1>2. QED
  BY <1>1, SerialInductive, PTL

\* And no call makes a snapshot forget a line it displayed.
THEOREM SerialLinesStay == SerialSpec => SerialLinesKept
<1> DEFINE Kept == ~overlapped' =>
              \A s \in DOMAIN snapshots :
                  s \in DOMAIN snapshots' /\ snapshots[s] \subseteq snapshots'[s]
<1>1. (LedgerInv /\ SerialInv) /\ [SerialNext]_serialVars => [Kept]_vars
  BY SerialStep
<1>2. QED
  BY <1>1, SerialInductive, PTL DEF SerialSpec, SerialLinesKept
=============================================================================
