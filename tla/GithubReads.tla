----------------------------- MODULE GithubReads -----------------------------
(***************************************************************************)
(* Reads of GitHub resources beside mutations of the same session:         *)
(* github/mod.rs (listings and single rows), github/fetch.rs (conditional  *)
(* fetches over the session's response cache, confined pagination),        *)
(* github/facts.rs with facts/collection.rs, comment.rs, commit.rs and     *)
(* source.rs (bounded acquisition with honest coverage), and the response  *)
(* cache of core/session.rs with its generation, which a confirmed         *)
(* mutation bumps (github/mutation.rs).  The reads are of six kinds:       *)
(*   "comments"  the conversation under an issue or a pull request         *)
(*   "diff"      the listing of a pull request's files                     *)
(*   "row"       one of these files by its number                          *)
(*   "facts"     a collection under limits, with its coverage              *)
(*   "item"      one record of such a collection                           *)
(*   "source"    a file of a commit, through the trees on its path         *)
(*                                                                         *)
(* The upstream is a list of records that mutations and strangers change;  *)
(* each change makes a VERSION of it, and a response body is the parent    *)
(* (key 0), a page (key 1, 2, ..) or an object of one version.  The        *)
(* validator of a body is its version, so the upstream answers 304 only    *)
(* while nothing has changed.  Each reader takes the admission lock of the session once per  *)
(* step: to read the generation, to look into the cache, to store into it; *)
(* anything may happen between two steps.  The attempts of a fetch and its *)
(* redirects are HttpSubstrate's: here a fetch is one exchange that        *)
(* charges one attempt, or two when the one retry is spent.                *)
(***************************************************************************)
EXTENDS Integers, Sequences, FiniteSets, FiniteSetsExt, Functions

CONSTANTS
    Readers, Mutators,
    PageSize,       \* records of an upstream page
    First,          \* the records of the first version
    Fresh,          \* records that changes may append, a sequence
    Heavy,          \* the records that are longer than others
    Numbers,        \* the numbers by which files are asked for
    Limits,         \* the limits a facts read may have: [attempts, bytes, length]
    MaxRecords,     \* MAX_COLLECTION_RECORDS
    MaxPages,       \* MAX_PAGES_PER_OPERATION of a plain read
    Unrepresentable,\* pages whose continuation handle is too long
    MaxVersions,    \* bound: versions of the upstream
    MaxFaults,      \* bound: upstream faults
    MaxReads        \* bound: reads of one reader

VARIABLES
    versions,    \* the upstream's lists, the newest last
    faults,      \* faults so far
    cache,       \* the session's response cache: key -> body
    generation,  \* its invalidation generation
    settled,     \* version made by the newest mutation that was confirmed (history)
    reader,      \* the state of each reader
    mutator      \* the state of each mutator: [pc, made]

vars == <<versions, faults, cache, generation, settled, reader, mutator>>

Version == Len(versions)

LastKey == (Len(First) + Len(Fresh)) \div PageSize + 1
Pages == 1..LastKey

\* A record or a tree, and a blob, under their own URLs.
Object == LastKey + 1
Blob == LastKey + 2
Keys == 0..Blob

NoBody == [at |-> 0, records |-> <<>>, next |-> 0]

\* What the upstream holds under a key in version v.
Body(v, key) ==
    LET list == versions[v]
    IN IF key \notin Pages THEN [at |-> v, records |-> <<>>, next |-> 0]
       ELSE [at |-> v,
             records |-> SubSeq(list, (key - 1) * PageSize + 1, Min({key * PageSize, Len(list)})),
             next |-> IF key * PageSize < Len(list) THEN key + 1 ELSE 0]

\* A body weighs a byte, and a byte, or three, for each record.
Weight(body) ==
    1 + Len(body.records) + 2 * Cardinality({i \in DOMAIN body.records : body.records[i] \in Heavy})

\* The terminal outcomes of a collection (CollectionStop): resume is the page
\* of the continuation, 0 for none.
Stop(state, reason, resume) == [state |-> state, reason |-> reason, resume |-> resume]
Running == Stop("running", "none", 0)
Complete == Stop("complete", "none", 0)

\* Mutant: pages that come round again are the end of the collection.
UnknownIsComplete(reason) == Complete

Unknown(reason) == Stop("unknown", reason, 0)
Incomplete(reason, resume) == Stop("incomplete", reason, resume)
Failed(reason) == Stop("error", reason, 0)

\* The final representation: records and the stop, which is longer the more it
\* has to say (measure_candidate, serialized_len).
Length(count, stop) ==
    count + Cardinality({part \in {"resume", "incomplete", "reason"} :
                            \/ part = "resume" /\ stop.resume # 0
                            \/ part = "incomplete" /\ stop.state = "incomplete"
                            \/ part = "reason" /\ stop.reason # "none"})

\* CursorOwner::continuation.
Continuation(page) == IF page \in Unrepresentable THEN 0 ELSE page

\* actual_stop.
StopAt(next) ==
    IF next = 0 THEN Complete
    ELSE IF Continuation(next) = 0 THEN Unknown("continuation_unrepresentable")
    ELSE Stop("incomplete", "none", next)

NoResponse == [kind |-> "none", body |-> NoBody, etag |-> FALSE]

NoLimits == [attempts |-> 0, bytes |-> 0, length |-> 0]

\* The reads that keep within limits and to one generation of the cache; those
\* that are scoped by a parent; and those that follow the pages of a listing.
Controlled == {"facts", "item", "source"}
Scoped == Controlled \cup {"comments"}
Paged == {"facts", "comments", "diff"}

Idle(reads) ==
    [pc |-> "idle", kind |-> "facts", from |-> 1, key |-> 0, generation |-> 0, base |-> -1,
     cached |-> NoBody, response |-> NoResponse, attempts |-> 0, retry |-> TRUE, bytes |-> 0,
     limits |-> NoLimits,
     parentBytes |-> 0, seen |-> {}, pages |-> <<>>, records |-> <<>>, read |-> {},
     broken |-> FALSE, stop |-> Running, floor |-> 0, resumed |-> 0, reads |-> reads]

Init ==
    /\ versions = <<First>> /\ faults = 0
    /\ cache = [k \in Keys |-> NoBody] /\ generation = 0 /\ settled = 0
    /\ reader = [x \in Readers |-> Idle(0)]
    /\ mutator = [m \in Mutators |-> [pc |-> "ready", made |-> 0]]

-----------------------------------------------------------------------------
(* The session's response cache: core/session.rs *)

\* Mutant: a response is stored whatever was invalidated since it was asked for.
PutLate(key, body, captured) == cache' = [cache EXCEPT ![key] = body]

\* cache_put_if_generation.
Put(key, body, captured) ==
    cache' = IF captured = generation THEN [cache EXCEPT ![key] = body] ELSE cache

\* cache_remove_if_generation.
Evacuate(key, captured) == Put(key, NoBody, captured)

\* cache_remove_namespace.
Invalidate ==
    /\ generation' = generation + 1
    /\ cache' = [k \in Keys |-> NoBody]

-----------------------------------------------------------------------------
(* Readers *)

Step(x, r) == reader' = [reader EXCEPT ![x] = r]

\* The page that lists the row of this number.
PageOf(number) == (number - 1) \div PageSize + 1

\* read and facts_resource up to the first await: a scoped read begins with
\* its parent, or with what else must exist (the gate of an issue's comments).
Begin(x, kind, from, limits) ==
    LET r == reader[x] IN
    /\ r.pc \in {"idle", "answered"} /\ r.reads < MaxReads
    /\ from = 1 \/ from = r.stop.resume \/ kind = "row"
    /\ Step(x, [Idle(r.reads + 1) EXCEPT !.pc = "capture", !.kind = kind, !.from = from,
                    !.key = IF kind \in Scoped THEN 0
                            ELSE IF kind = "row" THEN PageOf(from) ELSE from,
                    !.limits = limits, !.attempts = limits.attempts, !.floor = settled,
                    !.resumed = IF from # 1 /\ r.stop.reason = "bytes" /\ limits = r.limits
                                THEN r.response.body.at ELSE 0])
    /\ UNCHANGED <<versions, faults, cache, generation, settled, mutator>>

\* check_generation before a page.
Guard(x) ==
    LET r == reader[x] IN
    /\ r.pc = "guard"
    /\ Step(x, IF generation = r.base THEN [r EXCEPT !.pc = "capture"]
               ELSE [r EXCEPT !.pc = "answered", !.stop = Failed("generation_changed")])
    /\ UNCHANGED <<versions, faults, cache, generation, settled, mutator>>

\* fetch_controlled captures the generation.
Capture(x) ==
    /\ reader[x].pc = "capture"
    /\ Step(x, [reader[x] EXCEPT !.pc = "lookup", !.generation = generation])
    /\ UNCHANGED <<versions, faults, cache, generation, settled, mutator>>

\* cache_get, and whether the request headers can carry the validator.
Lookup(x) ==
    LET r == reader[x] IN
    /\ r.pc = "lookup"
    /\ \E pc \in IF cache[r.key] = NoBody THEN {"send"} ELSE {"send", "forget"} :
          Step(x, [r EXCEPT !.pc = pc, !.cached = cache[r.key]])
    /\ UNCHANGED <<versions, faults, cache, generation, settled, mutator>>

\* A validator the headers cannot carry: the entry is dropped and the request
\* unconditional.
Forget(x) ==
    LET r == reader[x] IN
    /\ r.pc = "forget"
    /\ Evacuate(r.key, r.generation)
    /\ Step(x, [r EXCEPT !.pc = "send", !.cached = NoBody])
    /\ UNCHANGED <<versions, faults, generation, settled, mutator>>

\* What one exchange may charge: an attempt, or two when the retry is spent.
Charges(r) == IF r.kind \notin Controlled THEN {0}
              ELSE {1} \cup (IF r.retry /\ r.attempts > 1 THEN {2} ELSE {})

\* The upstream answers the request, and the answer is on its way.
Exchange(x) ==
    LET r == reader[x]
        now == Body(Version, r.key)
    IN
    /\ r.pc = "send"
    /\ r.kind \in Controlled => r.attempts > 0
    /\ \E spent \in Charges(r) :
       \E kind \in {"body", "unchanged", "unavailable", "denied", "truncated", "malformed",
                    "mismatch", "astray", "repeat"} :
          /\ kind = "unchanged" => r.cached # NoBody /\ r.cached.at = now.at
          /\ kind \in {"astray", "repeat"} => r.kind \in Paged /\ now.next # 0
          /\ kind \notin {"body", "unchanged"} => faults < MaxFaults
          /\ faults' = IF kind \in {"body", "unchanged"} THEN faults ELSE faults + 1
          /\ \E etag \in BOOLEAN :
             Step(x, [r EXCEPT !.pc = "settle",
                         !.attempts = @ - spent,
                         !.retry = @ /\ spent < 2,
                         !.response =
                           [kind |-> kind, etag |-> etag,
                            body |-> IF kind = "repeat" THEN [now EXCEPT !.next = r.key] ELSE now]])
    /\ UNCHANGED <<versions, cache, generation, settled, mutator>>

\* The read is refused an attempt before anything is sent, or its deadline has
\* passed, or its caller has cancelled it.
Withheld(x, reason) ==
    LET r == reader[x] IN
    /\ r.pc = "send"
    /\ reason = "attempts" => r.kind \in Controlled /\ r.attempts = 0
    /\ reason # "attempts" => faults < MaxFaults
    /\ faults' = IF reason = "attempts" THEN faults ELSE faults + 1
    /\ Step(x, [r EXCEPT !.pc = "settle", !.response = [NoResponse EXCEPT !.kind = reason]])
    /\ UNCHANGED <<versions, cache, generation, settled, mutator>>

-----------------------------------------------------------------------------
(* What a reader makes of a response *)

\* HttpReadBudget::admit_body.
Fits(r, bytes) == r.kind \notin Controlled \/ bytes <= r.limits.bytes - r.bytes

\* The outcome of fetch_controlled and facts_page for the response at hand;
\* "ok" when its body is used.
Verdict(r) ==
    CASE r.response.kind = "unchanged" ->
           (IF generation # r.generation THEN "generation_changed"
            ELSE IF ~Fits(r, Weight(r.cached)) THEN "bytes" ELSE "ok")
      [] r.response.kind \in {"body", "malformed", "mismatch", "repeat", "astray"} ->
           (IF ~Fits(r, Weight(r.response.body)) THEN "bytes"
            ELSE IF r.response.kind = "astray" THEN "denied" ELSE "ok")
      [] OTHER -> r.response.kind

\* The responses whose body reaches the cache: with a validator it is stored,
\* unless the session's quota refuses it, and then, or without one, the entry
\* under the key is removed.
Stored(r) == /\ r.response.kind \in {"body", "malformed", "mismatch", "repeat", "astray"}
             /\ Fits(r, Weight(r.response.body))

Cached(r) ==
    IF ~Stored(r) THEN UNCHANGED cache
    ELSE \/ /\ r.response.etag
            /\ Put(r.key, r.response.body, r.generation)
         \/ Evacuate(r.key, r.generation)

\* retryable: the errors after which the page may be asked for again.
Retryable(r, verdict) ==
    \/ verdict \in {"unavailable", "deadline", "attempts", "generation_changed"}
    \/ /\ verdict = "bytes"
       /\ r.parentBytes + Weight(IF r.response.kind = "unchanged" THEN r.cached
                                 ELSE r.response.body) <= r.limits.bytes

\* invalidates_retention: the errors that take the earlier pages with them.
InvalidatesRetention(verdict) == verdict \in {"denied", "cancelled", "mismatch"}

\* The error arm of collection::read: what was read before is kept, with the
\* failed page to resume at when it may be asked for again.
AfterError(r, verdict) ==
    IF r.records = <<>> \/ InvalidatesRetention(verdict)
    THEN [r EXCEPT !.pc = "answered", !.stop = Failed(verdict)]
    ELSE [r EXCEPT !.pc = "finish",
             !.stop = Incomplete(verdict, IF Retryable(r, verdict) THEN Continuation(r.key) ELSE 0)]

\* Where a read that has records stops with less than was asked for.
StopOr(r, reason, stop) ==
    IF r.records = <<>> THEN [r EXCEPT !.pc = "answered", !.stop = Failed(reason)]
    ELSE [r EXCEPT !.pc = "finish", !.stop = stop]

\* accept_generation: what is fetched is of the generation of what came before.
SameGeneration(r) == r.generation = r.base

\* The page loop once the body of a page is in hand: decoding, identities,
\* repeated records, the record and the representation ceilings, admission.
WithPage(r, body) ==
    IF ~SameGeneration(r)
    THEN [r EXCEPT !.pc = "answered", !.stop = Failed("generation_changed")]
    ELSE IF r.response.kind = "malformed"
    THEN StopOr(r, "malformed", Incomplete("malformed", 0))
    ELSE IF r.response.kind = "mismatch"
    THEN [r EXCEPT !.pc = "answered", !.stop = Failed("mismatch")]
    ELSE IF Range(body.records) \cap Range(r.records) # {}
    THEN StopOr(r, "malformed", Unknown("duplicate_record_id"))
    ELSE IF Len(r.records) + Len(body.records) > MaxRecords
    THEN StopOr(r, "records", Incomplete("records", Continuation(r.key)))
    ELSE IF Length(Len(r.records) + Len(body.records), StopAt(body.next)) > r.limits.length
    THEN StopOr(r, "length", Incomplete("length", Continuation(r.key)))
    ELSE LET on == [r EXCEPT !.records = @ \o body.records,
                             !.pages = Append(@, [key |-> r.key, upto |-> Len(r.records) + Len(body.records)]),
                             !.read = @ \cup {body.at}]
         IN IF body.next = 0
            THEN [on EXCEPT !.pc = "finish", !.stop = Complete]
            ELSE IF body.next \in r.seen
            THEN StopOr(on, "malformed", Unknown("repeated_pagination"))
            ELSE [on EXCEPT !.pc = "guard", !.key = body.next, !.seen = @ \cup {body.next}]

\* fetch_parent, the gate of a conversation, and the repository and the commit
\* of a source: the generation is the read's from here on.
WithParent(r, body) ==
    IF r.response.kind \in {"malformed", "mismatch"}
    THEN [r EXCEPT !.pc = "answered", !.stop = Failed(r.response.kind)]
    ELSE [r EXCEPT !.pc = IF r.kind \in {"facts", "source"} THEN "guard" ELSE "capture",
             !.base = r.generation, !.parentBytes = r.bytes, !.read = {body.at},
             !.key = IF r.kind \in Paged THEN r.from ELSE Object,
             !.seen = {r.from}]

\* The end of a plain listing: its rows are validated together, and the ids of
\* comments must differ; files have none.
Listed(r, stop) ==
    [r EXCEPT !.pc = "answered",
              !.stop = IF r.broken \/ (r.kind = "comments" /\ ~IsInjective(r.records))
                       THEN Failed("malformed") ELSE stop]

\* GithubSource::collection, the plain read: every error ends it, and after
\* MaxPages pages the next is named by its number.
WithPlainPage(r, body) ==
    IF r.response.kind = "malformed"
    THEN [r EXCEPT !.pc = "answered", !.stop = Failed("malformed")]
    ELSE LET on == [r EXCEPT !.records = @ \o body.records,
                             !.pages = Append(@, [key |-> r.key, upto |-> Len(r.records) + Len(body.records)]),
                             !.broken = @ \/ r.response.kind = "mismatch",
                             !.read = @ \cup {body.at}]
         IN IF body.next = 0 THEN Listed(on, Complete)
            ELSE IF Len(on.pages) = MaxPages
            THEN Listed(on, Stop("incomplete", "none", body.next))
            ELSE [on EXCEPT !.pc = "capture", !.key = body.next]

\* One file by its number: the page that lists it, and its place on the page.
WithRow(r, body) ==
    LET place == ((r.from - 1) % PageSize) + 1
        on == [r EXCEPT !.pc = "answered", !.read = {body.at}]
    IN IF r.response.kind \in {"malformed", "mismatch"}
       THEN [on EXCEPT !.stop = Failed("malformed")]
       ELSE IF place > Len(body.records) THEN [on EXCEPT !.stop = Failed("absent")]
       ELSE [on EXCEPT !.stop = Complete, !.records = <<body.records[place]>>]

\* The record of an item; or a tree of a source, whose entry is absent, or no
\* regular file, or too large by its listed size, or a blob to be fetched; or
\* the blob, which may be too large when it is decoded (accept_generation,
\* read_tree_entry, read_blob).
WithObject(r, body) ==
    LET on == [r EXCEPT !.pc = "finish", !.stop = Complete, !.read = @ \cup {body.at}]
        oversized == [on EXCEPT !.stop = Incomplete("decoded", 0)]
    IN IF ~SameGeneration(r)
       THEN {[r EXCEPT !.pc = "answered", !.stop = Failed("generation_changed")]}
       ELSE IF r.response.kind \in {"malformed", "mismatch"}
       THEN {[r EXCEPT !.pc = "answered", !.stop = Failed(r.response.kind)]}
       ELSE IF r.kind = "item" THEN {on}
       ELSE {on, oversized} \cup
            (IF r.key = Blob THEN {}
             ELSE {[on EXCEPT !.pc = "answered", !.stop = Failed("absent")],
                   [on EXCEPT !.pc = "capture", !.key = Blob]})

\* retains_verified_metadata: the failures of a blob that leave the source
\* what its trees have proved.
AfterFailure(r, verdict) ==
    IF r.kind = "facts" /\ r.key # 0 THEN AfterError(r, verdict)
    ELSE IF r.kind = "source" /\ r.key = Blob /\ verdict \in {"unavailable", "denied"}
    THEN [r EXCEPT !.pc = "finish", !.stop = Incomplete(verdict, 0)]
    ELSE [r EXCEPT !.pc = "answered", !.stop = Failed(verdict)]

\* What the read makes of a body it may use.
After(r, body) ==
    IF r.key = 0 THEN {WithParent(r, body)}
    ELSE IF r.kind = "facts" THEN {WithPage(r, body)}
    ELSE IF r.kind = "row" THEN {WithRow(r, body)}
    ELSE IF r.kind \in Paged THEN {WithPlainPage(r, body)}
    ELSE WithObject(r, body)

\* The fetch takes the lock a last time, for the check of a 304 or for the
\* cache, and the read goes on with the body or the error.
Settle(x) ==
    LET r == reader[x]
        verdict == Verdict(r)
        body == IF r.response.kind = "unchanged" THEN r.cached ELSE r.response.body
        on == [r EXCEPT !.bytes = @ + Weight(body)]
    IN
    /\ r.pc = "settle"
    /\ Cached(r)
    /\ \E after \in IF verdict = "ok" THEN After(on, body) ELSE {AfterFailure(r, verdict)} :
          Step(x, after)
    /\ UNCHANGED <<versions, faults, generation, settled, mutator>>

\* The end of collection::read: pages are given back until what is left and
\* the stop that says so fit; a malformed page, an unknown end or a first page
\* that does not fit ends the read.
RollbackAllowed(stop) ==
    \/ stop.state = "complete"
    \/ /\ stop.state = "incomplete"
       /\ stop.reason # "malformed"

Kept(r, n) == [r EXCEPT !.pages = SubSeq(@, 1, n),
                        !.records = SubSeq(@, 1, IF n = 0 THEN 0 ELSE r.pages[n].upto)]

\* The representation with the first n pages kept and the others given back.
RolledBack(r, n) ==
    IF n = Len(r.pages) THEN r
    ELSE [Kept(r, n) EXCEPT !.stop = Incomplete("length", Continuation(r.pages[n + 1].key))]

Finish(x) ==
    LET r == reader[x]
        LengthOf(s) == Length(Len(s.records), s.stop)
        fitting == {n \in 0..Len(r.pages) :
                        /\ LengthOf(RolledBack(r, n)) <= r.limits.length
                        /\ n < Len(r.pages) => RollbackAllowed(r.stop)}
        kept == RolledBack(r, Max(fitting))
    IN
    /\ r.pc = "finish"
    /\ Step(x, IF fitting = {} \/ (kept.records = <<>> /\ Max(fitting) < Len(r.pages))
               THEN [r EXCEPT !.pc = "answered", !.stop = Failed("length")]
               ELSE [kept EXCEPT !.pc = "final"])
    /\ UNCHANGED <<versions, faults, cache, generation, settled, mutator>>

\* The last check_generation, and the answer.
Final(x) ==
    LET r == reader[x] IN
    /\ r.pc = "final"
    /\ Step(x, IF generation = r.base THEN [r EXCEPT !.pc = "answered", !.floor = settled]
               ELSE [r EXCEPT !.pc = "answered", !.stop = Failed("generation_changed")])
    /\ UNCHANGED <<versions, faults, cache, generation, settled, mutator>>

-----------------------------------------------------------------------------
(* Mutations and strangers *)

\* The upstream list changes: a record is appended, or the first is deleted.
Changed(list) ==
    (IF list = <<>> THEN {} ELSE {Tail(list)}) \cup
    {Append(list, Fresh[i]) : i \in {i \in 1..Len(Fresh) : Fresh[i] \notin Range(list)}}

\* A mutation of this session takes effect upstream.
Effect(m) ==
    /\ mutator[m].pc = "ready" /\ Version < MaxVersions
    /\ \E list \in Changed(versions[Version]) : versions' = Append(versions, list)
    /\ mutator' = [mutator EXCEPT ![m] = [pc |-> "sent", made |-> Version + 1]]
    /\ UNCHANGED <<faults, cache, generation, settled, reader>>

\* Its response was lost or could not be accepted: the outcome is unknown and
\* nothing is invalidated.
Lose(m) ==
    /\ mutator[m].pc = "sent" /\ faults < MaxFaults
    /\ faults' = faults + 1
    /\ mutator' = [mutator EXCEPT ![m].pc = "unknown"]
    /\ UNCHANGED <<versions, cache, generation, settled, reader>>

\* Its response was accepted: the namespace is invalidated, and the mutation
\* answered.
Confirm(m) ==
    /\ mutator[m].pc = "sent"
    /\ Invalidate
    /\ settled' = IF mutator[m].made > settled THEN mutator[m].made ELSE settled
    /\ mutator' = [mutator EXCEPT ![m].pc = "committed"]
    /\ UNCHANGED <<versions, faults, reader>>

\* Somebody else changes the list.
Edit ==
    /\ Version < MaxVersions
    /\ \E list \in Changed(versions[Version]) : versions' = Append(versions, list)
    /\ UNCHANGED <<faults, cache, generation, settled, reader, mutator>>

\* The session yields a cached response to its quota.
Evict(k) ==
    /\ cache[k] # NoBody
    /\ cache' = [cache EXCEPT ![k] = NoBody]
    /\ UNCHANGED <<versions, faults, generation, settled, reader, mutator>>

Next ==
    \/ \E x \in Readers, from \in Pages, limits \in Limits : Begin(x, "facts", from, limits)
    \/ \E x \in Readers, from \in Pages, kind \in {"comments", "diff"} :
          Begin(x, kind, from, NoLimits)
    \/ \E x \in Readers, number \in Numbers : Begin(x, "row", number, NoLimits)
    \/ \E x \in Readers, kind \in {"item", "source"}, limits \in Limits : Begin(x, kind, 1, limits)
    \/ \E x \in Readers : Guard(x)
    \/ \E x \in Readers : Capture(x)
    \/ \E x \in Readers : Lookup(x)
    \/ \E x \in Readers : Forget(x)
    \/ \E x \in Readers : Exchange(x)
    \/ \E x \in Readers, reason \in {"attempts", "deadline", "cancelled"} : Withheld(x, reason)
    \/ \E x \in Readers : Settle(x)
    \/ \E x \in Readers : Finish(x)
    \/ \E x \in Readers : Final(x)
    \/ \E m \in Mutators : Effect(m)
    \/ \E m \in Mutators : Lose(m)
    \/ \E m \in Mutators : Confirm(m)
    \/ \E k \in Keys : Evict(k)
    \/ Edit

Spec == Init /\ [][Next]_vars

-----------------------------------------------------------------------------
(* Correctness *)

\* The readers whose answer carries records.
Served(r) == r.pc = "answered" /\ r.stop.state # "error"

\* What a reader serves is not older than a mutation that had been confirmed:
\* before it began for a plain read, before its last check for a controlled
\* one, whose parent and pages were read one by one while mutations came and went
\* (fetch.rs captures the generation and stores under it; facts.rs checks it).
ServedCurrent ==
    \A x \in Readers : Served(reader[x]) =>
        \A v \in reader[x].read : v >= reader[x].floor

\* The cache never holds a body older than the newest confirmed mutation, also
\* when a response that left before the mutation arrives after it.
CacheCurrent == \A k \in Keys : cache[k] # NoBody => cache[k].at >= settled

\* Coverage is honest: when every body of a listing is of one version, an
\* answer that says "complete" has all the records from where it began, one
\* with a continuation leaves off where the continuation goes on, nothing in
\* between is lost or repeated, whatever limit, error or roll-back ended it
\* (collection.rs, read; fetch.rs, collection).  Only a facts read notices a page
\* that comes round again: the plain listings are held to it as long as upstream
\* is not at fault.  Nor does the listing of files look for a row that comes round
\* again on a page of a later version.
CoverageHonest ==
    \A x \in Readers :
        LET r == reader[x]
            start == (r.from - 1) * PageSize + 1
        IN Served(r) /\ r.kind \in Paged /\ (r.kind # "facts" => faults = 0) =>
           /\ r.kind # "diff" => IsInjective(r.records)
           /\ \A v \in r.read : Cardinality(r.read) = 1 =>
                 /\ r.stop.state = "complete" =>
                       r.records = SubSeq(versions[v], start, Len(versions[v]))
                 /\ r.stop.resume # 0 =>
                       r.records = SubSeq(versions[v], start, (r.stop.resume - 1) * PageSize)

\* The number a listing gives a file opens that file, on whichever page it is,
\* and only a number beyond the last is not found (mod.rs, DiffFile: the pages
\* of a number are those of the listing).
NumbersOpenRows ==
    \A x \in Readers :
        LET r == reader[x] IN
        r.kind = "row" =>
           /\ Served(r) => \A v \in r.read : r.records = <<versions[v][r.from]>>
           /\ r.stop = Failed("absent") => \A v \in r.read : r.from > Len(versions[v])

\* A continuation given for a spent byte budget can be used: a fresh read with
\* the same budget, which must fetch the parent again, is not refused the page
\* the first was refused (collection.rs, retryable).
ResumesFit ==
    \A x \in Readers :
        LET r == reader[x] IN
        ~(/\ r.resumed # 0 /\ r.response.body.at = r.resumed
          /\ r.stop = Failed("bytes"))
=============================================================================
