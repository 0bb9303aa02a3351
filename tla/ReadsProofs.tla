----------------------------- MODULE ReadsProofs -----------------------------
(***************************************************************************)
(* Proofs about the parts of Reads: GitHub serves and caches nothing older *)
(* than a confirmed mutation, and what it says of the coverage of a page   *)
(* is so; a token of Jira stays at its origin and its collection, and what *)
(* a read answers is the rows of the collection from where it began to     *)
(* where it goes on; a launch touches what it was granted and serves what  *)
(* its probes found; and what a search or glob leaves out is in the        *)
(* document it names, in order and once.                                   *)
(***************************************************************************)
EXTENDS Reads, FiniteSetTheorems, SequenceTheorems, WellFoundedInduction, TLAPS

-----------------------------------------------------------------------------
(* GitHub: the state in which nothing is out of date *)

GithubFields ==
    {"pc", "kind", "from", "key", "generation", "base", "cached", "response", "attempts", "retry",
     "bytes", "limits", "parentBytes", "seen", "pages", "records", "read", "broken", "stop",
     "floor", "resumed", "reads"}

BodyKinds == {"body", "malformed", "mismatch", "repeat", "astray"}
ErrorKinds == {"unavailable", "denied", "truncated", "attempts", "deadline", "cancelled"}

\* The kinds of reads that keep to no generation.
Plain == {"row", "comments", "diff"}

\* The state of a read has its fields, and it has seen no generation and no
\* floor that is still to come; only a read that keeps to a generation ends
\* by checking it.
Shaped(r) ==
    /\ DOMAIN r = GithubFields
    /\ r.pc \in {"finish", "final"} => r.kind \notin Plain
    /\ r.generation \in Nat /\ r.generation <= generation
    /\ r.base \in Int /\ r.base <= generation
    /\ r.floor \in Nat /\ r.floor <= settled

\* A body that a read may use: not older than the read's floor, and, while the
\* generation the read captured is in force, than any confirmed mutation.
Usable(r, body) ==
    /\ body.at \in Nat /\ body.at >= r.floor
    /\ r.generation = generation => body.at >= settled

\* An answer that is on its way, or has arrived, can be used, and so can the
\* entry it confirms.
Arrived(r) ==
    r.pc = "settle" =>
        /\ r.response.kind \in BodyKinds \cup ErrorKinds \cup {"unchanged"}
        /\ r.response.kind \in BodyKinds => Usable(r, r.response.body)
        /\ r.response.kind = "unchanged" => Usable(r, r.cached)

\* What a read has used is not older than its floor, nor, for a read that keeps
\* to one generation, than any mutation confirmed while that is in force.
UsedCurrent(r) ==
    /\ \A v \in r.read : v \in Nat /\ v >= r.floor
    /\ r.kind \notin Plain /\ r.pc # "answered" /\ r.base = generation =>
          \A v \in r.read : v >= settled

Sound(r) == Shaped(r) /\ Arrived(r) /\ UsedCurrent(r)

ReadersSound ==
    /\ DOMAIN reader = Readers
    /\ \A x \in Readers : Sound(reader[x])

CacheSound ==
    /\ DOMAIN cache = Github!Keys
    /\ \A k \in Github!Keys :
          cache[k] # Github!NoBody => cache[k].at \in Nat /\ cache[k].at >= settled

\* What has happened upstream, and what of it has been confirmed.
Confirmed ==
    /\ Len(versions) \in Nat /\ versions = [v \in 1..Len(versions) |-> versions[v]]
    /\ generation \in Nat /\ settled \in Nat /\ settled <= Len(versions)
    /\ mutator \in [Mutators -> [pc : {"ready", "sent", "unknown", "committed"}, made : Nat]]
    /\ \A m \in Mutators : mutator[m].made <= Len(versions)

GithubInv == Confirmed /\ CacheSound /\ ReadersSound

-----------------------------------------------------------------------------
(* GitHub: what a step of a read must do *)

\* A read that moves on keeps the others as they are.
LEMMA ReaderMoves ==
    ASSUME ReadersSound, UNCHANGED <<generation, settled>>,
           NEW x \in Readers, NEW r, reader' = [reader EXCEPT ![x] = r], Sound(r)
    PROVE  ReadersSound'
  <1>1. DOMAIN reader' = Readers
    BY DEF ReadersSound
  <1>2. ASSUME NEW y \in Readers
        PROVE  Sound(reader[y])'
    <2>1. reader'[y] = IF y = x THEN r ELSE reader[y]
      BY DEF ReadersSound
    <2>2. Sound(reader'[y])
      BY <2>1 DEF ReadersSound
    <2>3. QED
      BY <2>2 DEF Sound, Shaped, Arrived, Usable, UsedCurrent
  <1>3. QED
    BY <1>1, <1>2 DEF ReadersSound

\* A read that has used nothing more is as good as it was.
LEMMA ReadKept ==
    ASSUME NEW r, NEW s, Sound(r), DOMAIN s = GithubFields,
           s.generation = r.generation, s.base = r.base, s.floor = r.floor,
           s.kind = r.kind, s.read = r.read, s.pc # "settle",
           r.pc # "answered", s.pc \in {"finish", "final"} => r.kind \notin Plain
    PROVE  Sound(s)
  BY DEF Sound, Shaped, Arrived, UsedCurrent

\* A read may use a body that is usable, and one that keeps to a generation
\* only a body of that generation.
LEMMA ReadMore ==
    ASSUME NEW r, NEW s, NEW body, Sound(r), Usable(r, body), DOMAIN s = GithubFields,
           s.generation = r.generation, s.base = r.base, s.floor = r.floor,
           s.kind = r.kind, s.read = r.read \cup {body.at}, s.pc # "settle",
           r.pc # "answered", s.pc \in {"finish", "final"} => r.kind \notin Plain,
           r.kind \notin Plain => r.generation = r.base
    PROVE  Sound(s)
  <1>1. Shaped(s) /\ Arrived(s)
    BY DEF Sound, Shaped, Arrived
  <1>2. \A v \in s.read : v \in Nat /\ v >= s.floor
    BY DEF Sound, UsedCurrent, Usable
  <1>3. s.kind \notin Plain /\ s.pc # "answered" /\ s.base = generation =>
          \A v \in s.read : v >= settled
    BY DEF Sound, UsedCurrent, Usable
  <1>4. QED
    BY <1>1, <1>2, <1>3 DEF Sound, UsedCurrent

\* A body that is stored for the generation in force is not out of date.
LEMMA CachePut ==
    ASSUME CacheSound, NEW k, NEW body, NEW g, UNCHANGED settled,
           Github!Put(k, body, g),
           g = generation /\ body # Github!NoBody => body.at \in Nat /\ body.at >= settled
    PROVE  CacheSound'
  <1>1. DOMAIN cache' = Github!Keys
    BY DEF Github!Put, CacheSound
  <1>2. ASSUME NEW j \in Github!Keys, cache'[j] # Github!NoBody
        PROVE  cache'[j].at \in Nat /\ cache'[j].at >= settled
    BY <1>2 DEF Github!Put, CacheSound
  <1>3. QED
    BY <1>1, <1>2 DEF CacheSound

\* What takes the place of an entry that is written off is the old one or nothing.
LEMMA CacheEvacuate ==
    ASSUME CacheSound, NEW k, NEW g, UNCHANGED settled, Github!Evacuate(k, g)
    PROVE  CacheSound'
  BY CachePut DEF Github!Evacuate

-----------------------------------------------------------------------------
(* GitHub: the steps up to the response *)

\* A read begins with nothing of its own, in the generation it captures next.
LEMMA GithubBegins ==
    ASSUME GithubInv, NEW x \in Readers, NEW kind, NEW from, NEW limits,
           Github!Begin(x, kind, from, limits)
    PROVE  GithubInv'
  <1> DEFINE r == reader[x]
             s == [Github!Idle(r.reads + 1) EXCEPT !.pc = "capture", !.kind = kind, !.from = from,
                    !.key = IF kind \in Github!Scoped THEN 0
                            ELSE IF kind = "row" THEN Github!PageOf(from) ELSE from,
                    !.limits = limits, !.attempts = limits.attempts, !.floor = settled,
                    !.resumed = IF from # 1 /\ r.stop.reason = "bytes" /\ limits = r.limits
                                THEN r.response.body.at ELSE 0]
  <1>1. /\ reader' = [reader EXCEPT ![x] = s]
        /\ UNCHANGED <<versions, cache, generation, settled, mutator>>
    BY DEF Github!Begin, Github!Step
  <1>2. /\ DOMAIN s = GithubFields /\ s.generation = 0 /\ s.base = -1 /\ s.floor = settled
        /\ s.read = {} /\ s.pc = "capture"
    BY DEF Github!Idle, GithubFields
  <1> HIDE DEF s
  <1>3. Sound(s)
    BY <1>2 DEF GithubInv, Confirmed, Sound, Shaped, Arrived, UsedCurrent
  <1>4. ReadersSound'
    BY <1>1, <1>3, ReaderMoves DEF GithubInv
  <1>5. QED
    BY <1>1, <1>4 DEF GithubInv, Confirmed, CacheSound

\* The check of the generation before a page.
LEMMA GithubGuards ==
    ASSUME GithubInv, NEW x \in Readers, Github!Guard(x)
    PROVE  GithubInv'
  <1> DEFINE r == reader[x]
             s == IF generation = r.base THEN [r EXCEPT !.pc = "capture"]
                  ELSE [r EXCEPT !.pc = "answered", !.stop = Github!Failed("generation_changed")]
  <1>1. /\ r.pc = "guard" /\ reader' = [reader EXCEPT ![x] = s]
        /\ UNCHANGED <<versions, cache, generation, settled, mutator>>
    BY DEF Github!Guard, Github!Step
  <1>2. Sound(r)
    BY DEF GithubInv, ReadersSound
  <1>3. Sound(s)
    <2>1. /\ DOMAIN s = GithubFields /\ s.generation = r.generation /\ s.base = r.base
          /\ s.floor = r.floor /\ s.read = r.read /\ s.kind = r.kind /\ s.pc \in {"capture", "answered"}
      BY <1>1, <1>2 DEF Sound, Shaped, GithubFields
    <2> HIDE DEF s
    <2>2. QED
      BY <1>1, <1>2, <2>1, ReadKept
  <1>4. ReadersSound'
    BY <1>1, <1>3, ReaderMoves DEF GithubInv
  <1>5. QED
    BY <1>1, <1>4 DEF GithubInv, Confirmed, CacheSound

\* The generation is captured before the request leaves.
LEMMA GithubCaptures ==
    ASSUME GithubInv, NEW x \in Readers, Github!Capture(x)
    PROVE  GithubInv'
  <1> DEFINE r == reader[x]
             s == [r EXCEPT !.pc = "lookup", !.generation = generation]
  <1>1. /\ r.pc = "capture" /\ reader' = [reader EXCEPT ![x] = s]
        /\ UNCHANGED <<versions, cache, generation, settled, mutator>>
    BY DEF Github!Capture, Github!Step
  <1>2. Sound(r)
    BY DEF GithubInv, ReadersSound
  <1>3. /\ DOMAIN s = GithubFields /\ s.pc = "lookup" /\ s.generation = generation
        /\ s.base = r.base /\ s.floor = r.floor /\ s.read = r.read /\ s.kind = r.kind
    BY <1>2 DEF Sound, Shaped, GithubFields
  <1>4. Sound(s)
    BY <1>1, <1>2, <1>3 DEF GithubInv, Confirmed, Sound, Shaped, Arrived, UsedCurrent
  <1>5. ReadersSound'
    BY <1>1, <1>4, ReaderMoves DEF GithubInv
  <1>6. QED
    BY <1>1, <1>5 DEF GithubInv, Confirmed, CacheSound

\* The entry is copied from the cache.
LEMMA GithubLooksUp ==
    ASSUME GithubInv, NEW x \in Readers, Github!Lookup(x)
    PROVE  GithubInv'
  <1> DEFINE r == reader[x]
  <1>1. PICK pc \in {"send", "forget"} :
            reader' = [reader EXCEPT ![x] = [r EXCEPT !.pc = pc, !.cached = cache[r.key]]]
    BY DEF Github!Lookup, Github!Step
  <1> DEFINE s == [r EXCEPT !.pc = pc, !.cached = cache[r.key]]
  <1>2. r.pc = "lookup" /\ UNCHANGED <<versions, cache, generation, settled, mutator>>
    BY DEF Github!Lookup
  <1>3. Sound(r)
    BY DEF GithubInv, ReadersSound
  <1>4. Sound(s)
    <2>1. /\ DOMAIN s = GithubFields /\ s.generation = r.generation /\ s.base = r.base
          /\ s.floor = r.floor /\ s.read = r.read /\ s.kind = r.kind /\ s.pc \in {"send", "forget"}
      BY <1>2, <1>3 DEF Sound, Shaped, GithubFields
    <2> HIDE DEF s
    <2>2. QED
      BY <1>2, <1>3, <2>1, ReadKept
  <1>5. ReadersSound'
    BY <1>1, <1>2, <1>4, ReaderMoves DEF GithubInv
  <1>6. QED
    BY <1>2, <1>5 DEF GithubInv, Confirmed, CacheSound

\* An entry whose validator cannot be sent is dropped.
LEMMA GithubForgets ==
    ASSUME GithubInv, NEW x \in Readers, Github!Forget(x)
    PROVE  GithubInv'
  <1> DEFINE r == reader[x]
             s == [r EXCEPT !.pc = "send", !.cached = Github!NoBody]
  <1>1. /\ r.pc = "forget" /\ reader' = [reader EXCEPT ![x] = s]
        /\ Github!Evacuate(r.key, r.generation)
        /\ UNCHANGED <<versions, generation, settled, mutator>>
    BY DEF Github!Forget, Github!Step
  <1>2. Sound(r)
    BY DEF GithubInv, ReadersSound
  <1>3. Sound(s)
    <2>1. /\ DOMAIN s = GithubFields /\ s.generation = r.generation /\ s.base = r.base
          /\ s.floor = r.floor /\ s.read = r.read /\ s.kind = r.kind /\ s.pc = "send"
      BY <1>1, <1>2 DEF Sound, Shaped, GithubFields
    <2> HIDE DEF s
    <2>2. QED
      BY <1>1, <1>2, <2>1, ReadKept
  <1>4. ReadersSound'
    BY <1>1, <1>3, ReaderMoves DEF GithubInv
  <1>5. CacheSound'
    BY <1>1, CacheEvacuate DEF GithubInv
  <1>6. QED
    BY <1>1, <1>4, <1>5 DEF GithubInv, Confirmed

\* Upstream answers with what it has now, so that an answer is not older than
\* what is confirmed when it is made.
LEMMA GithubExchanges ==
    ASSUME GithubInv, NEW x \in Readers, Github!Exchange(x)
    PROVE  GithubInv'
  <1> DEFINE r == reader[x]
             now == Github!Body(Github!Version, r.key)
             Answered(kind, etag, spent) ==
               [r EXCEPT !.pc = "settle",
                         !.attempts = @ - spent,
                         !.retry = @ /\ spent < 2,
                         !.response =
                           [kind |-> kind, etag |-> etag,
                            body |-> IF kind = "repeat" THEN [now EXCEPT !.next = r.key] ELSE now]]
  <1>0. PICK spent \in Github!Charges(r),
             kind \in {"body", "unchanged", "unavailable", "denied", "truncated", "malformed",
                       "mismatch", "astray", "repeat"} :
            /\ kind = "unchanged" => r.cached # Github!NoBody /\ r.cached.at = now.at
            /\ kind \in {"astray", "repeat"} => r.kind \in Github!Paged /\ now.next # 0
            /\ kind \notin {"body", "unchanged"} => faults < MaxFaults
            /\ faults' = IF kind \in {"body", "unchanged"} THEN faults ELSE faults + 1
            /\ \E etag \in BOOLEAN : Github!Step(x, Answered(kind, etag, spent))
    BY Zenon DEF Github!Exchange
  <1>1. PICK etag \in BOOLEAN : reader' = [reader EXCEPT ![x] = Answered(kind, etag, spent)]
    BY <1>0 DEF Github!Step
  <1>2. r.pc = "send" /\ UNCHANGED <<versions, cache, generation, settled, mutator>>
    BY DEF Github!Exchange
  <1>3. now.at = Len(versions)
    BY DEF Github!Body, Github!Version
  <1> DEFINE s == Answered(kind, etag, spent)
  <1>4. Sound(r)
    BY DEF GithubInv, ReadersSound
  <1>5. /\ DOMAIN s = GithubFields /\ s.pc = "settle" /\ s.generation = r.generation
        /\ s.base = r.base /\ s.floor = r.floor /\ s.read = r.read /\ s.kind = r.kind
        /\ s.cached = r.cached /\ s.response.kind = kind
    BY <1>4 DEF Sound, Shaped, GithubFields
  <1>6. s.response.body.at = Len(versions)
    <2>1. s.response.body = IF kind = "repeat" THEN [now EXCEPT !.next = r.key] ELSE now
      BY <1>4 DEF Sound, Shaped, GithubFields
    <2>2. now = [at |-> now.at, records |-> now.records, next |-> now.next]
      BY DEF Github!Body
    <2>3. [now EXCEPT !.next = r.key].at = now.at
      BY <2>2
    <2>4. QED
      BY <1>3, <2>1, <2>3
  <1>7. kind = "unchanged" => s.cached.at = Len(versions)
    BY <1>0, <1>3, <1>5
  <1> HIDE DEF s
  <1>8. /\ settled \in Nat /\ Len(versions) \in Nat /\ settled <= Len(versions)
        /\ r.floor \in Nat /\ r.floor <= settled
    BY <1>4 DEF GithubInv, Confirmed, Sound, Shaped
  <1>9. Usable(s, s.response.body) /\ (kind = "unchanged" => Usable(s, s.cached))
    BY <1>5, <1>6, <1>7, <1>8 DEF Usable
  <1>10. Sound(s)
    <2>1. Shaped(s) /\ UsedCurrent(s)
      BY <1>2, <1>4, <1>5 DEF Sound, Shaped, UsedCurrent
    <2>2. Arrived(s)
      BY <1>5, <1>9 DEF Arrived, BodyKinds, ErrorKinds
    <2>3. QED
      BY <2>1, <2>2 DEF Sound
  <1>11. ReadersSound'
    BY <1>1, <1>2, <1>10, ReaderMoves DEF GithubInv, s
  <1>12. QED
    BY <1>2, <1>11 DEF GithubInv, Confirmed, CacheSound

\* A read that may not send, or whose time is over, has no body.
LEMMA GithubWithholds ==
    ASSUME GithubInv, NEW x \in Readers, NEW reason \in {"attempts", "deadline", "cancelled"},
           Github!Withheld(x, reason)
    PROVE  GithubInv'
  <1> DEFINE r == reader[x]
             s == [r EXCEPT !.pc = "settle", !.response = [Github!NoResponse EXCEPT !.kind = reason]]
  <1>1. /\ r.pc = "send" /\ reader' = [reader EXCEPT ![x] = s]
        /\ UNCHANGED <<versions, cache, generation, settled, mutator>>
    BY DEF Github!Withheld, Github!Step
  <1>2. Sound(r)
    BY DEF GithubInv, ReadersSound
  <1>3. /\ DOMAIN s = GithubFields /\ s.pc = "settle" /\ s.generation = r.generation
        /\ s.base = r.base /\ s.floor = r.floor /\ s.read = r.read /\ s.kind = r.kind
        /\ s.response.kind = reason
    BY <1>2 DEF Sound, Shaped, GithubFields, Github!NoResponse
  <1>4. Sound(s)
    <2>1. Shaped(s) /\ UsedCurrent(s)
      BY <1>1, <1>2, <1>3 DEF Sound, Shaped, UsedCurrent
    <2>2. Arrived(s)
      BY <1>3 DEF Arrived, BodyKinds, ErrorKinds
    <2>3. QED
      BY <2>1, <2>2 DEF Sound
  <1>5. ReadersSound'
    BY <1>1, <1>4, ReaderMoves DEF GithubInv
  <1>6. QED
    BY <1>1, <1>5 DEF GithubInv, Confirmed, CacheSound

-----------------------------------------------------------------------------
(* GitHub: what a read makes of a body *)

\* The parent gives the read its generation.
LEMMA AfterParent ==
    ASSUME NEW r, NEW body, Sound(r), r.pc = "settle", Usable(r, body)
    PROVE  Sound(Github!WithParent(r, body))
  <1>1. CASE r.response.kind \in {"malformed", "mismatch"}
    <2> DEFINE s == [r EXCEPT !.pc = "answered", !.stop = Github!Failed(r.response.kind)]
    <2>1. /\ DOMAIN s = GithubFields /\ s.generation = r.generation /\ s.base = r.base
          /\ s.floor = r.floor /\ s.read = r.read /\ s.kind = r.kind /\ s.pc = "answered"
      BY DEF Sound, Shaped, GithubFields
    <2> HIDE DEF s
    <2>2. Sound(s)
      BY <2>1, ReadKept
    <2>3. QED
      BY <1>1, <2>2 DEF Github!WithParent, s
  <1>2. CASE r.response.kind \notin {"malformed", "mismatch"}
    <2> DEFINE s == [r EXCEPT !.pc = IF r.kind \in {"facts", "source"} THEN "guard" ELSE "capture",
                        !.base = r.generation, !.parentBytes = r.bytes, !.read = {body.at},
                        !.key = IF r.kind \in Github!Paged THEN r.from ELSE Github!Object,
                        !.seen = {r.from}]
    <2>1. /\ DOMAIN s = GithubFields /\ s.generation = r.generation /\ s.base = r.generation
          /\ s.floor = r.floor /\ s.read = {body.at} /\ s.kind = r.kind
          /\ s.pc \in {"guard", "capture"}
      BY DEF Sound, Shaped, GithubFields
    <2> HIDE DEF s
    <2>2. Sound(s)
      BY <2>1 DEF Sound, Shaped, Arrived, UsedCurrent, Usable
    <2>3. QED
      BY <1>2, <2>2 DEF Github!WithParent, s
  <1>3. QED
    BY <1>1, <1>2

\* An end of the page loop adds nothing to what was read.
LEMMA EndsKept ==
    ASSUME NEW r, Sound(r), r.pc # "answered", NEW pc \in {"answered", "finish"}, NEW stop,
           pc = "finish" => r.kind \notin Plain
    PROVE  Sound([r EXCEPT !.pc = pc, !.stop = stop])
  <1> DEFINE s == [r EXCEPT !.pc = pc, !.stop = stop]
  <1>1. /\ DOMAIN s = GithubFields /\ s.generation = r.generation /\ s.base = r.base
        /\ s.floor = r.floor /\ s.read = r.read /\ s.kind = r.kind /\ s.pc = pc
    BY DEF Sound, Shaped, GithubFields
  <1> HIDE DEF s
  <1>2. Sound(s)
    BY <1>1, ReadKept
  <1>3. QED
    BY <1>2 DEF s

\* A read that stops early stays sound: what it has is what it had.
LEMMA StopsKept ==
    ASSUME NEW r, Sound(r), r.pc # "answered", r.kind \notin Plain, NEW reason, NEW stop
    PROVE  Sound(Github!StopOr(r, reason, stop))
  BY EndsKept DEF Github!StopOr

\* A page of the generation of the pages before it is added to them.
LEMMA AfterPage ==
    ASSUME NEW r, NEW body, Sound(r), r.pc = "settle", Usable(r, body),
           r.kind \notin Plain
    PROVE  Sound(Github!WithPage(r, body))
  <1> DEFINE on == [r EXCEPT !.records = @ \o body.records,
                             !.pages = Append(@, [key |-> r.key, upto |-> Len(r.records) + Len(body.records)]),
                             !.read = @ \cup {body.at}]
             next == [on EXCEPT !.pc = "guard", !.key = body.next, !.seen = @ \cup {body.next}]
             done == [on EXCEPT !.pc = "finish", !.stop = Github!Complete]
             failed(stop) == [on EXCEPT !.pc = "answered", !.stop = stop]
             ended(stop) == [on EXCEPT !.pc = "finish", !.stop = stop]
  <1>1. /\ DOMAIN on = GithubFields /\ on.generation = r.generation /\ on.base = r.base
        /\ on.floor = r.floor /\ on.read = r.read \cup {body.at} /\ on.kind = r.kind
    BY DEF Sound, Shaped, GithubFields
  <1> HIDE DEF on
  <1>2. ASSUME r.generation = r.base, NEW s, DOMAIN s = GithubFields, s.generation = on.generation,
               s.base = on.base, s.floor = on.floor, s.read = on.read, s.kind = on.kind,
               s.pc # "settle"
        PROVE  Sound(s)
    BY <1>1, <1>2, ReadMore
  <1>3. ASSUME r.generation = r.base
        PROVE  Sound(next) /\ Sound(done)
    <2>1. /\ DOMAIN next = GithubFields /\ next.generation = on.generation /\ next.base = on.base
          /\ next.floor = on.floor /\ next.read = on.read /\ next.kind = on.kind
          /\ next.pc # "settle"
      BY <1>1 DEF GithubFields
    <2>2. /\ DOMAIN done = GithubFields /\ done.generation = on.generation /\ done.base = on.base
          /\ done.floor = on.floor /\ done.read = on.read /\ done.kind = on.kind
          /\ done.pc # "settle"
      BY <1>1 DEF GithubFields
    <2> HIDE DEF next, done
    <2>3. QED
      BY <1>2, <1>3, <2>1, <2>2
  <1>4. ASSUME r.generation = r.base, NEW reason, NEW stop
        PROVE  Sound(Github!StopOr(on, reason, stop))
    <2> DEFINE f == failed(Github!Failed(reason))
               e == ended(stop)
    <2>1. /\ DOMAIN f = GithubFields /\ f.generation = on.generation /\ f.base = on.base
          /\ f.floor = on.floor /\ f.read = on.read /\ f.kind = on.kind /\ f.pc # "settle"
      BY <1>1 DEF GithubFields
    <2>2. /\ DOMAIN e = GithubFields /\ e.generation = on.generation /\ e.base = on.base
          /\ e.floor = on.floor /\ e.read = on.read /\ e.kind = on.kind /\ e.pc # "settle"
      BY <1>1 DEF GithubFields
    <2> HIDE DEF f, e
    <2>3. Sound(f) /\ Sound(e)
      BY <1>2, <1>4, <2>1, <2>2
    <2>4. Github!StopOr(on, reason, stop) \in {f, e}
      BY DEF Github!StopOr, f, e
    <2>5. QED
      BY <2>3, <2>4
  <1>5. CASE r.generation # r.base
    BY <1>5, EndsKept DEF Github!WithPage, Github!SameGeneration
  <1>6. CASE r.generation = r.base
    <2>1. /\ \A reason, stop : Sound(Github!StopOr(r, reason, stop))
          /\ \A reason, stop : Sound(Github!StopOr(on, reason, stop))
          /\ Sound([r EXCEPT !.pc = "answered", !.stop = Github!Failed("mismatch")])
      BY <1>4, <1>6, StopsKept, EndsKept
    <2>2. \/ \E reason, stop : Github!WithPage(r, body) = Github!StopOr(r, reason, stop)
          \/ \E reason, stop : Github!WithPage(r, body) = Github!StopOr(on, reason, stop)
          \/ Github!WithPage(r, body) = [r EXCEPT !.pc = "answered", !.stop = Github!Failed("mismatch")]
          \/ Github!WithPage(r, body) \in {next, done}
      BY <1>6, Zenon DEF Github!WithPage, Github!SameGeneration, on
    <2>3. QED
      BY <1>3, <1>6, <2>1, <2>2
  <1>7. QED
    BY <1>5, <1>6

\* A read that keeps to no generation may use what is usable, and so may one
\* whose generation is that of the body.
LEMMA BodyUsed ==
    ASSUME NEW r, NEW body, Sound(r), r.pc = "settle", Usable(r, body),
           r.kind \notin Plain => r.generation = r.base,
           NEW s, DOMAIN s = GithubFields, s.pc # "settle",
           s.pc \in {"finish", "final"} => r.kind \notin Plain, s.generation = r.generation,
           s.base = r.base, s.floor = r.floor, s.kind = r.kind,
           s.read = r.read \cup {body.at} \/ (s.read = {body.at} /\ r.kind \in Plain)
    PROVE  Sound(s)
  <1>1. CASE s.read = r.read \cup {body.at}
    BY <1>1, ReadMore
  <1>2. CASE s.read = {body.at} /\ r.kind \in Plain
    BY <1>2 DEF Sound, Shaped, Arrived, UsedCurrent, Usable
  <1>3. QED
    BY <1>1, <1>2

\* A page of a plain listing is added to those before it.
LEMMA AfterPlainPage ==
    ASSUME NEW r, NEW body, Sound(r), r.pc = "settle", Usable(r, body),
           r.kind \in Plain
    PROVE  Sound(Github!WithPlainPage(r, body))
  <1> DEFINE on == [r EXCEPT !.records = @ \o body.records,
                             !.pages = Append(@, [key |-> r.key, upto |-> Len(r.records) + Len(body.records)]),
                             !.broken = @ \/ r.response.kind = "mismatch",
                             !.read = @ \cup {body.at}]
             next == [on EXCEPT !.pc = "capture", !.key = body.next]
  <1>1. /\ DOMAIN on = GithubFields /\ on.generation = r.generation /\ on.base = r.base
        /\ on.floor = r.floor /\ on.read = r.read \cup {body.at} /\ on.kind = r.kind
    BY DEF Sound, Shaped, GithubFields
  <1> HIDE DEF on
  <1>2. Sound(next)
    <2>1. /\ DOMAIN next = GithubFields /\ next.generation = on.generation /\ next.base = on.base
          /\ next.floor = on.floor /\ next.read = on.read /\ next.kind = on.kind
          /\ next.pc = "capture"
      BY <1>1 DEF GithubFields
    <2> HIDE DEF next
    <2>2. QED
      BY <1>1, <2>1, BodyUsed
  <1>3. ASSUME NEW stop
        PROVE  Sound(Github!Listed(on, stop))
    <2> DEFINE s == Github!Listed(on, stop)
    <2>1. /\ DOMAIN s = GithubFields /\ s.generation = on.generation /\ s.base = on.base
          /\ s.floor = on.floor /\ s.read = on.read /\ s.kind = on.kind /\ s.pc = "answered"
      BY <1>1 DEF GithubFields, Github!Listed
    <2> HIDE DEF s
    <2>2. Sound(s)
      BY <1>1, <2>1, BodyUsed
    <2>3. QED
      BY <2>2 DEF s
  <1>4. Sound([r EXCEPT !.pc = "answered", !.stop = Github!Failed("malformed")])
    BY EndsKept
  <1>5. \/ Github!WithPlainPage(r, body)
             = [r EXCEPT !.pc = "answered", !.stop = Github!Failed("malformed")]
        \/ \E stop : Github!WithPlainPage(r, body) = Github!Listed(on, stop)
        \/ Github!WithPlainPage(r, body) = next
    BY Zenon DEF Github!WithPlainPage, on
  <1>6. QED
    BY <1>2, <1>3, <1>4, <1>5

\* A row is taken from the page that lists it.
LEMMA AfterRow ==
    ASSUME NEW r, NEW body, Sound(r), r.pc = "settle", Usable(r, body),
           r.kind \in Plain
    PROVE  Sound(Github!WithRow(r, body))
  <1> DEFINE s == Github!WithRow(r, body)
             on == [r EXCEPT !.pc = "answered", !.read = {body.at}]
  <1>1. /\ DOMAIN on = GithubFields /\ on.generation = r.generation /\ on.base = r.base
        /\ on.floor = r.floor /\ on.read = {body.at} /\ on.kind = r.kind /\ on.pc = "answered"
    BY DEF Sound, Shaped, GithubFields
  <1> HIDE DEF on
  <1>2. \/ \E stop : s = [on EXCEPT !.stop = stop]
        \/ \E stop, records : s = [on EXCEPT !.stop = stop, !.records = records]
    BY Zenon DEF Github!WithRow, on
  <1> HIDE DEF s
  <1>3. /\ DOMAIN s = GithubFields /\ s.generation = on.generation /\ s.base = on.base
        /\ s.floor = on.floor /\ s.read = on.read /\ s.kind = on.kind /\ s.pc = "answered"
    BY <1>1, <1>2 DEF GithubFields
  <1>4. Sound(s)
    BY <1>1, <1>3, BodyUsed
  <1>5. QED
    BY <1>4 DEF s

\* An object of the generation of what was read before is added to it.
LEMMA AfterObject ==
    ASSUME NEW r, NEW body, Sound(r), r.pc = "settle", Usable(r, body),
           r.kind \notin Plain, NEW after \in Github!WithObject(r, body)
    PROVE  Sound(after)
  <1> DEFINE on == [r EXCEPT !.pc = "finish", !.stop = Github!Complete, !.read = @ \cup {body.at}]
  <1>1. /\ DOMAIN on = GithubFields /\ on.generation = r.generation /\ on.base = r.base
        /\ on.floor = r.floor /\ on.read = r.read \cup {body.at} /\ on.kind = r.kind
        /\ on.pc = "finish"
    BY DEF Sound, Shaped, GithubFields
  <1> HIDE DEF on
  <1>0. ASSUME NEW stop, after = [r EXCEPT !.pc = "answered", !.stop = stop]
        PROVE  Sound(after)
    BY <1>0, EndsKept
  <1>2. CASE r.generation # r.base
    <2>1. after = [r EXCEPT !.pc = "answered", !.stop = Github!Failed("generation_changed")]
      BY <1>2, Zenon DEF Github!WithObject, Github!SameGeneration
    <2>2. QED
      BY <1>0, <2>1
  <1>3. CASE r.generation = r.base
    <2>1. \/ \E stop : after = [r EXCEPT !.pc = "answered", !.stop = stop]
          \/ after = on
          \/ after = [on EXCEPT !.stop = Github!Incomplete("decoded", 0)]
          \/ after = [on EXCEPT !.pc = "answered", !.stop = Github!Failed("absent")]
          \/ after = [on EXCEPT !.pc = "capture", !.key = Github!Blob]
      BY <1>3, Zenon DEF Github!WithObject, Github!SameGeneration, on
    <2>2. CASE \E stop : after = [r EXCEPT !.pc = "answered", !.stop = stop]
      BY <1>0, <2>2
    <2>3. CASE ~\E stop : after = [r EXCEPT !.pc = "answered", !.stop = stop]
      <3>1. /\ DOMAIN after = GithubFields /\ after.generation = on.generation
            /\ after.base = on.base /\ after.floor = on.floor /\ after.read = on.read
            /\ after.kind = on.kind /\ after.pc # "settle"
        BY ZenonT(30), <1>1, <2>1, <2>3 DEF GithubFields
      <3>2. QED
        BY <1>1, <1>3, <3>1, BodyUsed
    <2>4. QED
      BY <2>2, <2>3
  <1>4. QED
    BY <1>2, <1>3

\* An error adds nothing to what was read.
LEMMA AfterErrors ==
    ASSUME NEW r, Sound(r), r.pc = "settle", NEW verdict
    PROVE  Sound(Github!AfterFailure(r, verdict))
  <1>1. "facts" \notin Plain /\ "source" \notin Plain
    BY DEF Plain
  <1>2. \A stop : Sound([r EXCEPT !.pc = "answered", !.stop = stop])
    BY EndsKept
  <1>3. r.kind \notin Plain => \A stop : Sound([r EXCEPT !.pc = "finish", !.stop = stop])
    BY EndsKept
  <1>4. QED
    BY <1>1, <1>2, <1>3 DEF Github!AfterFailure, Github!AfterError

\* The fetch is over: its body is cached for the generation that was captured,
\* and the read goes on.
LEMMA GithubSettles ==
    ASSUME GithubInv, NEW x \in Readers, Github!Settle(x)
    PROVE  GithubInv'
  <1> DEFINE r == reader[x]
             verdict == Github!Verdict(r)
             body == IF r.response.kind = "unchanged" THEN r.cached ELSE r.response.body
             on == [r EXCEPT !.bytes = @ + Github!Weight(body)]
  <1>1. /\ r.pc = "settle" /\ Github!Cached(r)
        /\ UNCHANGED <<versions, generation, settled, mutator>>
    BY DEF Github!Settle
  <1>2. PICK after \in IF verdict = "ok" THEN Github!After(on, body)
                       ELSE {Github!AfterFailure(r, verdict)} :
            reader' = [reader EXCEPT ![x] = after]
    BY DEF Github!Settle, Github!Step
  <1>3. Sound(r) /\ CacheSound
    BY DEF GithubInv, ReadersSound
  <1>4. CacheSound'
    <2>1. CASE ~Github!Stored(r)
      BY <1>1, <1>3, <2>1 DEF Github!Cached, CacheSound
    <2>2. CASE Github!Stored(r)
      <3>1. r.response.kind \in BodyKinds
        BY <2>2 DEF Github!Stored, BodyKinds
      <3>2. Usable(r, r.response.body)
        BY <1>1, <1>3, <3>1 DEF Sound, Arrived
      <3>3. \/ Github!Put(r.key, r.response.body, r.generation)
            \/ Github!Evacuate(r.key, r.generation)
        BY <1>1, <2>2 DEF Github!Cached
      <3>4. QED
        BY <1>1, <1>3, <3>2, <3>3, CachePut, CacheEvacuate DEF Usable
    <2>3. QED
      BY <2>1, <2>2
  <1>5. Sound(after)
    <2>1. CASE verdict # "ok"
      BY <1>1, <1>2, <1>3, <2>1, AfterErrors
    <2>2. CASE verdict = "ok"
      <3>1. r.response.kind \in BodyKinds \cup {"unchanged"}
        <4>1. r.response.kind \in BodyKinds \cup ErrorKinds \cup {"unchanged"}
          BY <1>1, <1>3 DEF Sound, Arrived
        <4>2. r.response.kind \in ErrorKinds => verdict = r.response.kind
          BY DEF Github!Verdict, ErrorKinds
        <4>3. "ok" \notin ErrorKinds
          BY DEF ErrorKinds
        <4>4. QED
          BY <2>2, <4>1, <4>2, <4>3
      <3>2. Usable(r, body)
        BY <1>1, <1>3, <3>1 DEF Sound, Arrived, BodyKinds
      <3>3. after \in Github!After(on, body)
        BY <1>2, <2>2
      <3> HIDE DEF body, verdict
      <3>4. /\ DOMAIN on = GithubFields /\ on.generation = r.generation /\ on.base = r.base
            /\ on.floor = r.floor /\ on.read = r.read /\ on.kind = r.kind /\ on.pc = r.pc
            /\ on.response = r.response /\ on.cached = r.cached
        BY <1>3 DEF Sound, Shaped, GithubFields
      <3> HIDE DEF on
      <3>5. Sound(on) /\ on.pc = "settle" /\ Usable(on, body)
        BY <1>1, <1>3, <3>2, <3>4 DEF Sound, Shaped, Arrived, UsedCurrent, Usable
      <3>6. CASE on.key = 0
        BY <3>3, <3>5, <3>6, AfterParent DEF Github!After
      <3>7. CASE on.key # 0 /\ on.kind = "facts"
        BY <3>3, <3>5, <3>7, AfterPage DEF Github!After, Plain
      <3>8. CASE on.key # 0 /\ on.kind = "row"
        BY <3>3, <3>5, <3>8, AfterRow DEF Github!After, Plain
      <3>9. CASE on.key # 0 /\ on.kind \in {"comments", "diff"}
        <4>1. after = Github!WithPlainPage(on, body)
          BY <3>3, <3>9 DEF Github!After, Github!Paged
        <4>2. on.kind \in Plain
          BY <3>9 DEF Plain
        <4>3. QED
          BY <3>5, <4>1, <4>2, AfterPlainPage
      <3>10. CASE on.key # 0 /\ on.kind \notin {"facts", "row", "comments", "diff"}
        <4>1. after \in Github!WithObject(on, body)
          BY <3>3, <3>10 DEF Github!After, Github!Paged
        <4>2. QED
          BY <3>5, <3>10, <4>1, AfterObject DEF Plain
      <3>11. QED
        BY <3>6, <3>7, <3>8, <3>9, <3>10
    <2>3. QED
      BY <2>1, <2>2
  <1>6. ReadersSound'
    BY <1>1, <1>2, <1>5, ReaderMoves DEF GithubInv
  <1>7. QED
    BY <1>1, <1>4, <1>6 DEF GithubInv, Confirmed

\* Giving pages back takes nothing to what was read.
LEMMA GithubFinishes ==
    ASSUME GithubInv, NEW x \in Readers, Github!Finish(x)
    PROVE  GithubInv'
  <1> DEFINE r == reader[x]
  <1>1. PICK n : LET kept == Github!RolledBack(r, n) IN
            \/ reader' = [reader EXCEPT ![x] = [r EXCEPT !.pc = "answered",
                                                         !.stop = Github!Failed("length")]]
            \/ reader' = [reader EXCEPT ![x] = [kept EXCEPT !.pc = "final"]]
    BY Zenon DEF Github!Finish, Github!Step
  <1>2. r.pc = "finish" /\ UNCHANGED <<versions, cache, generation, settled, mutator>>
    BY DEF Github!Finish
  <1>3. Sound(r)
    BY DEF GithubInv, ReadersSound
  <1> DEFINE kept == Github!RolledBack(r, n)
             s == [kept EXCEPT !.pc = "final"]
  <1>4. /\ DOMAIN kept = GithubFields /\ kept.generation = r.generation /\ kept.base = r.base
        /\ kept.floor = r.floor /\ kept.read = r.read /\ kept.kind = r.kind
    BY <1>3 DEF Github!RolledBack, Github!Kept, Sound, Shaped, GithubFields
  <1>5. Sound(s)
    <2> HIDE DEF kept
    <2>1. /\ DOMAIN s = GithubFields /\ s.generation = r.generation /\ s.base = r.base
          /\ s.floor = r.floor /\ s.read = r.read /\ s.kind = r.kind /\ s.pc = "final"
      BY <1>4 DEF GithubFields
    <2> HIDE DEF s
    <2>2. r.kind \notin Plain
      BY <1>2, <1>3 DEF Sound, Shaped
    <2>3. QED
      BY <1>2, <1>3, <2>1, <2>2, ReadKept
  <1>6. Sound([r EXCEPT !.pc = "answered", !.stop = Github!Failed("length")])
    BY <1>2, <1>3, EndsKept
  <1>7. ReadersSound'
    BY <1>1, <1>2, <1>5, <1>6, ReaderMoves DEF GithubInv
  <1>8. QED
    BY <1>2, <1>7 DEF GithubInv, Confirmed, CacheSound

\* The last check of the generation: what was read is of the one in force, so
\* that the answer is not older than any confirmed mutation.
LEMMA GithubAnswers ==
    ASSUME GithubInv, NEW x \in Readers, Github!Final(x)
    PROVE  GithubInv'
  <1> DEFINE r == reader[x]
             s == [r EXCEPT !.pc = "answered", !.floor = settled]
             f == [r EXCEPT !.pc = "answered", !.stop = Github!Failed("generation_changed")]
  <1>1. /\ r.pc = "final" /\ UNCHANGED <<versions, cache, generation, settled, mutator>>
        /\ reader' = [reader EXCEPT ![x] = IF generation = r.base THEN s ELSE f]
    BY DEF Github!Final, Github!Step
  <1>2. Sound(r) /\ settled \in Nat
    BY DEF GithubInv, ReadersSound, Confirmed
  <1>3. Sound(f)
    BY <1>1, <1>2, EndsKept
  <1>4. ASSUME generation = r.base
        PROVE  Sound(s)
    <2>1. /\ DOMAIN s = GithubFields /\ s.generation = r.generation /\ s.base = r.base
          /\ s.floor = settled /\ s.read = r.read /\ s.kind = r.kind /\ s.pc = "answered"
      BY <1>2 DEF Sound, Shaped, GithubFields
    <2> HIDE DEF s
    <2>2. \A v \in r.read : v \in Nat /\ v >= settled
      BY <1>1, <1>2, <1>4 DEF Sound, Shaped, UsedCurrent
    <2>3. QED
      BY <1>2, <2>1, <2>2 DEF Sound, Shaped, Arrived, UsedCurrent
  <1>5. ReadersSound'
    BY <1>1, <1>3, <1>4, ReaderMoves DEF GithubInv
  <1>6. QED
    BY <1>1, <1>5 DEF GithubInv, Confirmed, CacheSound

-----------------------------------------------------------------------------
(* GitHub: mutations and strangers *)

\* One more version at the end.
LEMMA VersionAdded ==
    ASSUME NEW s, Len(s) \in Nat, s = [v \in 1..Len(s) |-> s[v]], NEW list
    PROVE  /\ Len(Append(s, list)) = Len(s) + 1
           /\ Append(s, list) = [v \in 1..Len(Append(s, list)) |-> Append(s, list)[v]]
  <1> DEFINE S == {s[v] : v \in 1..Len(s)} \cup {list}
  <1>1. s \in Seq(S)
    <2>1. s \in [1..Len(s) -> S]
      BY Zenon
    <2>2. QED
      BY <2>1
  <1>2. list \in S
    OBVIOUS
  <1> HIDE DEF S
  <1>3. Append(s, list) \in Seq(S) /\ Len(Append(s, list)) = Len(s) + 1
    BY <1>1, <1>2
  <1>4. Append(s, list) \in [1..Len(Append(s, list)) -> S]
    <2>1. \A t \in Seq(S) : t \in [1..Len(t) -> S]
      OBVIOUS
    <2>2. QED
      BY <1>3, <2>1, Zenon
  <1>5. Append(s, list) = [v \in 1..Len(Append(s, list)) |-> Append(s, list)[v]]
    BY <1>4, Zenon
  <1>6. QED
    BY <1>3, <1>5

\* A change upstream, by a mutation of the session or by somebody else.
LEMMA GithubChanges ==
    ASSUME GithubInv, NEW list, versions' = Append(versions, list),
           UNCHANGED <<cache, generation, settled, reader>>,
           mutator' \in [Mutators -> [pc : {"ready", "sent", "unknown", "committed"}, made : Nat]],
           \A m \in Mutators : mutator'[m].made <= Len(versions) + 1
    PROVE  GithubInv'
  <1>1. /\ Len(versions') = Len(versions) + 1
        /\ versions' = [v \in 1..Len(versions') |-> versions'[v]]
    BY VersionAdded DEF GithubInv, Confirmed
  <1>2. Confirmed'
    BY <1>1 DEF GithubInv, Confirmed
  <1>3. CacheSound'
    BY DEF GithubInv, CacheSound
  <1>4. ReadersSound'
    BY DEF GithubInv, ReadersSound, Sound, Shaped, Arrived, Usable, UsedCurrent
  <1>5. QED
    BY <1>2, <1>3, <1>4 DEF GithubInv

\* A mutation makes a version that no read has seen confirmed.
LEMMA GithubEffects ==
    ASSUME GithubInv, NEW m \in Mutators, Github!Effect(m)
    PROVE  GithubInv'
  <1>1. PICK list \in Github!Changed(versions[Github!Version]) : versions' = Append(versions, list)
    BY DEF Github!Effect
  <1>2. /\ mutator' = [mutator EXCEPT ![m] = [pc |-> "sent", made |-> Len(versions) + 1]]
        /\ UNCHANGED <<cache, generation, settled, reader>>
    BY DEF Github!Effect, Github!Version
  <1>3. /\ mutator' \in [Mutators -> [pc : {"ready", "sent", "unknown", "committed"}, made : Nat]]
        /\ \A n \in Mutators : mutator'[n].made <= Len(versions) + 1
    BY <1>2 DEF GithubInv, Confirmed
  <1>4. QED
    BY <1>1, <1>2, <1>3, GithubChanges

\* A lost response leaves the cache as it is.
LEMMA GithubLoses ==
    ASSUME GithubInv, NEW m \in Mutators, Github!Lose(m)
    PROVE  GithubInv'
  <1>1. /\ mutator' = [mutator EXCEPT ![m].pc = "unknown"]
        /\ UNCHANGED <<versions, cache, generation, settled, reader>>
    BY DEF Github!Lose
  <1>2. Confirmed'
    BY <1>1 DEF GithubInv, Confirmed
  <1>3. CacheSound' /\ ReadersSound'
    BY <1>1 DEF GithubInv, CacheSound, ReadersSound, Sound, Shaped, Arrived, Usable, UsedCurrent
  <1>4. QED
    BY <1>2, <1>3 DEF GithubInv

\* A confirmed mutation begins a new generation: what reads have captured
\* before is of an older one.
LEMMA GithubConfirms ==
    ASSUME GithubInv, NEW m \in Mutators, Github!Confirm(m)
    PROVE  GithubInv'
  <1>1. /\ generation' = generation + 1
        /\ cache' = [k \in Github!Keys |-> Github!NoBody]
        /\ settled' = IF mutator[m].made > settled THEN mutator[m].made ELSE settled
        /\ mutator' = [mutator EXCEPT ![m].pc = "committed"]
        /\ UNCHANGED <<versions, reader>>
    BY DEF Github!Confirm, Github!Invalidate
  <1>2. /\ mutator[m].made \in Nat /\ mutator[m].made <= Len(versions)
        /\ settled \in Nat /\ Len(versions) \in Nat /\ settled <= Len(versions)
        /\ generation \in Nat
    BY DEF GithubInv, Confirmed
  <1>3. settled' \in Nat /\ settled' >= settled /\ settled' <= Len(versions)
    BY <1>1, <1>2
  <1>4. mutator' \in [Mutators -> [pc : {"ready", "sent", "unknown", "committed"}, made : Nat]]
        /\ \A n \in Mutators : mutator'[n].made <= Len(versions)
    BY <1>1 DEF GithubInv, Confirmed
  <1>5. Confirmed'
    BY <1>1, <1>2, <1>3, <1>4 DEF GithubInv, Confirmed
  <1>6. CacheSound'
    BY <1>1 DEF CacheSound
  <1>7. ASSUME NEW x \in Readers
        PROVE  Sound(reader[x])'
    <2> DEFINE r == reader[x]
    <2>1. Sound(r) /\ r' = r
      BY <1>1 DEF GithubInv, ReadersSound
    <2>2. /\ r.generation \in Nat /\ r.generation <= generation
          /\ r.base \in Int /\ r.base <= generation
          /\ r.floor \in Nat /\ r.floor <= settled
      BY <2>1 DEF Sound, Shaped
    <2>3. r.generation # generation' /\ r.base # generation' /\ r.floor <= settled'
      BY <1>1, <1>2, <1>3, <2>2
    <2>4. Shaped(r)'
      BY <1>1, <1>2, <2>1, <2>2, <2>3 DEF Sound, Shaped
    <2>5. Arrived(r)'
      BY <2>1, <2>3 DEF Sound, Arrived, Usable
    <2>6. UsedCurrent(r)'
      BY <2>1, <2>3 DEF Sound, UsedCurrent
    <2>7. QED
      BY <2>4, <2>5, <2>6 DEF Sound
  <1>8. ReadersSound'
    BY <1>1, <1>7 DEF GithubInv, ReadersSound
  <1>9. QED
    BY <1>5, <1>6, <1>8 DEF GithubInv

\* The session yields an entry.
LEMMA GithubEvicts ==
    ASSUME GithubInv, NEW k \in Github!Keys, Github!Evict(k)
    PROVE  GithubInv'
  <1>1. /\ cache' = [cache EXCEPT ![k] = Github!NoBody]
        /\ UNCHANGED <<versions, generation, settled, reader, mutator>>
    BY DEF Github!Evict
  <1>2. CacheSound'
    BY <1>1 DEF GithubInv, CacheSound
  <1>3. Confirmed' /\ ReadersSound'
    BY <1>1 DEF GithubInv, Confirmed, ReadersSound, Sound, Shaped, Arrived, Usable, UsedCurrent
  <1>4. QED
    BY <1>2, <1>3 DEF GithubInv

\* Nothing is out of date when a session begins.
LEMMA GithubBeginning ==
    ASSUME Github!Init
    PROVE  GithubInv
  <1>1. Confirmed
    BY DEF Github!Init, Confirmed
  <1>2. CacheSound
    BY DEF Github!Init, CacheSound
  <1>3. ASSUME NEW x \in Readers
        PROVE  Sound(reader[x])
    <2>1. reader[x] = Github!Idle(0) /\ generation = 0 /\ settled = 0
      BY DEF Github!Init
    <2>2. /\ DOMAIN reader[x] = GithubFields /\ reader[x].pc = "idle"
          /\ reader[x].generation = 0 /\ reader[x].base = -1 /\ reader[x].floor = 0
          /\ reader[x].read = {}
      BY <2>1 DEF Github!Idle, GithubFields
    <2>3. QED
      BY <2>1, <2>2 DEF Sound, Shaped, Arrived, UsedCurrent
  <1>4. ReadersSound
    BY <1>3 DEF Github!Init, ReadersSound
  <1>5. QED
    BY <1>1, <1>2, <1>4 DEF GithubInv

\* Every step keeps it.
LEMMA GithubStep ==
    ASSUME GithubInv, Github!Next
    PROVE  GithubInv'
  <1>1. ASSUME NEW x \in Readers, NEW from \in Github!Pages, NEW limits \in Limits,
               Github!Begin(x, "facts", from, limits)
        PROVE  GithubInv'
    BY <1>1, GithubBegins
  <1>2. ASSUME NEW x \in Readers, NEW from \in Github!Pages, NEW kind \in {"comments", "diff"},
               Github!Begin(x, kind, from, Github!NoLimits)
        PROVE  GithubInv'
    BY <1>2, GithubBegins
  <1>3. ASSUME NEW x \in Readers, NEW number \in Numbers,
               Github!Begin(x, "row", number, Github!NoLimits)
        PROVE  GithubInv'
    BY <1>3, GithubBegins
  <1>4. ASSUME NEW x \in Readers, NEW kind \in {"item", "source"}, NEW limits \in Limits,
               Github!Begin(x, kind, 1, limits)
        PROVE  GithubInv'
    BY <1>4, GithubBegins
  <1>5. ASSUME NEW x \in Readers,
               \/ Github!Guard(x) \/ Github!Capture(x) \/ Github!Lookup(x) \/ Github!Forget(x)
               \/ Github!Exchange(x)
               \/ \E reason \in {"attempts", "deadline", "cancelled"} : Github!Withheld(x, reason)
               \/ Github!Settle(x) \/ Github!Finish(x) \/ Github!Final(x)
        PROVE  GithubInv'
    BY <1>5, GithubGuards, GithubCaptures, GithubLooksUp, GithubForgets, GithubExchanges,
       GithubWithholds, GithubSettles, GithubFinishes, GithubAnswers
  <1>6. ASSUME NEW m \in Mutators, Github!Effect(m) \/ Github!Lose(m) \/ Github!Confirm(m)
        PROVE  GithubInv'
    BY <1>6, GithubEffects, GithubLoses, GithubConfirms
  <1>7. ASSUME NEW k \in Github!Keys, Github!Evict(k)
        PROVE  GithubInv'
    BY <1>7, GithubEvicts
  <1>8. CASE Github!Edit
    <2>1. PICK list \in Github!Changed(versions[Github!Version]) :
              versions' = Append(versions, list)
      BY <1>8 DEF Github!Edit
    <2>2. UNCHANGED <<cache, generation, settled, reader, mutator>>
      BY <1>8 DEF Github!Edit
    <2>3. /\ mutator' \in [Mutators -> [pc : {"ready", "sent", "unknown", "committed"}, made : Nat]]
          /\ \A n \in Mutators : mutator'[n].made <= Len(versions) + 1
      BY <2>2 DEF GithubInv, Confirmed
    <2>4. QED
      BY <2>1, <2>2, <2>3, GithubChanges
  <1>9. QED
    BY <1>1, <1>2, <1>3, <1>4, <1>5, <1>6, <1>7, <1>8, Zenon DEF Github!Next

\* While another part runs nothing changes.
LEMMA GithubStays ==
    ASSUME GithubInv, UNCHANGED githubVars
    PROVE  GithubInv'
  BY DEF githubVars, GithubInv, Confirmed, CacheSound, ReadersSound, Sound, Shaped, Arrived, Usable,
         UsedCurrent

\* What is served and what is cached is current.
LEMMA GithubCurrent ==
    ASSUME GithubInv
    PROVE  Github!ServedCurrent /\ Github!CacheCurrent
  BY DEF GithubInv, ReadersSound, Sound, UsedCurrent, CacheSound, Github!ServedCurrent,
         Github!CacheCurrent

-----------------------------------------------------------------------------
(* GitHub: the state in which coverage is honest *)

InFlight == {"capture", "lookup", "forget", "send", "settle", "guard"}

Listable == Github!Range(First) \cup Github!Range(Fresh)

\* Every version of the upstream's list names a record once.
ListsSound(vs) ==
    /\ Len(vs) \in Nat \ {0}
    /\ \A v \in 1..Len(vs) : vs[v] \in Seq(Listable) /\ Github!IsInjective(vs[v])

\* Where a page begins in a list, and what it has of the list (GithubReads, Body).
Skipped(pg) == (pg - 1) * PageSize

OnPage(list, pg) ==
    SubSeq(list, Skipped(pg) + 1, Github!Min({pg * PageSize, Len(list)}))

BodyOf(vs, v, key) ==
    IF key \notin Github!Pages THEN [at |-> v, records |-> <<>>, next |-> 0]
    ELSE [at |-> v, records |-> OnPage(vs[v], key),
          next |-> IF key * PageSize < Len(vs[v]) THEN key + 1 ELSE 0]

\* A body that upstream gave for a key: that of a version, but for a
\* continuation that comes round again, which is a fault.
Given(vs, n, body, key) ==
    /\ body.at \in 1..Len(vs)
    /\ \/ body = BodyOf(vs, body.at, key)
       \/ /\ n # 0 /\ key \in Github!Pages
          /\ BodyOf(vs, body.at, key).next # 0
          /\ body = [BodyOf(vs, body.at, key) EXCEPT !.next = key]

\* The kinds of reads, and the keys each of them asks for.
Kinded(r) ==
    /\ r.kind \in Github!Controlled \cup Plain
    /\ r.pc # "idle" =>
          /\ r.kind \in Github!Paged =>
                r.from \in Github!Pages /\ r.key \in {0} \cup Github!Pages
          /\ r.kind = "row" => r.from \in Numbers /\ r.key = Github!PageOf(r.from)
          /\ r.kind \in {"item", "source"} => r.key \in {0, Github!Object, Github!Blob}
          /\ r.kind \in Github!Controlled => r.limits \in Limits

\* What a read has in hand was given for its key.
InHand(vs, n, r) ==
    /\ r.pc \in {"forget", "send", "settle"} =>
          r.cached = Github!NoBody \/ Given(vs, n, r.cached, r.key)
    /\ r.pc = "settle" =>
          /\ r.response.kind \in BodyKinds => Given(vs, n, r.response.body, r.key)
          /\ r.response.kind = "unchanged" =>
                /\ r.cached # Github!NoBody /\ Given(vs, n, r.cached, r.key)
                /\ r.response.body.at = r.cached.at

\* The reads that notice a page that comes round again, and, without a fault,
\* those that were not given one.
Undeceived(n, r) == r.kind = "facts" \/ n = 0

\* The records are k of a list, from where the read began.
Portion(list, r, k) ==
    /\ Len(r.records) = k
    /\ k # 0 => Skipped(r.from) + k <= Len(list)
    /\ \A j \in 1..k : r.records[j] = list[Skipped(r.from) + j]

\* The pages of a facts read are consecutive, and the first k of them are full
\* when all it used is of one version.
PagesListed(r, k) ==
    /\ r.pages \in Seq([key : Nat, upto : Nat])
    /\ \A i \in 1..Len(r.pages) :
          r.pages[i].key = r.from + i - 1 /\ r.pages[i].upto <= Len(r.records)
    /\ \A v \in r.read : r.read = {v} => \A i \in 1..k : r.pages[i].upto = i * PageSize

\* A listing as far as it got.
Listing(vs, n, r) ==
    /\ r.key >= r.from
    /\ r.read = {} => r.records = <<>> /\ r.key = r.from
    /\ Undeceived(n, r) =>
          /\ r.key = r.from <=> r.records = <<>>
          /\ \A v \in r.read : r.read = {v} => Portion(vs[v], r, (r.key - r.from) * PageSize)
    /\ r.kind = "facts" =>
          /\ r.key \in r.seen /\ Github!IsInjective(r.records)
          /\ Len(r.pages) = r.key - r.from /\ PagesListed(r, Len(r.pages))

Underway(vs, n, r) ==
    r.pc \in InFlight =>
        /\ r.stop \in {Github!Running, Github!Complete}
        /\ r.records \in Seq(Listable) /\ r.read \subseteq 1..Len(vs)
        /\ r.key = 0 => r.records = <<>> /\ r.pages = <<>> /\ r.read = {}
        /\ r.kind \in Github!Paged /\ r.key # 0 => Listing(vs, n, r)

\* What a listing that has ended says of where it ended.
StopHonest(list, r) ==
    /\ Portion(list, r, Len(r.records))
    /\ r.stop.state = "complete" =>
          \/ Skipped(r.from) + Len(r.records) = Len(list)
          \/ r.records = <<>> /\ Skipped(r.from) >= Len(list)
    /\ r.stop.resume # 0 =>
          /\ r.stop.resume \in Nat /\ r.stop.resume >= r.from
          /\ Len(r.records) = (r.stop.resume - r.from) * PageSize

Ended(vs, n, r) ==
    /\ r.pc = "finish" /\ r.kind = "facts" => r.stop.state # "error"
    /\ r.pc \in {"finish", "final", "answered"} /\ r.stop.state # "error"
       /\ r.kind \in Github!Paged =>
          /\ r.records \in Seq(Listable) /\ r.read \subseteq 1..Len(vs)
          /\ r.kind # "diff" => Github!IsInjective(r.records)
          /\ Undeceived(n, r) => \A v \in r.read : r.read = {v} => StopHonest(vs[v], r)
          /\ r.pc = "finish" => PagesListed(r, Len(r.pages) - 1)

\* A row is the one of its number.
RowOpened(vs, r) ==
    r.kind = "row" /\ r.pc \notin InFlight =>
        /\ r.read \subseteq 1..Len(vs)
        /\ r.stop.state # "error" => \A v \in r.read : r.records = <<vs[v][r.from]>>
        /\ r.stop = Github!Failed("absent") => \A v \in r.read : r.from > Len(vs[v])

\* The page at which a spent byte budget stops a read fits that budget.
PageFits(vs, v, pg, limits) ==
    /\ v \in 1..Len(vs)
    /\ 1 + Github!Weight(BodyOf(vs, v, pg)) <= limits.bytes

Budgeted(vs, r) ==
    /\ r.kind = "facts" /\ r.resumed # 0 => PageFits(vs, r.resumed, r.from, r.limits)
    /\ r.kind \in {"item", "source"} => r.resumed = 0
    /\ r.stop.reason = "bytes" /\ r.stop.resume # 0 =>
          PageFits(vs, r.response.body.at, r.stop.resume, r.limits)
    /\ r.stop = Github!Failed("bytes") => r.resumed = 0 \/ r.response.body.at # r.resumed

Honest(vs, n, r) ==
    /\ Kinded(r) /\ InHand(vs, n, r) /\ Underway(vs, n, r) /\ Ended(vs, n, r)
    /\ RowOpened(vs, r) /\ Budgeted(vs, r)

\* A fresh read has spent on its parent a byte, and on nothing else.
Counted(r) ==
    r.pc \in InFlight /\ r.kind = "facts" =>
        IF r.key = 0 THEN r.bytes = 0
        ELSE r.parentBytes = 1 /\ (r.key = r.from => r.bytes = 1)

Covered(vs, n, r) == Honest(vs, n, r) /\ Counted(r)

CacheGiven(vs, n, entries) ==
    \A k \in Github!Keys : entries[k] = Github!NoBody \/ Given(vs, n, entries[k], k)

CoverageInv ==
    /\ faults \in Nat /\ ListsSound(versions) /\ CacheGiven(versions, faults, cache)
    /\ \A x \in Readers : Covered(versions, faults, reader[x])

-----------------------------------------------------------------------------
(* GitHub: lists and their pages *)

\* The smaller of two numbers.
LEMMA SmallerOf ==
    ASSUME NEW a \in Int, NEW b \in Int
    PROVE  Github!Min({a, b}) = IF a <= b THEN a ELSE b
  <1> DEFINE m == IF a <= b THEN a ELSE b
  <1>1. m \in {a, b} /\ \A y \in {a, b} : m <= y
    OBVIOUS
  <1>2. \A w \in {a, b} : (\A y \in {a, b} : w <= y) => w = m
    OBVIOUS
  <1> HIDE DEF m
  <1>3. (CHOOSE w \in {a, b} : \A y \in {a, b} : w <= y) = m
    BY <1>1, <1>2
  <1>4. QED
    BY <1>3 DEF Github!Min, m

\* As many numbers as the last of them.
LEMMA CountTo ==
    ASSUME NEW n \in Nat
    PROVE  IsFiniteSet(1..n) /\ Cardinality(1..n) = n
  <1>1. /\ IsFiniteSet(1..n)
        /\ Cardinality(1..n) = IF 1 > n THEN 0 ELSE n - 1 + 1
    <2>1. 1 \in Int /\ n \in Int
      OBVIOUS
    <2>2. QED
      BY <2>1, FS_Interval, Zenon
  <1>2. QED
    BY <1>1

\* A set has no more elements than a sequence that names them.
LEMMA RangeCount ==
    ASSUME NEW S, NEW s \in Seq(S)
    PROVE  /\ IsFiniteSet(Github!Range(s))
           /\ Cardinality(Github!Range(s)) \in Nat /\ Cardinality(Github!Range(s)) <= Len(s)
  <1>1. s \in [1..Len(s) -> Github!Range(s)] /\ Len(s) \in Nat
    BY DEF Github!Range
  <1>2. s \in Surjection(1..Len(s), Github!Range(s))
    BY <1>1 DEF Surjection, Github!Range
  <1>3. IsFiniteSet(1..Len(s)) /\ Cardinality(1..Len(s)) = Len(s)
    BY <1>1, CountTo
  <1>4. QED
    BY <1>2, <1>3, FS_Surjection, FS_CardinalityType

\* A list that names a record once is no longer than there are records.
LEMMA ListShort ==
    ASSUME NEW list \in Seq(Listable), Github!IsInjective(list)
    PROVE  Len(list) <= Len(First) + Len(Fresh)
  <1>1. /\ First \in Seq(Github!Range(First)) /\ Fresh \in Seq(Github!Range(Fresh))
        /\ Len(First) \in Nat /\ Len(Fresh) \in Nat
    BY ListingAssumption
  <1> DEFINE A == Github!Range(First)
             B == Github!Range(Fresh)
  <1>2. /\ IsFiniteSet(A) /\ Cardinality(A) \in Nat /\ Cardinality(A) <= Len(First)
        /\ IsFiniteSet(B) /\ Cardinality(B) \in Nat /\ Cardinality(B) <= Len(Fresh)
    BY <1>1, RangeCount
  <1>3. IsFiniteSet(Listable) /\ Cardinality(Listable) <= Len(First) + Len(Fresh)
    <2>1. IsFiniteSet(A \cup B)
          /\ Cardinality(A \cup B) = Cardinality(A) + Cardinality(B) - Cardinality(A \cap B)
      BY <1>2, FS_Union
    <2>2. IsFiniteSet(A \cap B) /\ Cardinality(A \cap B) \in Nat
      BY <1>2, FS_Intersection, FS_CardinalityType
    <2>3. Listable = A \cup B
      BY DEF Listable
    <2> HIDE DEF A, B
    <2>4. QED
      BY <1>1, <1>2, <2>1, <2>2, <2>3
  <1>4. list \in Injection(1..Len(list), Listable)
    BY DEF Injection, IsInjective, Github!IsInjective
  <1>5. Cardinality(1..Len(list)) <= Cardinality(Listable)
    BY <1>3, <1>4, FS_Injection
  <1>6. Len(list) \in Nat /\ Cardinality(1..Len(list)) = Len(list) /\ Cardinality(Listable) \in Nat
    BY <1>3, CountTo, FS_CardinalityType
  <1>7. QED
    BY <1>1, <1>3, <1>5, <1>6

\* What a page has of a list, and where it leaves off.
LEMMA PageOfList ==
    ASSUME NEW S, NEW list \in Seq(S), NEW pg \in Github!Pages
    PROVE  /\ OnPage(list, pg) \in Seq(S)
           /\ Len(OnPage(list, pg)) \in Nat
           /\ \A j \in 1..Len(OnPage(list, pg)) :
                 /\ Skipped(pg) + j \in 1..Len(list)
                 /\ OnPage(list, pg)[j] = list[Skipped(pg) + j]
           /\ pg * PageSize < Len(list) => Len(OnPage(list, pg)) = PageSize
           /\ ~(pg * PageSize < Len(list)) =>
                 \/ Skipped(pg) + Len(OnPage(list, pg)) = Len(list)
                 \/ OnPage(list, pg) = <<>> /\ Skipped(pg) >= Len(list)
  <1> DEFINE a == Skipped(pg) + 1
             c == pg * PageSize
             b == Github!Min({c, Len(list)})
             part == SubSeq(list, a, b)
  <1>1. pg \in Nat /\ pg >= 1 /\ PageSize \in Nat /\ PageSize >= 1 /\ Len(list) \in Nat
    BY ListingAssumption DEF Github!Pages
  <1>2. Skipped(pg) \in Nat /\ c \in Nat /\ c = Skipped(pg) + PageSize
    BY <1>1 DEF Skipped
  <1>3. OnPage(list, pg) = part
    BY DEF OnPage
  <1> HIDE DEF c
  <1>4. b = IF c <= Len(list) THEN c ELSE Len(list)
    BY <1>1, <1>2, SmallerOf
  <1> HIDE DEF b
  <1>5. a \in Nat /\ a >= 1 /\ b \in Nat /\ b <= Len(list)
    BY <1>1, <1>2, <1>4
  <1>6. /\ part \in Seq(S)
        /\ Len(part) = IF a <= b THEN b - a + 1 ELSE 0
        /\ \A j \in 1..Len(part) : part[j] = list[a + j - 1]
    BY <1>5
  <1>7. Len(part) = 0 => part = <<>>
    BY <1>6
  <1> HIDE DEF part
  <1>8. \A j \in 1..Len(part) :
            a + j - 1 = Skipped(pg) + j /\ Skipped(pg) + j \in 1..Len(list)
    <2>1. ASSUME NEW j \in 1..Len(part)
          PROVE  a + j - 1 = Skipped(pg) + j /\ Skipped(pg) + j \in 1..Len(list)
      <3>1. Len(part) = IF a <= b THEN b - a + 1 ELSE 0
        BY <1>6
      <3>2. j \in Nat /\ j >= 1 /\ j <= b - a + 1
        BY <1>5, <2>1, <3>1
      <3>3. a = Skipped(pg) + 1
        BY DEF a
      <3> HIDE DEF a
      <3>4. QED
        BY SMTT(30), <1>1, <1>2, <1>5, <3>2, <3>3
    <2>2. QED
      BY <2>1
  <1>9. c < Len(list) => Len(part) = PageSize
    BY <1>1, <1>2, <1>4, <1>6 DEF a
  <1>10. ~(c < Len(list)) =>
            \/ Skipped(pg) + Len(part) = Len(list)
            \/ part = <<>> /\ Skipped(pg) >= Len(list)
    BY <1>1, <1>2, <1>4, <1>6, <1>7 DEF a
  <1>11. Len(part) \in Nat
    BY <1>6
  <1>12. QED
    BY <1>3, <1>6, <1>8, <1>9, <1>10, <1>11 DEF c

\* Quotient and remainder.
LEMMA Division ==
    ASSUME NEW a \in Nat, NEW p \in Nat, p >= 1
    PROVE  /\ a \div p \in Nat /\ a % p \in 0..(p - 1)
           /\ a = p * (a \div p) + (a % p)
  <1>1. a \div p \in Nat
    OBVIOUS
  <1>2. a % p \in 0..(p - 1)
    OBVIOUS
  <1>3. a = p * (a \div p) + (a % p)
    OBVIOUS
  <1>4. QED
    BY <1>1, <1>2, <1>3

\* There is a last page.
LEMMA LastKeyNumber == Github!LastKey \in Nat /\ Github!LastKey >= 1
  <1> DEFINE L == Len(First) + Len(Fresh)
  <1>1. L \in Nat /\ PageSize \in Nat /\ PageSize >= 1
    BY ListingAssumption
  <1>2. Github!LastKey = L \div PageSize + 1
    BY DEF Github!LastKey
  <1> HIDE DEF L
  <1>3. L \div PageSize \in Nat
    BY <1>1, Division
  <1>4. QED
    BY <1>2, <1>3

\* A page that is full of a list is not the last.
LEMMA PageFollows ==
    ASSUME NEW pg \in Github!Pages, NEW list \in Seq(Listable), Github!IsInjective(list),
           pg * PageSize < Len(list)
    PROVE  pg + 1 \in Github!Pages
  <1> DEFINE L == Len(First) + Len(Fresh)
             q == L \div PageSize
  <1>1. /\ pg \in Nat /\ pg >= 1 /\ PageSize \in Nat /\ PageSize >= 1
        /\ Len(list) \in Nat /\ L \in Nat
    BY ListingAssumption DEF Github!Pages
  <1>2. pg * PageSize < L
    <2>1. Len(list) <= L
      BY ListShort
    <2> HIDE DEF L
    <2>2. QED
      BY <1>1, <2>1
  <1> HIDE DEF L
  <1>3. q \in Nat /\ L % PageSize \in 0..(PageSize - 1) /\ L = PageSize * q + (L % PageSize)
    BY <1>1, Division
  <1> HIDE DEF q
  <1>4. pg <= q
    <2>1. ASSUME pg >= q + 1
          PROVE  FALSE
      <3>1. pg * PageSize >= (q + 1) * PageSize
        BY <1>1, <1>3, <2>1
      <3>2. (q + 1) * PageSize = q * PageSize + PageSize
        BY <1>1, <1>3
      <3>3. QED
        BY <1>1, <1>2, <1>3, <3>1, <3>2
    <2>2. QED
      BY <1>1, <1>3, <2>1
  <1>5. Github!Pages = 1..(q + 1)
    BY DEF Github!Pages, Github!LastKey, q, L
  <1>6. QED
    BY <1>1, <1>3, <1>4, <1>5

\* A body that was given for a page holds that page of its version.
LEMMA PageGiven ==
    ASSUME NEW vs, NEW n, NEW body, NEW key \in Github!Pages, ListsSound(vs),
           Given(vs, n, body, key)
    PROVE  /\ body.at \in 1..Len(vs) /\ vs[body.at] \in Seq(Listable)
           /\ Github!IsInjective(vs[body.at])
           /\ body.records = OnPage(vs[body.at], key)
           /\ body.next = 0 => ~(key * PageSize < Len(vs[body.at]))
           /\ body.next # 0 =>
                 /\ key * PageSize < Len(vs[body.at])
                 /\ body.next \in Github!Pages
                 /\ body.next = key + 1 \/ (n # 0 /\ body.next = key)
           /\ Github!Weight(body) = Github!Weight(BodyOf(vs, body.at, key))
  <1> DEFINE list == vs[body.at]
             now == BodyOf(vs, body.at, key)
  <1>1. body.at \in 1..Len(vs) /\ list \in Seq(Listable) /\ Github!IsInjective(list)
    BY DEF Given, ListsSound
  <1>2. now = [at |-> body.at, records |-> OnPage(list, key),
               next |-> IF key * PageSize < Len(list) THEN key + 1 ELSE 0]
    BY DEF BodyOf
  <1>3. key # 0 /\ key + 1 # 0 /\ key \in Nat
    BY DEF Github!Pages
  <1>4. key * PageSize < Len(list) => key + 1 \in Github!Pages
    BY <1>1, PageFollows
  <1>5. body = now \/ (n # 0 /\ now.next # 0 /\ body = [now EXCEPT !.next = key])
    BY DEF Given
  <1> HIDE DEF now
  <1>6. /\ now.next = IF key * PageSize < Len(list) THEN key + 1 ELSE 0
        /\ now.records = OnPage(list, key)
    BY <1>2
  <1>7. body.records = now.records /\ (body.next = now.next \/ (n # 0 /\ now.next # 0 /\ body.next = key))
    BY <1>2, <1>5
  <1>8. Github!Weight(body) = Github!Weight(now)
    BY <1>7, Zenon DEF Github!Weight
  <1>9. QED
    BY <1>1, <1>3, <1>4, <1>6, <1>7, <1>8 DEF now

\* What is under another key has no records.
LEMMA ObjectGiven ==
    ASSUME NEW vs, NEW n, NEW body, NEW key, key \notin Github!Pages, Given(vs, n, body, key)
    PROVE  /\ body.at \in 1..Len(vs) /\ body.records = <<>> /\ body.next = 0
           /\ Github!Weight(body) = 1
  <1>1. body = [at |-> body.at, records |-> <<>>, next |-> 0] /\ body.at \in 1..Len(vs)
    BY DEF Given, BodyOf
  <1>2. body.records = <<>> /\ body.next = 0
    BY <1>1
  <1>3. {i \in DOMAIN body.records : body.records[i] \in Heavy} = {}
    BY <1>2
  <1>4. Github!Cardinality({}) = 0
    BY FS_EmptySet DEF Github!Cardinality, Cardinality
  <1>5. Github!Weight(body) = 1 + Len(body.records) + 2 * 0
    BY <1>3, <1>4 DEF Github!Weight
  <1>6. QED
    BY <1>1, <1>2, <1>5

\* No body is lighter than a byte.
LEMMA WeightPositive ==
    ASSUME NEW S, NEW body, body.records \in Seq(S)
    PROVE  Github!Weight(body) \in Nat /\ Github!Weight(body) >= 1
  <1> DEFINE heavy == {i \in DOMAIN body.records : body.records[i] \in Heavy}
  <1>1. Len(body.records) \in Nat /\ heavy \subseteq 1..Len(body.records)
    OBVIOUS
  <1>2. IsFiniteSet(heavy) /\ Cardinality(heavy) \in Nat
    BY <1>1, CountTo, FS_Subset, FS_CardinalityType
  <1>3. Github!Cardinality(heavy) = Cardinality(heavy)
    BY DEF Github!Cardinality, Cardinality
  <1>4. Github!Weight(body) = 1 + Len(body.records) + 2 * Github!Cardinality(heavy)
    BY DEF Github!Weight
  <1> HIDE DEF heavy
  <1>5. QED
    BY <1>1, <1>2, <1>3, <1>4

\* A page that was given weighs at least a byte.
LEMMA GivenWeighs ==
    ASSUME NEW vs, NEW n, NEW body, NEW key \in Github!Pages, ListsSound(vs),
           Given(vs, n, body, key)
    PROVE  Github!Weight(body) \in Nat /\ Github!Weight(body) >= 1
  <1>1. vs[body.at] \in Seq(Listable) /\ body.records = OnPage(vs[body.at], key)
    BY PageGiven
  <1>2. OnPage(vs[body.at], key) \in Seq(Listable)
    BY <1>1, PageOfList
  <1>3. body.records \in Seq(Listable)
    BY <1>1, <1>2
  <1>4. QED
    BY <1>3, WeightPositive

\* What was given stays so when upstream is at fault once more, and when the list
\* changes.
LEMMA GivenStays ==
    ASSUME NEW vs, NEW ws, NEW n \in Nat, NEW m \in Nat, m >= n,
           Len(vs) \in Nat, Len(ws) \in Nat, Len(ws) >= Len(vs),
           \A v \in 1..Len(vs) : ws[v] = vs[v],
           NEW body, NEW key, Given(vs, n, body, key)
    PROVE  Given(ws, m, body, key)
  <1>1. body.at \in 1..Len(vs) /\ body.at \in 1..Len(ws)
    BY DEF Given
  <1>2. BodyOf(ws, body.at, key) = BodyOf(vs, body.at, key)
    BY <1>1 DEF BodyOf
  <1>3. QED
    BY <1>1, <1>2 DEF Given

\* And so does all that is known of a read.
LEMMA CoveredStays ==
    ASSUME NEW vs, NEW ws, NEW n \in Nat, NEW m \in Nat, m >= n,
           Len(vs) \in Nat, Len(ws) \in Nat, Len(ws) >= Len(vs),
           \A v \in 1..Len(vs) : ws[v] = vs[v],
           NEW r, Covered(vs, n, r)
    PROVE  Covered(ws, m, r)
  <1>1. \A body, key : Given(vs, n, body, key) => Given(ws, m, body, key)
    BY GivenStays
  <1>2. 1..Len(vs) \subseteq 1..Len(ws) /\ (Undeceived(m, r) => Undeceived(n, r))
    BY DEF Undeceived
  <1>3. \A v \in 1..Len(vs) : \A key : BodyOf(ws, v, key) = BodyOf(vs, v, key)
    BY DEF BodyOf
  <1>4. Honest(vs, n, r) /\ Counted(r)
    BY DEF Covered
  <1>5. InHand(ws, m, r)
    BY <1>1, <1>4 DEF Honest, InHand
  <1>6. Underway(ws, m, r)
    BY <1>2, <1>4 DEF Honest, Underway, Listing
  <1>7. Ended(ws, m, r)
    BY <1>2, <1>4 DEF Honest, Ended
  <1>8. RowOpened(ws, r)
    BY <1>2, <1>4 DEF Honest, RowOpened
  <1>9. \A v, pg, limits : PageFits(vs, v, pg, limits) => PageFits(ws, v, pg, limits)
    BY <1>2, <1>3 DEF PageFits
  <1>10. Budgeted(ws, r)
    BY <1>4, <1>9 DEF Honest, Budgeted
  <1>11. QED
    BY <1>4, <1>5, <1>6, <1>7, <1>8, <1>10 DEF Covered, Honest

-----------------------------------------------------------------------------
(* GitHub: what a step makes of a read *)

\* A read in flight is as honest as it was, whatever it has in hand.
LEMMA StaysHonest ==
    ASSUME NEW vs, NEW n, NEW r, NEW s, Honest(vs, n, r), r.pc \in InFlight, s.pc \in InFlight,
           s.kind = r.kind, s.from = r.from, s.key = r.key, s.limits = r.limits, s.stop = r.stop,
           s.records = r.records, s.read = r.read, s.pages = r.pages, s.seen = r.seen,
           s.resumed = r.resumed, InHand(vs, n, s)
    PROVE  Honest(vs, n, s)
  <1>1. Kinded(s)
    BY DEF Honest, Kinded, InFlight
  <1>2. r.stop \in {Github!Running, Github!Complete}
    BY DEF Honest, Underway
  <1>3. Underway(vs, n, s)
    <2>1. \A list, k : Portion(list, r, k) => Portion(list, s, k)
      BY DEF Portion
    <2>2. \A k : PagesListed(r, k) => PagesListed(s, k)
      BY DEF PagesListed
    <2>3. Listing(vs, n, r) => Listing(vs, n, s)
      BY <2>1, <2>2 DEF Listing, Undeceived
    <2>4. Underway(vs, n, r)
      BY DEF Honest
    <2>5. QED
      BY <2>3, <2>4 DEF Underway
  <1>4. Ended(vs, n, s) /\ RowOpened(vs, s)
    BY DEF Ended, RowOpened, InFlight
  <1>5. Budgeted(vs, s)
    BY <1>2 DEF Honest, Budgeted, Github!Running, Github!Complete, Github!Stop, Github!Failed
  <1>6. QED
    BY <1>1, <1>3, <1>4, <1>5 DEF Honest

\* It goes on with what it has when it has spent nothing more.
LEMMA GoesOn ==
    ASSUME NEW vs, NEW n, NEW r, NEW s, Covered(vs, n, r), r.pc \in InFlight, s.pc \in InFlight,
           s.kind = r.kind, s.from = r.from, s.key = r.key, s.limits = r.limits, s.stop = r.stop,
           s.records = r.records, s.read = r.read, s.pages = r.pages, s.seen = r.seen,
           s.parentBytes = r.parentBytes, s.bytes = r.bytes, s.resumed = r.resumed,
           InHand(vs, n, s)
    PROVE  Covered(vs, n, s)
  <1>1. Honest(vs, n, s)
    BY StaysHonest DEF Covered
  <1>2. Counted(s)
    BY DEF Covered, Counted
  <1>3. QED
    BY <1>1, <1>2 DEF Covered

\* A read that fails says nothing of what it covers.
LEMMA FailsHonest ==
    ASSUME NEW vs, NEW n, NEW r, DOMAIN r = GithubFields, Honest(vs, n, r), r.pc # "idle",
           NEW reason, reason # "absent",
           reason = "bytes" => r.resumed = 0 \/ r.response.body.at # r.resumed
    PROVE  Covered(vs, n, [r EXCEPT !.pc = "answered", !.stop = Github!Failed(reason)])
  <1> DEFINE s == [r EXCEPT !.pc = "answered", !.stop = Github!Failed(reason)]
  <1>1. /\ s.pc = "answered" /\ s.stop = Github!Failed(reason)
        /\ s.kind = r.kind /\ s.from = r.from /\ s.key = r.key /\ s.limits = r.limits
        /\ s.resumed = r.resumed /\ s.response = r.response /\ s.read = r.read
    BY DEF GithubFields
  <1> HIDE DEF s
  <1>2. /\ s.stop.state = "error" /\ s.stop.reason = reason /\ s.stop.resume = 0
        /\ s.stop # Github!Failed("absent")
    BY <1>1 DEF Github!Failed, Github!Stop
  <1>3. Kinded(s)
    BY <1>1 DEF Honest, Kinded
  <1>4. InHand(vs, n, s) /\ Underway(vs, n, s) /\ Ended(vs, n, s) /\ Counted(s)
    BY <1>1, <1>2 DEF InHand, Underway, Ended, Counted, InFlight
  <1>5. RowOpened(vs, s)
    BY <1>1, <1>2 DEF Honest, RowOpened, Underway
  <1>6. Budgeted(vs, s)
    <2>1. s.stop = Github!Failed("bytes") => reason = "bytes"
      BY <1>1 DEF Github!Failed, Github!Stop
    <2>2. QED
      BY <1>1, <1>2, <2>1 DEF Honest, Budgeted
  <1>7. QED
    BY <1>3, <1>4, <1>5, <1>6 DEF Covered, Honest, s

\* A collection that ends with what it has leaves off at the page it was at.
LEMMA StopsHonest ==
    ASSUME NEW vs, NEW n, ListsSound(vs), NEW r, DOMAIN r = GithubFields, Honest(vs, n, r),
           r.pc \in InFlight, r.kind = "facts", r.key # 0,
           NEW stop, stop.state \notin {"error", "complete"}, stop.resume \in {0, r.key},
           stop.reason = "bytes" /\ stop.resume # 0 =>
               PageFits(vs, r.response.body.at, r.key, r.limits)
    PROVE  Covered(vs, n, [r EXCEPT !.pc = "finish", !.stop = stop])
  <1> DEFINE s == [r EXCEPT !.pc = "finish", !.stop = stop]
  <1>1. /\ s.pc = "finish" /\ s.stop = stop
        /\ s.kind = r.kind /\ s.from = r.from /\ s.key = r.key /\ s.limits = r.limits
        /\ s.resumed = r.resumed /\ s.response = r.response /\ s.read = r.read
        /\ s.records = r.records /\ s.pages = r.pages
    BY DEF GithubFields
  <1> HIDE DEF s
  <1>2. /\ r.key \in Github!Pages /\ r.from \in Github!Pages
        /\ r.records \in Seq(Listable) /\ r.read \subseteq 1..Len(vs) /\ Listing(vs, n, r)
    BY DEF Honest, Kinded, Underway, InFlight, Github!Paged
  <1>3. Kinded(s)
    BY <1>1 DEF Honest, Kinded, InFlight
  <1>4. InHand(vs, n, s) /\ Underway(vs, n, s) /\ Counted(s) /\ RowOpened(vs, s)
    BY <1>1 DEF InHand, Underway, Counted, RowOpened, InFlight
  <1>5. Ended(vs, n, s)
    <2>1. ASSUME NEW v \in s.read, s.read = {v}
          PROVE  StopHonest(vs[v], s)
      <3>1. Portion(vs[v], r, (r.key - r.from) * PageSize)
        BY <1>1, <1>2, <2>1 DEF Listing, Undeceived
      <3>2. Portion(vs[v], s, (r.key - r.from) * PageSize)
        BY <1>1, <3>1 DEF Portion
      <3>3. Portion(vs[v], s, Len(s.records)) /\ Len(s.records) = (r.key - r.from) * PageSize
        BY <3>2 DEF Portion
      <3>4. r.key \in Nat /\ r.key >= r.from
        BY <1>2 DEF Listing, Github!Pages
      <3>5. QED
        BY <1>1, <3>3, <3>4 DEF StopHonest
    <2>2. PagesListed(s, Len(s.pages) - 1) /\ Github!IsInjective(s.records)
      <3>1. PagesListed(r, Len(r.pages)) /\ Github!IsInjective(r.records)
        BY <1>2 DEF Listing
      <3>2. \A i \in 1..(Len(r.pages) - 1) : i \in 1..Len(r.pages)
        BY <3>1 DEF PagesListed
      <3>3. QED
        BY <1>1, <3>1, <3>2 DEF PagesListed
    <2>3. QED
      BY <1>1, <1>2, <2>1, <2>2 DEF Ended
  <1>6. Budgeted(vs, s)
    <2>1. s.stop # Github!Failed("bytes")
      BY <1>1 DEF Github!Failed, Github!Stop
    <2>2. stop.resume # 0 => stop.resume = r.key
      OBVIOUS
    <2>3. QED
      BY <1>1, <2>1, <2>2 DEF Honest, Budgeted
  <1>7. QED
    BY <1>3, <1>4, <1>5, <1>6 DEF Covered, Honest, s

\* It ends so, or fails when it has nothing.
LEMMA StopsOrFails ==
    ASSUME NEW vs, NEW n, ListsSound(vs), NEW r, DOMAIN r = GithubFields, Honest(vs, n, r),
           r.pc \in InFlight, r.kind = "facts", r.key # 0,
           NEW reason, reason \notin {"absent", "bytes"},
           NEW stop, stop.state \notin {"error", "complete"}, stop.resume \in {0, r.key},
           stop.reason # "bytes"
    PROVE  Covered(vs, n, Github!StopOr(r, reason, stop))
  <1>1. r.pc # "idle"
    BY DEF InFlight
  <1>2. Covered(vs, n, [r EXCEPT !.pc = "answered", !.stop = Github!Failed(reason)])
    BY <1>1, FailsHonest
  <1>3. Covered(vs, n, [r EXCEPT !.pc = "finish", !.stop = stop])
    BY StopsHonest
  <1>4. QED
    BY <1>2, <1>3 DEF Github!StopOr

-----------------------------------------------------------------------------
(* GitHub: what a read makes of a page *)

\* Pages of the same length, one after the other.
LEMMA PagesInOrder ==
    ASSUME NEW from \in Github!Pages, NEW key \in Github!Pages, key >= from
    PROVE  /\ from \in Nat /\ key \in Nat /\ PageSize \in Nat /\ PageSize >= 1
           /\ Skipped(from) \in Nat /\ Skipped(key) \in Nat /\ (key - from) * PageSize \in Nat
           /\ Skipped(key) = Skipped(from) + (key - from) * PageSize
           /\ (key + 1 - from) * PageSize = (key - from) * PageSize + PageSize
           /\ key * PageSize = Skipped(key) + PageSize
           /\ key = from => (key - from) * PageSize = 0
           /\ key # from => (key - from) * PageSize >= 1
  <1>1. from \in Nat /\ key \in Nat /\ PageSize \in Nat /\ PageSize >= 1 /\ from >= 1
    BY ListingAssumption DEF Github!Pages
  <1>2. Skipped(from) \in Nat /\ Skipped(key) \in Nat /\ (key - from) * PageSize \in Nat
    BY <1>1 DEF Skipped
  <1>3. Skipped(key) = Skipped(from) + (key - from) * PageSize
    BY <1>1 DEF Skipped
  <1>4. (key + 1 - from) * PageSize = (key - from) * PageSize + PageSize
    BY <1>1
  <1>5. key * PageSize = Skipped(key) + PageSize
    BY <1>1 DEF Skipped
  <1>6. key = from => (key - from) * PageSize = 0
    BY <1>1
  <1>7. key # from => (key - from) * PageSize >= 1
    <2>1. ASSUME key # from
          PROVE  \E d \in Nat : key - from = d + 1
      <3>1. key - from - 1 \in Nat /\ key - from = (key - from - 1) + 1
        BY <1>1, <2>1
      <3>2. QED
        BY <3>1
    <2>2. \A d \in Nat : (d + 1) * PageSize >= 1
      <3>1. \A d \in Nat : (d + 1) * PageSize = d * PageSize + PageSize /\ d * PageSize \in Nat
        BY <1>1
      <3>2. QED
        BY <1>1, <3>1
    <2>3. QED
      BY <2>1, <2>2
  <1>8. QED
    BY <1>1, <1>2, <1>3, <1>4, <1>5, <1>6, <1>7

\* The body of a page is added to what a read has.
Joined(s, r, body) ==
    /\ s.from = r.from /\ s.read = r.read \cup {body.at}
    /\ s.records = r.records \o body.records
    /\ s.pages = Append(r.pages, [key |-> r.key, upto |-> Len(r.records) + Len(body.records)])

\* The records of a page that is added to those before it.
LEMMA PageAppended ==
    ASSUME NEW from \in Github!Pages, NEW key \in Github!Pages, key >= from,
           NEW list \in Seq(Listable),
           NEW r, r.from = from, r.records \in Seq(Listable),
           Portion(list, r, (key - from) * PageSize),
           NEW body, body.records = OnPage(list, key), NEW s, Joined(s, r, body)
    PROVE  /\ Portion(list, s, Len(s.records))
           /\ key * PageSize < Len(list) => Portion(list, s, (key + 1 - from) * PageSize)
           /\ ~(key * PageSize < Len(list)) =>
                 \/ Skipped(from) + Len(s.records) = Len(list)
                 \/ s.records = <<>> /\ Skipped(from) >= Len(list)
  <1> DEFINE k == (key - from) * PageSize
             extra == OnPage(list, key)
  <1>1. /\ from \in Nat /\ key \in Nat /\ PageSize \in Nat /\ PageSize >= 1
        /\ Skipped(from) \in Nat /\ Skipped(key) \in Nat /\ k \in Nat
        /\ Skipped(key) = Skipped(from) + k /\ (key + 1 - from) * PageSize = k + PageSize
        /\ key = from => k = 0
        /\ key # from => k >= 1
    BY PagesInOrder
  <1>2. /\ extra \in Seq(Listable) /\ Len(extra) \in Nat
        /\ \A j \in 1..Len(extra) : Skipped(key) + j \in 1..Len(list)
                                    /\ extra[j] = list[Skipped(key) + j]
        /\ key * PageSize < Len(list) => Len(extra) = PageSize
        /\ ~(key * PageSize < Len(list)) =>
              \/ Skipped(key) + Len(extra) = Len(list)
              \/ extra = <<>> /\ Skipped(key) >= Len(list)
    BY PageOfList
  <1>3. Len(list) \in Nat
    OBVIOUS
  <1> HIDE DEF k, extra
  <1>4. /\ Len(r.records) = k /\ (k # 0 => Skipped(from) + k <= Len(list))
        /\ \A j \in 1..k : r.records[j] = list[Skipped(from) + j]
    BY DEF Portion, k
  <1>5. s.records = r.records \o extra /\ s.from = from
    BY DEF extra, Joined
  <1>6. /\ s.records \in Seq(Listable) /\ Len(s.records) = k + Len(extra)
        /\ \A j \in 1..k : s.records[j] = r.records[j]
        /\ \A j \in 1..Len(extra) : s.records[k + j] = extra[j]
    <2>1. s.records \in Seq(Listable) /\ Len(s.records) = Len(r.records) + Len(extra)
      BY <1>2, <1>5
    <2>2. \A j \in 1..Len(r.records) : s.records[j] = r.records[j]
      BY <1>2, <1>5
    <2>3. \A j \in 1..Len(extra) : s.records[Len(r.records) + j] = extra[j]
      BY <1>2, <1>5
    <2>4. QED
      BY <1>4, <2>1, <2>2, <2>3
  <1>7. \A j \in 1..(k + Len(extra)) : s.records[j] = list[Skipped(from) + j]
    <2>1. ASSUME NEW j \in 1..(k + Len(extra)), j <= k
          PROVE  s.records[j] = list[Skipped(from) + j]
      BY <1>1, <1>2, <1>4, <1>6, <2>1
    <2>2. ASSUME NEW j \in 1..(k + Len(extra)), j > k
          PROVE  s.records[j] = list[Skipped(from) + j]
      <3>1. /\ j - k \in 1..Len(extra) /\ Skipped(key) + (j - k) = Skipped(from) + j
            /\ k + (j - k) = j
        BY <1>1, <1>2, <2>2
      <3>2. s.records[k + (j - k)] = extra[j - k]
        BY <1>6, <3>1
      <3>3. QED
        BY <1>2, <3>1, <3>2
    <2>3. \A j \in 1..(k + Len(extra)) : j <= k \/ j > k
      BY <1>1, <1>2
    <2>4. QED
      BY <2>1, <2>2, <2>3
  <1>8. k + Len(extra) # 0 => Skipped(from) + (k + Len(extra)) <= Len(list)
    <2>1. CASE Len(extra) = 0
      BY <1>1, <1>4, <2>1
    <2>2. CASE Len(extra) # 0
      <3>1. Len(extra) \in 1..Len(extra)
        BY <1>2, <2>2
      <3>2. Skipped(key) + Len(extra) \in 1..Len(list)
        BY <1>2, <3>1
      <3>3. QED
        BY <1>1, <1>2, <1>3, <3>2
    <2>3. QED
      BY <2>1, <2>2
  <1>9. Portion(list, s, k + Len(extra))
    BY <1>5, <1>6, <1>7, <1>8 DEF Portion
  <1>10. ASSUME ~(key * PageSize < Len(list))
         PROVE  \/ Skipped(from) + Len(s.records) = Len(list)
                \/ s.records = <<>> /\ Skipped(from) >= Len(list)
    <2>1. CASE Skipped(key) + Len(extra) = Len(list)
      <3>1. Skipped(from) + Len(s.records) = Skipped(from) + (k + Len(extra))
        BY <1>6
      <3>2. Skipped(from) + (k + Len(extra)) = Skipped(key) + Len(extra)
        BY <1>1, <1>2
      <3>3. QED
        BY <2>1, <3>1, <3>2
    <2>2. CASE extra = <<>> /\ Skipped(key) >= Len(list)
      <3>1. Len(extra) = 0
        BY <2>2
      <3>2. CASE k = 0
        <4>1. Len(s.records) = 0 /\ s.records \in Seq(Listable)
          BY <1>6, <3>1, <3>2
        <4>2. s.records = <<>>
          BY <4>1
        <4>3. QED
          BY <1>1, <2>2, <3>2, <4>2
      <3>3. CASE k # 0
        BY <1>1, <1>3, <1>4, <1>6, <2>2, <3>1, <3>3
      <3>4. QED
        BY <3>2, <3>3
    <2>3. QED
      BY <1>2, <1>10, <2>1, <2>2
  <1>11. QED
    <2>1. Portion(list, s, Len(s.records))
      BY <1>6, <1>9
    <2>2. key * PageSize < Len(list) => Portion(list, s, (key + 1 - from) * PageSize)
      BY <1>1, <1>2, <1>9
    <2>3. QED
      BY <1>10, <2>1, <2>2

\* Two lists that name nothing in common make one that names nothing twice.
LEMMA JoinInjective ==
    ASSUME NEW S, NEW s \in Seq(S), NEW t \in Seq(S), Github!IsInjective(s), Github!IsInjective(t),
           Github!Range(t) \cap Github!Range(s) = {}
    PROVE  Github!IsInjective(s \o t)
  <1> DEFINE m == Len(s)
             u == s \o t
  <1>1. /\ m \in Nat /\ Len(t) \in Nat /\ u \in Seq(S) /\ DOMAIN u = 1..(m + Len(t))
        /\ DOMAIN s = 1..m /\ DOMAIN t = 1..Len(t)
    OBVIOUS
  <1>2. \A j \in 1..m : u[j] = s[j]
    OBVIOUS
  <1>3. \A j \in 1..Len(t) : u[m + j] = t[j]
    OBVIOUS
  <1> HIDE DEF u, m
  <1>4. \A j \in 1..(m + Len(t)) : j \in 1..m \/ \E i \in 1..Len(t) : j = m + i
    <2>1. ASSUME NEW j \in 1..(m + Len(t)), j \notin 1..m
          PROVE  \E i \in 1..Len(t) : j = m + i
      <3>1. j - m \in 1..Len(t) /\ j = m + (j - m)
        BY <1>1, <2>1
      <3>2. QED
        BY <3>1
    <2>2. QED
      BY <2>1
  <1>5. \A i \in 1..m, j \in 1..Len(t) : s[i] # t[j]
    BY <1>1 DEF Github!Range
  <1>6. \A i, j \in 1..m : s[i] = s[j] => i = j
    BY <1>1 DEF Github!IsInjective
  <1>7. \A i, j \in 1..Len(t) : t[i] = t[j] => i = j
    BY <1>1 DEF Github!IsInjective
  <1>8. \A a, b \in 1..(m + Len(t)) : u[a] = u[b] => a = b
    BY <1>2, <1>3, <1>4, <1>5, <1>6, <1>7
  <1>9. QED
    BY <1>1, <1>8 DEF Github!IsInjective, u

\* A page of such a list is one.
LEMMA PageInjective ==
    ASSUME NEW S, NEW list \in Seq(S), Github!IsInjective(list), NEW pg \in Github!Pages
    PROVE  Github!IsInjective(OnPage(list, pg))
  <1> DEFINE part == OnPage(list, pg)
  <1>1. /\ part \in Seq(S) /\ Len(part) \in Nat
        /\ \A j \in 1..Len(part) : Skipped(pg) + j \in 1..Len(list) /\ part[j] = list[Skipped(pg) + j]
    BY PageOfList
  <1>2. Skipped(pg) \in Nat
    BY ListingAssumption DEF Skipped, Github!Pages
  <1> HIDE DEF part
  <1>3. DOMAIN part = 1..Len(part) /\ DOMAIN list = 1..Len(list)
    BY <1>1
  <1>4. ASSUME NEW a \in 1..Len(part), NEW b \in 1..Len(part), part[a] = part[b]
        PROVE  a = b
    <2>1. list[Skipped(pg) + a] = list[Skipped(pg) + b]
      BY <1>1, <1>4
    <2>2. Skipped(pg) + a = Skipped(pg) + b
      BY <1>1, <1>3, <2>1 DEF Github!IsInjective
    <2>3. QED
      BY <1>1, <1>2, <2>2
  <1>5. QED
    BY <1>3, <1>4 DEF Github!IsInjective, part

\* A listing that has used one version at most, and adds a page of it.
LEMMA PortionBefore ==
    ASSUME NEW vs, NEW n, NEW r, r.kind \in Github!Paged, r.key \in Github!Pages, r.from \in Github!Pages,
           Listing(vs, n, r), Undeceived(n, r), NEW v, r.read \subseteq {v}
    PROVE  Portion(vs[v], r, (r.key - r.from) * PageSize)
  <1>1. CASE r.read = {v}
    BY <1>1 DEF Listing
  <1>2. CASE r.read = {}
    <2>1. r.records = <<>> /\ r.key = r.from /\ r.from \in Nat /\ PageSize \in Nat
      BY <1>2, ListingAssumption DEF Listing, Github!Pages
    <2>2. (r.key - r.from) * PageSize = 0
      BY <2>1
    <2>3. QED
      BY <2>1, <2>2 DEF Portion
  <1>3. QED
    BY <1>1, <1>2

\* One more element at the end of a sequence.
LEMMA OneMore ==
    ASSUME NEW S, NEW s \in Seq(S), NEW e \in S
    PROVE  /\ Append(s, e) \in Seq(S) /\ Len(s) \in Nat /\ Len(Append(s, e)) = Len(s) + 1
           /\ \A i \in 1..Len(s) : Append(s, e)[i] = s[i] /\ s[i] \in S
           /\ Append(s, e)[Len(s) + 1] = e
  OBVIOUS

\* What a facts read has once a page is added.
PageHad(vs, r, body, e) ==
    /\ e.records \in Seq(Listable) /\ Github!IsInjective(e.records)
    /\ e.read \subseteq 1..Len(vs) /\ e.read # {}
    /\ Len(e.pages) = r.key + 1 - r.from
    /\ PagesListed(e, Len(e.pages) - 1)
    /\ body.next # 0 => PagesListed(e, Len(e.pages)) /\ e.records # <<>>
    /\ \A v \in e.read : e.read = {v} =>
          /\ Portion(vs[v], e, Len(e.records))
          /\ body.next # 0 => Portion(vs[v], e, (r.key + 1 - r.from) * PageSize)
          /\ body.next = 0 =>
                \/ Skipped(e.from) + Len(e.records) = Len(vs[v])
                \/ e.records = <<>> /\ Skipped(e.from) >= Len(vs[v])

\* A page may be added when it repeats nothing.
LEMMA PageAdded ==
    ASSUME NEW vs, NEW n, ListsSound(vs), NEW r, r.kind = "facts",
           r.key \in Github!Pages, r.from \in Github!Pages,
           r.records \in Seq(Listable), r.read \subseteq 1..Len(vs), Listing(vs, n, r),
           NEW body, Given(vs, n, body, r.key),
           Github!Range(body.records) \cap Github!Range(r.records) = {},
           NEW e, Joined(e, r, body)
    PROVE  PageHad(vs, r, body, e)
  <1> DEFINE list == vs[body.at]
             a == Len(r.records)
             b == Len(body.records)
             c == Len(e.records)
             upto == a + b
             last == [key |-> r.key, upto |-> upto]
             Page == [key : Nat, upto : Nat]
  <1>1. /\ body.at \in 1..Len(vs) /\ list \in Seq(Listable) /\ Github!IsInjective(list)
        /\ body.records = OnPage(list, r.key)
        /\ body.next = 0 => ~(r.key * PageSize < Len(list))
        /\ body.next # 0 => r.key * PageSize < Len(list)
    BY PageGiven
  <1>2. /\ body.records \in Seq(Listable) /\ Len(body.records) \in Nat
        /\ Github!IsInjective(body.records)
        /\ body.next # 0 => Len(body.records) = PageSize
    BY <1>1, PageOfList, PageInjective
  <1>3. /\ r.key >= r.from /\ Github!IsInjective(r.records) /\ Len(r.pages) = r.key - r.from
        /\ PagesListed(r, Len(r.pages))
    BY DEF Listing
  <1>4. /\ r.from \in Nat /\ r.key \in Nat /\ PageSize \in Nat /\ PageSize >= 1
        /\ (r.key + 1 - r.from) * PageSize = (r.key - r.from) * PageSize + PageSize
    BY <1>3, PagesInOrder
  <1>5. e.records \in Seq(Listable) /\ c = a + b /\ a \in Nat /\ b \in Nat
    BY <1>2 DEF Joined
  <1>6. Github!IsInjective(e.records)
    BY <1>2, <1>3, JoinInjective DEF Joined
  <1>. e.from = r.from /\ e.read = r.read \cup {body.at}
    BY DEF Joined
  <1>0. body.next # 0 => b = PageSize
    BY <1>2
  <1> HIDE DEF a, b, c
  <1>7. e.read \subseteq 1..Len(vs) /\ e.read # {}
    BY <1>1
  <1>8. ASSUME NEW v \in e.read, e.read = {v}
        PROVE  v = body.at /\ Portion(list, r, (r.key - r.from) * PageSize)
    <2>1. v = body.at /\ r.read \subseteq {body.at}
      BY <1>8
    <2>2. r.kind \in Github!Paged /\ Undeceived(n, r)
      BY DEF Github!Paged, Undeceived
    <2>3. QED
      BY <2>1, <2>2, PortionBefore
  <1>9. ASSUME NEW v \in e.read, e.read = {v}
        PROVE  /\ Portion(vs[v], e, Len(e.records))
               /\ body.next # 0 => Portion(vs[v], e, (r.key + 1 - r.from) * PageSize)
               /\ body.next = 0 =>
                     \/ Skipped(e.from) + Len(e.records) = Len(vs[v])
                     \/ e.records = <<>> /\ Skipped(e.from) >= Len(vs[v])
    <2>1. v = body.at /\ Portion(list, r, (r.key - r.from) * PageSize)
      BY <1>8, <1>9
    <2> HIDE DEF list
    <2>2. /\ Portion(list, e, Len(e.records))
          /\ r.key * PageSize < Len(list) => Portion(list, e, (r.key + 1 - r.from) * PageSize)
          /\ ~(r.key * PageSize < Len(list)) =>
                \/ Skipped(r.from) + Len(e.records) = Len(list)
                \/ e.records = <<>> /\ Skipped(r.from) >= Len(list)
      <3>1. r.key >= r.from /\ e.from = r.from
        BY <1>3
      <3>2. list \in Seq(Listable) /\ body.records = OnPage(list, r.key)
        BY <1>1 DEF list
      <3>3. QED
        BY <2>1, <3>1, <3>2, PageAppended
    <2>3. QED
      BY <1>1, <2>1, <2>2 DEF list
  <1>10. r.pages \in Seq(Page)
    BY <1>3 DEF PagesListed
  <1>11. last \in Page /\ last.key = r.key /\ last.upto = c
    <2>1. upto \in Nat /\ upto = c
      BY <1>5
    <2> HIDE DEF upto
    <2>2. QED
      BY <1>4, <2>1
  <1>12. /\ e.pages \in Seq(Page) /\ Len(r.pages) \in Nat
         /\ Len(e.pages) = Len(r.pages) + 1
         /\ \A i \in 1..Len(r.pages) : e.pages[i] = r.pages[i] /\ r.pages[i] \in Page
         /\ e.pages[Len(r.pages) + 1] = last
    <2>1. e.pages = Append(r.pages, last)
      BY DEF a, b, Joined, last
    <2> HIDE DEF Page, last
    <2>2. /\ Append(r.pages, last) \in Seq(Page) /\ Len(r.pages) \in Nat
          /\ Len(Append(r.pages, last)) = Len(r.pages) + 1
          /\ \A i \in 1..Len(r.pages) : Append(r.pages, last)[i] = r.pages[i] /\ r.pages[i] \in Page
          /\ Append(r.pages, last)[Len(r.pages) + 1] = last
      BY <1>10, <1>11, OneMore
    <2>3. QED
      BY <2>1, <2>2, Zenon
  <1>17. Len(e.pages) = r.key + 1 - r.from
    <2>1. r.key \in Nat /\ r.from \in Nat
      BY <1>4
    <2>2. Len(e.pages) = (r.key - r.from) + 1
      BY <1>3, <1>12
    <2>3. QED
      BY <2>1, <2>2
  <1>13. \A i \in 1..Len(e.pages) :
            e.pages[i].key = e.from + i - 1 /\ e.pages[i].upto <= c
    <2>1. ASSUME NEW i \in 1..Len(r.pages)
          PROVE  e.pages[i].key = e.from + i - 1 /\ e.pages[i].upto <= c
      <3>1. r.pages[i].key = r.from + i - 1 /\ r.pages[i].upto <= a
        BY <1>3 DEF PagesListed, a
      <3>2. r.pages[i].upto \in Nat /\ e.pages[i] = r.pages[i]
        BY <1>12
      <3>3. a <= c /\ a \in Nat /\ c \in Nat
        BY <1>5
      <3>4. QED
        BY <3>1, <3>2, <3>3
    <2>2. /\ e.pages[Len(e.pages)].key = e.from + Len(e.pages) - 1
          /\ e.pages[Len(e.pages)].upto <= c
      <3>1. e.pages[Len(e.pages)].key = r.key /\ e.pages[Len(e.pages)].upto = c
        BY <1>11, <1>12
      <3>2. c \in Nat /\ Len(e.pages) = r.key - r.from + 1
        BY <1>3, <1>5, <1>12
      <3> HIDE DEF last
      <3>3. QED
        BY <1>4, <3>1, <3>2
    <2>3. \A i \in 1..Len(e.pages) : i \in 1..Len(r.pages) \/ i = Len(e.pages)
      BY <1>12
    <2>4. QED
      BY <2>1, <2>2, <2>3
  <1>14. ASSUME NEW v \in e.read, e.read = {v}
         PROVE  /\ \A i \in 1..Len(r.pages) : e.pages[i].upto = i * PageSize
                /\ body.next # 0 => e.pages[Len(e.pages)].upto = Len(e.pages) * PageSize
    <2>1. ASSUME NEW i \in 1..Len(r.pages)
          PROVE  e.pages[i].upto = i * PageSize
      <3>1. r.read = {v}
        <4>1. r.read = {} => Len(r.pages) = 0
          BY <1>3, <1>4 DEF Listing
        <4>2. r.read # {}
          BY <2>1, <4>1
        <4>3. QED
          BY <1>14, <4>2
      <3>2. QED
        BY <1>3, <1>12, <3>1 DEF PagesListed
    <2>2. ASSUME body.next # 0
          PROVE  e.pages[Len(e.pages)].upto = Len(e.pages) * PageSize
      <3>1. Portion(list, r, (r.key - r.from) * PageSize)
        BY <1>8, <1>14
      <3>2. c = (r.key - r.from) * PageSize + PageSize
        BY <1>0, <1>5, <2>2, <3>1 DEF Portion, a
      <3>3. Len(e.pages) = r.key + 1 - r.from
        BY <1>17
      <3>4. QED
        BY <1>4, <1>11, <1>12, <3>2, <3>3
    <2>3. QED
      BY <2>1, <2>2
  <1>15. PagesListed(e, Len(e.pages) - 1)
    <2>1. Len(e.pages) - 1 = Len(r.pages)
      BY <1>12
    <2>2. QED
      BY <1>12, <1>13, <1>14, <2>1 DEF PagesListed, c
  <1>16. ASSUME body.next # 0
         PROVE  PagesListed(e, Len(e.pages)) /\ e.records # <<>>
    <2>1. \A i \in 1..Len(e.pages) : i \in 1..Len(r.pages) \/ i = Len(e.pages)
      BY <1>12
    <2>2. \A v \in e.read : e.read = {v} => \A i \in 1..Len(e.pages) : e.pages[i].upto = i * PageSize
      BY <1>14, <1>16, <2>1
    <2>3. c # 0
      BY <1>0, <1>4, <1>5, <1>16
    <2>4. e.records # <<>>
      BY <2>3 DEF c
    <2>5. QED
      BY <1>12, <1>13, <2>2, <2>4 DEF PagesListed, c
  <1>18. QED
    BY <1>5, <1>6, <1>7, <1>9, <1>15, <1>16, <1>17 DEF PageHad, c

\* What is known of a facts read whose page has arrived.
LEMMA PageAwaited ==
    ASSUME NEW vs, NEW n, NEW r, Honest(vs, n, r), r.pc = "settle", r.kind \in Github!Paged, r.key # 0
    PROVE  /\ r.key \in Github!Pages /\ r.from \in Github!Pages
           /\ r.records \in Seq(Listable) /\ r.read \subseteq 1..Len(vs) /\ Listing(vs, n, r)
           /\ r.stop \in {Github!Running, Github!Complete}
  BY DEF Honest, Kinded, Underway, InFlight

\* The collection ends with the page.
LEMMA PageEnds ==
    ASSUME NEW vs, NEW n, ListsSound(vs), NEW r, Honest(vs, n, r), r.pc = "settle",
           r.kind = "facts", r.key # 0, NEW body, Given(vs, n, body, r.key),
           Github!Range(body.records) \cap Github!Range(r.records) = {},
           NEW e, Joined(e, r, body), e.kind = "facts", e.key = r.key, e.limits = r.limits,
           e.resumed = r.resumed, e.pc = "finish", e.stop.state # "error", e.stop.resume = 0,
           e.stop.state = "complete" => body.next = 0
    PROVE  Covered(vs, n, e)
  <1>1. r.kind \in Github!Paged /\ e.kind \in Github!Paged
    BY DEF Github!Paged
  <1>2. /\ r.key \in Github!Pages /\ r.from \in Github!Pages
        /\ r.records \in Seq(Listable) /\ r.read \subseteq 1..Len(vs) /\ Listing(vs, n, r)
    BY <1>1, PageAwaited
  <1>3. /\ e.records \in Seq(Listable) /\ Github!IsInjective(e.records)
        /\ e.read \subseteq 1..Len(vs)
        /\ PagesListed(e, Len(e.pages) - 1)
        /\ \A v \in e.read : e.read = {v} =>
              /\ Portion(vs[v], e, Len(e.records))
              /\ body.next = 0 =>
                    \/ Skipped(e.from) + Len(e.records) = Len(vs[v])
                    \/ e.records = <<>> /\ Skipped(e.from) >= Len(vs[v])
    <2>1. PageHad(vs, r, body, e)
      BY <1>2, PageAdded
    <2>2. QED
      BY <2>1 DEF PageHad
  <1>4. Kinded(e)
    BY <1>1, <1>2 DEF Honest, Kinded, Joined
  <1>5. InHand(vs, n, e) /\ Underway(vs, n, e) /\ Counted(e) /\ RowOpened(vs, e)
    BY DEF InHand, Underway, Counted, RowOpened, InFlight
  <1>6. Ended(vs, n, e)
    BY <1>3 DEF Ended, StopHonest
  <1>7. e.stop # Github!Failed("bytes") /\ e.from = r.from
    BY DEF Github!Failed, Github!Stop, Joined
  <1>8. Budgeted(vs, e)
    BY <1>7 DEF Honest, Budgeted
  <1>9. QED
    BY <1>4, <1>5, <1>6, <1>8 DEF Covered, Honest

\* The collection goes on behind the page.
LEMMA PageGoesOn ==
    ASSUME NEW vs, NEW n, ListsSound(vs), NEW r, Honest(vs, n, r), r.pc = "settle",
           r.kind = "facts", r.key # 0, r.parentBytes = 1, NEW body, Given(vs, n, body, r.key),
           Github!Range(body.records) \cap Github!Range(r.records) = {},
           body.next \notin r.seen, body.next # 0,
           NEW e, Joined(e, r, body), e.kind = "facts", e.key = body.next, e.limits = r.limits,
           e.resumed = r.resumed, e.pc = "guard", e.stop = r.stop, e.parentBytes = 1,
           e.seen = r.seen \cup {body.next}
    PROVE  Covered(vs, n, e)
  <1>1. r.kind \in Github!Paged /\ e.kind \in Github!Paged
    BY DEF Github!Paged
  <1>2. /\ r.key \in Github!Pages /\ r.from \in Github!Pages
        /\ r.records \in Seq(Listable) /\ r.read \subseteq 1..Len(vs) /\ Listing(vs, n, r)
        /\ r.stop \in {Github!Running, Github!Complete}
    BY <1>1, PageAwaited
  <1>3. /\ e.records \in Seq(Listable) /\ Github!IsInjective(e.records)
        /\ e.read \subseteq 1..Len(vs) /\ e.read # {}
        /\ Len(e.pages) = r.key + 1 - r.from
        /\ PagesListed(e, Len(e.pages)) /\ e.records # <<>>
        /\ \A v \in e.read : e.read = {v} => Portion(vs[v], e, (r.key + 1 - r.from) * PageSize)
    <2>1. PageHad(vs, r, body, e)
      BY <1>2, PageAdded
    <2>2. QED
      BY <2>1 DEF PageHad
  <1>4. body.next \in Github!Pages /\ body.next = r.key + 1
    <2>1. body.next \in Github!Pages /\ (body.next = r.key + 1 \/ body.next = r.key)
      BY <1>2, PageGiven
    <2>2. r.key \in r.seen
      BY <1>2 DEF Listing
    <2>3. QED
      BY <2>1, <2>2
  <1>5. e.from = r.from /\ r.from \in Nat /\ r.key \in Nat /\ r.key >= r.from
    BY <1>2 DEF Joined, Listing, Github!Pages
  <1>6. e.key > e.from /\ e.key # 0
    BY <1>4, <1>5
  <1>7. Listing(vs, n, e)
    <2>1. \A v \in e.read : e.read = {v} => Portion(vs[v], e, (e.key - e.from) * PageSize)
      BY <1>3, <1>4, <1>5
    <2>2. Len(e.pages) = e.key - e.from
      BY <1>3, <1>4, <1>5
    <2>3. e.key \in e.seen
      OBVIOUS
    <2>4. e.key # e.from /\ e.key >= e.from
      BY <1>5, <1>6, <1>4
    <2>5. QED
      BY <1>3, <2>1, <2>2, <2>3, <2>4 DEF Listing
  <1>8. Kinded(e)
    BY <1>1, <1>2, <1>4, <1>5 DEF Honest, Kinded
  <1>9. InHand(vs, n, e) /\ RowOpened(vs, e) /\ Ended(vs, n, e)
    BY DEF InHand, Ended, RowOpened, InFlight
  <1>10. Underway(vs, n, e)
    BY <1>2, <1>3, <1>6, <1>7 DEF Underway
  <1>11. Counted(e)
    BY <1>5, <1>6 DEF Counted
  <1>12. Budgeted(vs, e)
    <2>1. e.stop.reason = "none" /\ e.stop # Github!Failed("bytes")
      BY <1>2 DEF Github!Running, Github!Complete, Github!Stop, Github!Failed
    <2>2. QED
      BY <1>5, <2>1 DEF Honest, Budgeted
  <1>13. QED
    BY <1>8, <1>9, <1>10, <1>11, <1>12 DEF Covered, Honest

\* What becomes of a facts read when it uses a page.
LEMMA PageUsed ==
    ASSUME NEW vs, NEW n, ListsSound(vs), NEW r, DOMAIN r = GithubFields, Honest(vs, n, r),
           r.pc = "settle", r.kind = "facts", r.key # 0, r.parentBytes = 1,
           NEW body, Given(vs, n, body, r.key)
    PROVE  Covered(vs, n, Github!WithPage(r, body))
  <1> DEFINE on == [r EXCEPT !.records = @ \o body.records,
                             !.pages = Append(@, [key |-> r.key, upto |-> Len(r.records) + Len(body.records)]),
                             !.read = @ \cup {body.at}]
             apart == Github!Range(body.records) \cap Github!Range(r.records) = {}
  <1>1. r.pc \in InFlight /\ r.pc # "idle"
    BY DEF InFlight
  <1>2. \A reason \in {"generation_changed", "mismatch"} :
            Covered(vs, n, [r EXCEPT !.pc = "answered", !.stop = Github!Failed(reason)])
    BY <1>1, FailsHonest
  <1>3. /\ Covered(vs, n, Github!StopOr(r, "malformed", Github!Incomplete("malformed", 0)))
        /\ Covered(vs, n, Github!StopOr(r, "malformed", Github!Unknown("duplicate_record_id")))
        /\ Covered(vs, n, Github!StopOr(r, "records",
                              Github!Incomplete("records", Github!Continuation(r.key))))
        /\ Covered(vs, n, Github!StopOr(r, "length",
                              Github!Incomplete("length", Github!Continuation(r.key))))
    <2>1. ASSUME NEW reason \in {"malformed", "records", "length"}, NEW stop,
                 stop.state \notin {"error", "complete"}, stop.resume \in {0, r.key},
                 stop.reason # "bytes"
          PROVE  Covered(vs, n, Github!StopOr(r, reason, stop))
      BY <1>1, <2>1, StopsOrFails
    <2>2. ASSUME NEW reason \in {"malformed", "records", "length"}, NEW resume \in {0, r.key}
          PROVE  LET stop == Github!Incomplete(reason, resume)
                 IN  /\ stop.state \notin {"error", "complete"} /\ stop.resume \in {0, r.key}
                     /\ stop.reason # "bytes"
      BY DEF Github!Incomplete, Github!Stop
    <2>3. LET stop == Github!Unknown("duplicate_record_id")
          IN  /\ stop.state \notin {"error", "complete"} /\ stop.resume \in {0, r.key}
              /\ stop.reason # "bytes"
      BY DEF Github!Unknown, Github!Stop
    <2>4. Github!Continuation(r.key) \in {0, r.key}
      BY DEF Github!Continuation
    <2>5. QED
      BY <2>1, <2>2, <2>3, <2>4
  <1>4. /\ DOMAIN on = GithubFields /\ Joined(on, r, body) /\ on.kind = "facts"
        /\ on.key = r.key /\ on.limits = r.limits /\ on.resumed = r.resumed /\ on.stop = r.stop
        /\ on.parentBytes = 1 /\ on.seen = r.seen
    BY DEF GithubFields, Joined
  <1> HIDE DEF on
  <1>5. ASSUME NEW stop, stop.state # "error", stop.resume = 0,
               stop.state = "complete" => body.next = 0, apart
        PROVE  Covered(vs, n, [on EXCEPT !.pc = "finish", !.stop = stop])
    <2> DEFINE e == [on EXCEPT !.pc = "finish", !.stop = stop]
    <2>1. /\ e.kind = "facts" /\ e.key = r.key /\ e.limits = r.limits /\ e.resumed = r.resumed
          /\ e.pc = "finish" /\ e.stop = stop /\ Joined(e, r, body)
      BY <1>4 DEF GithubFields, Joined
    <2> HIDE DEF e
    <2>2. Covered(vs, n, e)
      BY <1>5, <2>1, PageEnds
    <2>3. QED
      BY <2>2 DEF e
  <1>6. ASSUME apart, body.next = 0
        PROVE  Covered(vs, n, [on EXCEPT !.pc = "finish", !.stop = Github!Complete])
    <2>1. Github!Complete.state = "complete" /\ Github!Complete.resume = 0
      BY DEF Github!Complete, Github!Stop
    <2>2. QED
      BY <1>5, <1>6, <2>1
  <1>7. ASSUME apart, body.next # 0
        PROVE  Covered(vs, n, Github!StopOr(on, "malformed", Github!Unknown("repeated_pagination")))
    <2>1. on.records # <<>>
      <3>1. /\ r.key \in Github!Pages /\ r.from \in Github!Pages
            /\ r.records \in Seq(Listable) /\ r.read \subseteq 1..Len(vs) /\ Listing(vs, n, r)
        BY PageAwaited DEF Github!Paged
      <3>2. PageHad(vs, r, body, on)
        BY <1>4, <1>7, <3>1, PageAdded
      <3>3. QED
        BY <1>7, <3>2 DEF PageHad
    <2>2. /\ Github!Unknown("repeated_pagination").state = "unknown"
          /\ Github!Unknown("repeated_pagination").resume = 0
      BY DEF Github!Unknown, Github!Stop
    <2>3. Covered(vs, n, [on EXCEPT !.pc = "finish", !.stop = Github!Unknown("repeated_pagination")])
      BY <1>5, <1>7, <2>2
    <2>4. QED
      BY <2>1, <2>3 DEF Github!StopOr
  <1>8. ASSUME apart, body.next # 0, body.next \notin r.seen
        PROVE  Covered(vs, n, [on EXCEPT !.pc = "guard", !.key = body.next, !.seen = @ \cup {body.next}])
    <2> DEFINE e == [on EXCEPT !.pc = "guard", !.key = body.next, !.seen = @ \cup {body.next}]
    <2>1. /\ e.kind = "facts" /\ e.key = body.next /\ e.limits = r.limits /\ e.resumed = r.resumed
          /\ e.pc = "guard" /\ e.stop = r.stop /\ e.parentBytes = 1
          /\ e.seen = r.seen \cup {body.next} /\ Joined(e, r, body)
      BY <1>4 DEF GithubFields, Joined
    <2> HIDE DEF e
    <2>2. Covered(vs, n, e)
      BY <1>8, <2>1, PageGoesOn
    <2>3. QED
      BY <2>2 DEF e
  <1>9. \/ \E reason \in {"generation_changed", "mismatch"} :
              Github!WithPage(r, body)
                = [r EXCEPT !.pc = "answered", !.stop = Github!Failed(reason)]
        \/ Github!WithPage(r, body)
             \in {Github!StopOr(r, "malformed", Github!Incomplete("malformed", 0)),
                  Github!StopOr(r, "malformed", Github!Unknown("duplicate_record_id")),
                  Github!StopOr(r, "records",
                      Github!Incomplete("records", Github!Continuation(r.key))),
                  Github!StopOr(r, "length",
                      Github!Incomplete("length", Github!Continuation(r.key)))}
        \/ /\ apart
           /\ \/ /\ body.next = 0
                 /\ Github!WithPage(r, body) = [on EXCEPT !.pc = "finish", !.stop = Github!Complete]
              \/ /\ body.next # 0
                 /\ Github!WithPage(r, body)
                      = Github!StopOr(on, "malformed", Github!Unknown("repeated_pagination"))
              \/ /\ body.next # 0 /\ body.next \notin r.seen
                 /\ Github!WithPage(r, body)
                      = [on EXCEPT !.pc = "guard", !.key = body.next, !.seen = @ \cup {body.next}]
    BY Zenon DEF Github!WithPage, on
  <1>10. QED
    BY <1>2, <1>3, <1>6, <1>7, <1>8, <1>9

-----------------------------------------------------------------------------
(* GitHub: what a read makes of other bodies *)

\* What a plain listing has once a page is added.
RowsHad(vs, n, r, body, e) ==
    /\ e.records \in Seq(Listable) /\ e.read \subseteq 1..Len(vs) /\ e.read # {}
    /\ body.next # 0 => e.records # <<>>
    /\ Undeceived(n, r) => \A v \in e.read : e.read = {v} =>
          /\ Portion(vs[v], e, Len(e.records))
          /\ body.next # 0 => Portion(vs[v], e, (r.key + 1 - r.from) * PageSize)
          /\ body.next = 0 =>
                \/ Skipped(e.from) + Len(e.records) = Len(vs[v])
                \/ e.records = <<>> /\ Skipped(e.from) >= Len(vs[v])

\* A page may always be added to it.
LEMMA RowsAdded ==
    ASSUME NEW vs, NEW n, ListsSound(vs), NEW r, r.kind \in Github!Paged,
           r.key \in Github!Pages, r.from \in Github!Pages,
           r.records \in Seq(Listable), r.read \subseteq 1..Len(vs), Listing(vs, n, r),
           NEW body, Given(vs, n, body, r.key), NEW e, Joined(e, r, body)
    PROVE  RowsHad(vs, n, r, body, e)
  <1> DEFINE list == vs[body.at]
  <1>1. /\ body.at \in 1..Len(vs) /\ list \in Seq(Listable)
        /\ body.records = OnPage(list, r.key)
        /\ body.next = 0 => ~(r.key * PageSize < Len(list))
        /\ body.next # 0 => r.key * PageSize < Len(list)
    BY PageGiven
  <1>2. /\ body.records \in Seq(Listable) /\ Len(body.records) \in Nat
        /\ body.next # 0 => Len(body.records) = PageSize
    <2>1. /\ OnPage(list, r.key) \in Seq(Listable) /\ Len(OnPage(list, r.key)) \in Nat
          /\ r.key * PageSize < Len(list) => Len(OnPage(list, r.key)) = PageSize
      BY <1>1, PageOfList
    <2> HIDE DEF list
    <2>2. QED
      BY <1>1, <2>1, Zenon
  <1>3. r.key >= r.from /\ PageSize \in Nat /\ PageSize >= 1
    BY ListingAssumption DEF Listing
  <1>4. e.from = r.from /\ e.read = r.read \cup {body.at}
    BY DEF Joined
  <1>5. e.records \in Seq(Listable) /\ Len(e.records) = Len(r.records) + Len(body.records)
    BY <1>2 DEF Joined
  <1>6. body.next # 0 => e.records # <<>>
    <2>1. ASSUME body.next # 0
          PROVE  Len(e.records) # 0
      <3> DEFINE a == Len(r.records)
                 b == Len(body.records)
      <3>1. a \in Nat /\ b \in Nat /\ b >= 1 /\ Len(e.records) = a + b
        BY <1>2, <1>3, <1>5, <2>1
      <3> HIDE DEF a, b
      <3>2. QED
        BY <3>1
    <2>2. Len(<<>>) = 0
      OBVIOUS
    <2>3. QED
      BY <2>1, <2>2
  <1>7. ASSUME Undeceived(n, r), NEW v \in e.read, e.read = {v}
        PROVE  /\ Portion(vs[v], e, Len(e.records))
               /\ body.next # 0 => Portion(vs[v], e, (r.key + 1 - r.from) * PageSize)
               /\ body.next = 0 =>
                     \/ Skipped(e.from) + Len(e.records) = Len(vs[v])
                     \/ e.records = <<>> /\ Skipped(e.from) >= Len(vs[v])
    <2>1. v = body.at /\ r.read \subseteq {body.at}
      BY <1>4, <1>7
    <2>2. Portion(list, r, (r.key - r.from) * PageSize)
      BY <1>7, <2>1, PortionBefore
    <2> HIDE DEF list
    <2>3. /\ Portion(list, e, Len(e.records))
          /\ r.key * PageSize < Len(list) => Portion(list, e, (r.key + 1 - r.from) * PageSize)
          /\ ~(r.key * PageSize < Len(list)) =>
                \/ Skipped(r.from) + Len(e.records) = Len(list)
                \/ e.records = <<>> /\ Skipped(r.from) >= Len(list)
      <3>1. list \in Seq(Listable) /\ body.records = OnPage(list, r.key)
        BY <1>1 DEF list
      <3>2. QED
        BY <1>3, <2>2, <3>1, PageAppended
    <2>4. QED
      BY <1>1, <1>4, <2>1, <2>3 DEF list
  <1>8. e.read \subseteq 1..Len(vs) /\ e.read # {}
    BY <1>1, <1>4
  <1>9. QED
    BY <1>5, <1>6, <1>7, <1>8 DEF RowsHad

\* The listing ends with the page.
LEMMA RowsEnd ==
    ASSUME NEW vs, NEW n, ListsSound(vs), NEW r, Honest(vs, n, r), r.pc = "settle",
           r.kind \in {"comments", "diff"}, r.key # 0, NEW body, Given(vs, n, body, r.key),
           NEW e, Joined(e, r, body), e.kind = r.kind, e.key = r.key, e.limits = r.limits,
           e.resumed = r.resumed, e.pc = "answered", e.stop.reason # "bytes",
           e.stop.state # "error" =>
               /\ e.kind = "comments" => Github!IsInjective(e.records)
               /\ e.stop.state = "complete" => body.next = 0
               /\ e.stop.resume \in {0, body.next}
    PROVE  Covered(vs, n, e)
  <1>1. r.kind \in Github!Paged /\ r.kind \notin {"facts", "row", "item", "source"}
    BY DEF Github!Paged
  <1>2. /\ r.key \in Github!Pages /\ r.from \in Github!Pages
        /\ r.records \in Seq(Listable) /\ r.read \subseteq 1..Len(vs) /\ Listing(vs, n, r)
    BY <1>1, PageAwaited
  <1>3. RowsHad(vs, n, r, body, e)
    BY <1>1, <1>2, RowsAdded
  <1>4. e.from = r.from
    BY DEF Joined
  <1>5. Kinded(e)
    BY <1>1, <1>2, <1>4 DEF Honest, Kinded
  <1>6. InHand(vs, n, e) /\ Underway(vs, n, e) /\ Counted(e) /\ RowOpened(vs, e)
    BY <1>1 DEF InHand, Underway, Counted, RowOpened, InFlight
  <1>7. ASSUME e.stop.state # "error", Undeceived(n, e), NEW v \in e.read, e.read = {v}
        PROVE  StopHonest(vs[v], e)
    <2>1. n = 0 /\ Undeceived(n, r)
      BY <1>1, <1>7 DEF Undeceived
    <2>2. /\ Portion(vs[v], e, Len(e.records))
          /\ body.next # 0 => Portion(vs[v], e, (r.key + 1 - r.from) * PageSize)
          /\ body.next = 0 =>
                \/ Skipped(e.from) + Len(e.records) = Len(vs[v])
                \/ e.records = <<>> /\ Skipped(e.from) >= Len(vs[v])
      BY <1>3, <1>7, <2>1 DEF RowsHad
    <2>3. ASSUME e.stop.resume # 0
          PROVE  /\ e.stop.resume \in Nat /\ e.stop.resume >= e.from
                 /\ Len(e.records) = (e.stop.resume - e.from) * PageSize
      <3>1. e.stop.resume = body.next /\ body.next # 0
        BY <1>7, <2>3
      <3>2. body.next = r.key + 1
        BY <1>2, <2>1, <3>1, PageGiven
      <3>3. r.key \in Nat /\ r.from \in Nat /\ r.key >= r.from
        BY <1>2 DEF Listing, Github!Pages
      <3>4. Len(e.records) = (r.key + 1 - r.from) * PageSize
        BY <2>2, <3>1 DEF Portion
      <3>5. QED
        BY <1>4, <3>1, <3>2, <3>3, <3>4
    <2>4. QED
      BY <1>7, <2>2, <2>3 DEF StopHonest
  <1>8. Ended(vs, n, e)
    BY <1>1, <1>3, <1>7 DEF Ended, RowsHad
  <1>9. e.stop # Github!Failed("bytes")
    BY DEF Github!Failed, Github!Stop
  <1>10. Budgeted(vs, e)
    BY <1>1, <1>9 DEF Budgeted
  <1>11. QED
    BY <1>5, <1>6, <1>8, <1>10 DEF Covered, Honest

\* The listing goes on behind the page.
LEMMA RowsGoOn ==
    ASSUME NEW vs, NEW n, ListsSound(vs), NEW r, Honest(vs, n, r), r.pc = "settle",
           r.kind \in {"comments", "diff"}, r.key # 0, NEW body, Given(vs, n, body, r.key),
           body.next # 0,
           NEW e, Joined(e, r, body), e.kind = r.kind, e.key = body.next, e.limits = r.limits,
           e.resumed = r.resumed, e.pc = "capture", e.stop = r.stop
    PROVE  Covered(vs, n, e)
  <1>1. r.kind \in Github!Paged /\ r.kind \notin {"facts", "row", "item", "source"}
    BY DEF Github!Paged
  <1>2. /\ r.key \in Github!Pages /\ r.from \in Github!Pages
        /\ r.records \in Seq(Listable) /\ r.read \subseteq 1..Len(vs) /\ Listing(vs, n, r)
        /\ r.stop \in {Github!Running, Github!Complete}
    BY <1>1, PageAwaited
  <1>3. RowsHad(vs, n, r, body, e)
    BY <1>1, <1>2, RowsAdded
  <1>4. e.from = r.from /\ r.from \in Nat /\ r.key \in Nat /\ r.key >= r.from /\ r.from >= 1
    BY <1>2 DEF Joined, Listing, Github!Pages
  <1>5. body.next \in Github!Pages /\ (body.next = r.key + 1 \/ (n # 0 /\ body.next = r.key))
    BY <1>2, PageGiven
  <1>6. e.key >= e.from /\ e.key # 0
    BY <1>4, <1>5
  <1>7. Listing(vs, n, e)
    <2>1. e.read # {} /\ e.records # <<>>
      BY <1>3 DEF RowsHad
    <2>2. ASSUME Undeceived(n, e)
          PROVE  /\ e.key # e.from
                 /\ \A v \in e.read : e.read = {v} =>
                       Portion(vs[v], e, (e.key - e.from) * PageSize)
      <3>1. n = 0 /\ Undeceived(n, r)
        BY <1>1, <2>2 DEF Undeceived
      <3>2. e.key = r.key + 1
        BY <1>5, <3>1
      <3>3. QED
        BY <1>3, <1>4, <3>1, <3>2 DEF RowsHad
    <2>3. QED
      BY <1>1, <1>6, <2>1, <2>2 DEF Listing
  <1>8. Kinded(e)
    BY <1>1, <1>2, <1>4, <1>5 DEF Honest, Kinded
  <1>9. /\ InHand(vs, n, e) /\ RowOpened(vs, e) /\ Ended(vs, n, e) /\ Counted(e)
    BY <1>1 DEF InHand, Ended, RowOpened, Counted, InFlight
  <1>10. Underway(vs, n, e)
    BY <1>2, <1>3, <1>6, <1>7 DEF Underway, RowsHad
  <1>11. Budgeted(vs, e)
    <2>1. e.stop.reason = "none" /\ e.stop # Github!Failed("bytes")
      BY <1>2 DEF Github!Running, Github!Complete, Github!Stop, Github!Failed
    <2>2. QED
      BY <1>1, <2>1 DEF Budgeted
  <1>12. QED
    BY <1>8, <1>9, <1>10, <1>11 DEF Covered, Honest

\* What becomes of a plain listing when it uses a page.
LEMMA RowsUsed ==
    ASSUME NEW vs, NEW n, ListsSound(vs), NEW r, DOMAIN r = GithubFields, Honest(vs, n, r),
           r.pc = "settle", r.kind \in {"comments", "diff"}, r.key # 0,
           NEW body, Given(vs, n, body, r.key)
    PROVE  Covered(vs, n, Github!WithPlainPage(r, body))
  <1> DEFINE on == [r EXCEPT !.records = @ \o body.records,
                             !.pages = Append(@, [key |-> r.key, upto |-> Len(r.records) + Len(body.records)]),
                             !.broken = @ \/ r.response.kind = "mismatch",
                             !.read = @ \cup {body.at}]
             next == [on EXCEPT !.pc = "capture", !.key = body.next]
  <1>1. Covered(vs, n, [r EXCEPT !.pc = "answered", !.stop = Github!Failed("malformed")])
    BY FailsHonest
  <1>2. /\ DOMAIN on = GithubFields /\ Joined(on, r, body) /\ on.kind = r.kind
        /\ on.key = r.key /\ on.limits = r.limits /\ on.resumed = r.resumed /\ on.stop = r.stop
    BY DEF GithubFields, Joined
  <1> HIDE DEF on
  <1>3. ASSUME body.next # 0
        PROVE  Covered(vs, n, next)
    <2>1. /\ next.kind = r.kind /\ next.key = body.next /\ next.limits = r.limits
          /\ next.resumed = r.resumed /\ next.pc = "capture" /\ next.stop = r.stop
          /\ Joined(next, r, body)
      BY <1>2 DEF GithubFields, Joined
    <2> HIDE DEF next
    <2>2. QED
      BY <1>3, <2>1, RowsGoOn
  <1>4. ASSUME NEW stop, stop.state = "complete" => body.next = 0, stop.resume \in {0, body.next},
               stop.reason # "bytes"
        PROVE  Covered(vs, n, Github!Listed(on, stop))
    <2> DEFINE e == Github!Listed(on, stop)
    <2>1. /\ e.kind = r.kind /\ e.key = r.key /\ e.limits = r.limits /\ e.resumed = r.resumed
          /\ e.pc = "answered" /\ Joined(e, r, body) /\ e.records = on.records
          /\ e.stop = IF on.broken \/ (on.kind = "comments" /\ ~Github!IsInjective(on.records))
                      THEN Github!Failed("malformed") ELSE stop
      BY <1>2 DEF GithubFields, Joined, Github!Listed
    <2> HIDE DEF e
    <2>2. Github!Failed("malformed").state = "error" /\ Github!Failed("malformed").reason = "malformed"
      BY DEF Github!Failed, Github!Stop
    <2>3. e.stop = Github!Failed("malformed") \/ (e.stop = stop /\ ~(e.kind = "comments" /\ ~Github!IsInjective(e.records)))
      BY <1>2, <2>1
    <2>4. Covered(vs, n, e)
      BY <1>4, <2>1, <2>2, <2>3, RowsEnd
    <2>5. QED
      BY <2>4 DEF e
  <1>5. body.next = 0 => Covered(vs, n, Github!Listed(on, Github!Complete))
    <2>1. Github!Complete.resume = 0 /\ Github!Complete.reason = "none"
      BY DEF Github!Complete, Github!Stop
    <2>2. QED
      BY <1>4, <2>1
  <1>6. Covered(vs, n, Github!Listed(on, Github!Stop("incomplete", "none", body.next)))
    <2> DEFINE stop == Github!Stop("incomplete", "none", body.next)
    <2>1. stop.state = "incomplete" /\ stop.resume = body.next /\ stop.reason = "none"
      BY DEF Github!Stop
    <2> HIDE DEF stop
    <2>2. Covered(vs, n, Github!Listed(on, stop))
      BY <1>4, <2>1
    <2>3. QED
      BY <2>2 DEF stop
  <1>7. \/ Github!WithPlainPage(r, body)
             = [r EXCEPT !.pc = "answered", !.stop = Github!Failed("malformed")]
        \/ body.next = 0 /\ Github!WithPlainPage(r, body) = Github!Listed(on, Github!Complete)
        \/ Github!WithPlainPage(r, body) = Github!Listed(on, Github!Stop("incomplete", "none", body.next))
        \/ body.next # 0 /\ Github!WithPlainPage(r, body) = next
    BY Zenon DEF Github!WithPlainPage, on
  <1>8. QED
    BY <1>1, <1>3, <1>5, <1>6, <1>7

\* The parent opens the listing, or names the object.
LEMMA ParentUsed ==
    ASSUME NEW vs, NEW n, NEW r, DOMAIN r = GithubFields, Honest(vs, n, r), r.pc = "settle",
           r.key = 0, r.kind # "row", r.kind = "facts" => r.bytes = 1,
           NEW body, body.at \in 1..Len(vs)
    PROVE  Covered(vs, n, Github!WithParent(r, body))
  <1>1. ASSUME r.response.kind \in {"malformed", "mismatch"}
        PROVE  Covered(vs, n, Github!WithParent(r, body))
    <2>1. Covered(vs, n, [r EXCEPT !.pc = "answered", !.stop = Github!Failed(r.response.kind)])
      BY <1>1, FailsHonest
    <2>2. QED
      BY <1>1, <2>1 DEF Github!WithParent
  <1>2. ASSUME r.response.kind \notin {"malformed", "mismatch"}
        PROVE  Covered(vs, n, Github!WithParent(r, body))
    <2> DEFINE e == Github!WithParent(r, body)
    <2>1. /\ e.pc \in {"guard", "capture"} /\ e.kind = r.kind /\ e.from = r.from
          /\ e.limits = r.limits /\ e.stop = r.stop /\ e.records = r.records
          /\ e.pages = r.pages /\ e.resumed = r.resumed /\ e.bytes = r.bytes
          /\ e.parentBytes = r.bytes /\ e.read = {body.at} /\ e.seen = {r.from}
          /\ e.key = IF r.kind \in Github!Paged THEN r.from ELSE Github!Object
      BY <1>2, Zenon DEF Github!WithParent, GithubFields
    <2> HIDE DEF e
    <2>2. /\ r.stop \in {Github!Running, Github!Complete}
          /\ r.records = <<>> /\ r.pages = <<>>
      BY DEF Honest, Underway, InFlight
    <2>3. Kinded(e)
      BY <2>1 DEF Honest, Kinded, Github!Paged
    <2>4. /\ e.kind \in Github!Paged => e.key \in Github!Pages /\ e.from = e.key
          /\ "facts" \in Github!Paged
      BY <2>1 DEF Honest, Kinded, Github!Paged
    <2>5. InHand(vs, n, e) /\ Ended(vs, n, e) /\ RowOpened(vs, e)
      BY <2>1 DEF InHand, Ended, RowOpened, InFlight
    <2>6. Len(e.records) = 0 /\ e.records = <<>> /\ e.pages = <<>> /\ Len(e.pages) = 0
          /\ Github!IsInjective(e.records)
      BY <2>1, <2>2 DEF Github!IsInjective
    <2>7. ASSUME e.kind \in Github!Paged
          PROVE  Listing(vs, n, e)
      <3>1. e.key \in Nat /\ (e.key - e.from) * PageSize = 0 /\ e.key - e.from = 0 /\ e.key >= e.from
        BY <2>4, <2>7, ListingAssumption DEF Github!Pages
      <3>2. \A list : Portion(list, e, 0)
        BY <2>6 DEF Portion
      <3>3. PagesListed(e, Len(e.pages))
        BY <2>6 DEF PagesListed
      <3>4. e.key \in e.seen /\ e.read # {}
        BY <2>1, <2>4, <2>7
      <3>5. QED
        BY <2>4, <2>6, <2>7, <3>1, <3>2, <3>3, <3>4 DEF Listing
    <2>8. e.key # 0
      <3>1. Github!Object \in Nat /\ Github!Object # 0
        BY ListingAssumption, LastKeyNumber DEF Github!Object
      <3>2. QED
        BY <2>1, <2>4, <3>1 DEF Github!Pages
    <2>9. Underway(vs, n, e)
      BY <2>1, <2>2, <2>6, <2>7, <2>8 DEF Underway
    <2>10. Counted(e)
      BY <2>1, <2>8 DEF Counted
    <2>11. Budgeted(vs, e)
      <3>1. e.stop.reason = "none" /\ e.stop # Github!Failed("bytes")
        BY <2>1, <2>2 DEF Github!Running, Github!Complete, Github!Stop, Github!Failed
      <3>2. QED
        BY <2>1, <3>1 DEF Honest, Budgeted
    <2>12. QED
      BY <2>3, <2>5, <2>9, <2>10, <2>11 DEF Covered, Honest, e
  <1>3. QED
    BY <1>1, <1>2

\* The number of a file is that of a page and a place on it.
LEMMA RowPlace ==
    ASSUME NEW number \in Numbers
    PROVE  LET pg == Github!PageOf(number)
               place == ((number - 1) % PageSize) + 1
           IN  /\ number \in Nat /\ pg \in Github!Pages /\ place \in 1..PageSize
               /\ Skipped(pg) \in Nat /\ Skipped(pg) + place = number
  <1> DEFINE pg == Github!PageOf(number)
             q == (number - 1) \div PageSize
             m == (number - 1) % PageSize
             L == Github!LastKey
  <1>1. /\ PageSize \in Nat /\ PageSize >= 1 /\ L \in Nat
        /\ number \in 1..(L * PageSize)
    BY ListingAssumption, LastKeyNumber
  <1>2. number - 1 \in Nat /\ number \in Nat
    <2> HIDE DEF L
    <2>1. QED
      BY <1>1
  <1>3. q \in Nat /\ m \in 0..(PageSize - 1) /\ number - 1 = PageSize * q + m
    BY <1>1, <1>2, Division
  <1>4. pg = q + 1
    BY DEF Github!PageOf
  <1>5. Github!Pages = 1..L
    BY DEF Github!Pages
  <1> HIDE DEF q, m, L, pg
  <1>6. q + 1 <= L
    <2>1. ASSUME q >= L
          PROVE  FALSE
      <3>1. q * PageSize >= L * PageSize /\ q * PageSize = PageSize * q /\ L * PageSize \in Nat
        BY <1>1, <1>3, <2>1
      <3>2. QED
        BY <1>1, <1>2, <1>3, <3>1
    <2>2. QED
      BY <1>1, <1>3, <2>1
  <1>7. Skipped(pg) = q * PageSize
    BY <1>1, <1>3, <1>4 DEF Skipped
  <1>8. q * PageSize = PageSize * q /\ q * PageSize \in Nat
    BY <1>1, <1>3
  <1>9. pg \in Github!Pages
    BY <1>1, <1>3, <1>4, <1>5, <1>6
  <1>10. m + 1 \in 1..PageSize /\ Skipped(pg) + (m + 1) = number
    BY <1>1, <1>2, <1>3, <1>7, <1>8
  <1>11. QED
    BY <1>2, <1>7, <1>8, <1>9, <1>10 DEF m, pg

\* A row is the one of its number, or the list has no such number.
LEMMA RowUsed ==
    ASSUME NEW vs, NEW n, ListsSound(vs), NEW r, DOMAIN r = GithubFields, Honest(vs, n, r),
           r.pc = "settle", r.kind = "row", NEW body, Given(vs, n, body, r.key)
    PROVE  Covered(vs, n, Github!WithRow(r, body))
  <1> DEFINE place == ((r.from - 1) % PageSize) + 1
             list == vs[body.at]
             e == Github!WithRow(r, body)
             on == [r EXCEPT !.pc = "answered", !.read = {body.at}]
  <1>1. r.from \in Numbers /\ r.key = Github!PageOf(r.from)
    BY DEF Honest, Kinded
  <1>2. /\ r.from \in Nat /\ r.key \in Github!Pages /\ place \in 1..PageSize
        /\ Skipped(r.key) \in Nat /\ Skipped(r.key) + place = r.from
    BY <1>1, RowPlace
  <1>3. PageSize \in Nat
    BY ListingAssumption
  <1>4. body.at \in 1..Len(vs) /\ list \in Seq(Listable) /\ body.records = OnPage(list, r.key)
    BY <1>2, PageGiven
  <1>5. /\ Len(body.records) \in Nat
        /\ \A j \in 1..Len(body.records) : body.records[j] = list[Skipped(r.key) + j]
        /\ r.key * PageSize < Len(list) => Len(body.records) = PageSize
        /\ ~(r.key * PageSize < Len(list)) =>
              \/ Skipped(r.key) + Len(body.records) = Len(list)
              \/ body.records = <<>> /\ Skipped(r.key) >= Len(list)
    <2> DEFINE extra == OnPage(list, r.key)
    <2>1. /\ Len(extra) \in Nat
          /\ \A j \in 1..Len(extra) : extra[j] = list[Skipped(r.key) + j]
          /\ r.key * PageSize < Len(list) => Len(extra) = PageSize
          /\ ~(r.key * PageSize < Len(list)) =>
                \/ Skipped(r.key) + Len(extra) = Len(list)
                \/ extra = <<>> /\ Skipped(r.key) >= Len(list)
      BY <1>2, <1>4, PageOfList
    <2> HIDE DEF list, extra
    <2>2. body.records = extra
      BY <1>4 DEF extra
    <2>3. QED
      BY <2>1, <2>2, Zenon
  <1>6. Len(list) \in Nat
    BY <1>4
  <1> HIDE DEF place, list
  <1>7. place <= Len(body.records) => body.records[place] = list[r.from]
    BY <1>2, <1>3, <1>5
  <1>8. place > Len(body.records) => r.from > Len(list)
    BY <1>2, <1>3, <1>5, <1>6
  <1>9. /\ DOMAIN on = GithubFields /\ on.pc = "answered" /\ on.read = {body.at}
        /\ on.kind = r.kind /\ on.from = r.from /\ on.key = r.key /\ on.limits = r.limits
        /\ on.resumed = r.resumed
    BY DEF GithubFields
  <1> HIDE DEF on
  <1>10. \/ e = [on EXCEPT !.stop = Github!Failed("malformed")]
         \/ place > Len(body.records) /\ e = [on EXCEPT !.stop = Github!Failed("absent")]
         \/ /\ ~(place > Len(body.records))
            /\ e = [on EXCEPT !.stop = Github!Complete, !.records = <<body.records[place]>>]
    BY Zenon DEF Github!WithRow, place, on
  <1> HIDE DEF e
  <1>11. /\ e.pc = "answered" /\ e.read = {body.at} /\ e.kind = r.kind /\ e.from = r.from
         /\ e.key = r.key /\ e.limits = r.limits /\ e.resumed = r.resumed
         /\ e.stop \in {Github!Failed("malformed"), Github!Failed("absent"), Github!Complete}
    BY ZenonT(30), <1>9, <1>10 DEF GithubFields
  <1>12. /\ e.stop = Github!Failed("absent") => place > Len(body.records)
         /\ e.stop = Github!Complete =>
               ~(place > Len(body.records)) /\ e.records = <<body.records[place]>>
    <2>1. /\ Github!Failed("malformed") # Github!Failed("absent")
          /\ Github!Failed("malformed") # Github!Complete
          /\ Github!Failed("absent") # Github!Complete
      BY DEF Github!Failed, Github!Complete, Github!Stop
    <2>2. QED
      BY <1>9, <1>10, <2>1 DEF GithubFields
  <1>13. /\ e.stop.state # "error" => e.stop = Github!Complete
         /\ e.stop.reason # "bytes" /\ e.stop # Github!Failed("bytes")
    BY <1>11 DEF Github!Failed, Github!Complete, Github!Stop
  <1>14. place <= Len(body.records) \/ place > Len(body.records)
    BY <1>2, <1>3, <1>5
  <1>15. RowOpened(vs, e)
    BY <1>4, <1>7, <1>8, <1>11, <1>12, <1>13, <1>14 DEF RowOpened, list
  <1>16. Kinded(e)
    BY <1>11 DEF Honest, Kinded
  <1>17. InHand(vs, n, e) /\ Underway(vs, n, e) /\ Ended(vs, n, e) /\ Counted(e)
    BY <1>11 DEF InHand, Underway, Ended, Counted, InFlight, Github!Paged
  <1>18. Budgeted(vs, e)
    BY <1>11, <1>13 DEF Budgeted
  <1>19. QED
    BY <1>15, <1>16, <1>17, <1>18 DEF Covered, Honest, e

\* A read of one object says nothing of what it covers.
LEMMA ObjectUsed ==
    ASSUME NEW vs, NEW n, NEW r, DOMAIN r = GithubFields, Honest(vs, n, r),
           r.pc = "settle", r.kind \in {"item", "source"}, r.key # 0,
           NEW body, body.at \in 1..Len(vs), NEW after \in Github!WithObject(r, body)
    PROVE  Covered(vs, n, after)
  <1> DEFINE on == [r EXCEPT !.pc = "finish", !.stop = Github!Complete, !.read = @ \cup {body.at}]
  <1>1. /\ r.stop \in {Github!Running, Github!Complete} /\ r.records \in Seq(Listable)
        /\ r.read \subseteq 1..Len(vs) /\ r.resumed = 0
    BY DEF Honest, Underway, Budgeted, InFlight
  <1>2. /\ DOMAIN on = GithubFields /\ on.pc = "finish" /\ on.stop = Github!Complete
        /\ on.read = r.read \cup {body.at} /\ on.kind = r.kind /\ on.from = r.from
        /\ on.key = r.key /\ on.limits = r.limits /\ on.resumed = r.resumed
        /\ on.records = r.records
    BY DEF GithubFields
  <1> HIDE DEF on
  <1>3. \/ \E reason \in {"generation_changed", "malformed", "mismatch"} :
              after = [r EXCEPT !.pc = "answered", !.stop = Github!Failed(reason)]
        \/ after = on
        \/ after = [on EXCEPT !.stop = Github!Incomplete("decoded", 0)]
        \/ after = [on EXCEPT !.pc = "answered", !.stop = Github!Failed("absent")]
        \/ after = [on EXCEPT !.pc = "capture", !.key = Github!Blob]
    <2>1. CASE ~Github!SameGeneration(r)
      <3>1. after = [r EXCEPT !.pc = "answered", !.stop = Github!Failed("generation_changed")]
        BY <2>1, Zenon DEF Github!WithObject
      <3>2. QED
        BY <3>1
    <2>2. CASE Github!SameGeneration(r) /\ r.response.kind \in {"malformed", "mismatch"}
      <3>1. after = [r EXCEPT !.pc = "answered", !.stop = Github!Failed(r.response.kind)]
        BY <2>2, Zenon DEF Github!WithObject
      <3>2. QED
        BY <2>2, <3>1
    <2>3. CASE Github!SameGeneration(r) /\ r.response.kind \notin {"malformed", "mismatch"}
      BY <2>3, Zenon DEF Github!WithObject, on
    <2>4. QED
      BY <2>1, <2>2, <2>3
  <1>4. \A reason \in {"generation_changed", "malformed", "mismatch"} :
            Covered(vs, n, [r EXCEPT !.pc = "answered", !.stop = Github!Failed(reason)])
    BY FailsHonest
  <1>5. ASSUME NEW e, e.kind = r.kind, e.from = r.from, e.limits = r.limits,
               e.resumed = r.resumed, e.records = r.records, e.read = r.read \cup {body.at},
               e.key \in {r.key, Github!Blob}, e.pc \in {"finish", "answered", "capture"},
               e.pc = "capture" => e.stop = Github!Complete,
               e.stop.reason # "bytes"
        PROVE  Covered(vs, n, e)
    <2>1. e.kind \notin Github!Paged /\ e.kind \notin {"row", "facts"}
      BY <1>5 DEF Github!Paged
    <2>2. Kinded(e)
      BY <1>5, <2>1 DEF Honest, Kinded
    <2>3. InHand(vs, n, e) /\ Ended(vs, n, e) /\ RowOpened(vs, e) /\ Counted(e)
      BY <1>5, <2>1 DEF InHand, Ended, RowOpened, Counted, InFlight
    <2>4. Github!Blob # 0
      BY LastKeyNumber DEF Github!Blob
    <2>5. Underway(vs, n, e)
      BY <1>1, <1>5, <2>1, <2>4 DEF Underway, InFlight
    <2>6. e.stop # Github!Failed("bytes")
      BY <1>5 DEF Github!Failed, Github!Stop
    <2>7. Budgeted(vs, e)
      BY <1>1, <1>5, <2>1, <2>6 DEF Budgeted
    <2>8. QED
      BY <2>2, <2>3, <2>5, <2>7 DEF Covered, Honest
  <1>6. /\ Github!Complete.reason = "none" /\ Github!Incomplete("decoded", 0).reason = "decoded"
        /\ Github!Failed("absent").reason = "absent"
    BY DEF Github!Complete, Github!Incomplete, Github!Failed, Github!Stop
  <1>7. ASSUME \/ after = on
               \/ after = [on EXCEPT !.stop = Github!Incomplete("decoded", 0)]
               \/ after = [on EXCEPT !.pc = "answered", !.stop = Github!Failed("absent")]
               \/ after = [on EXCEPT !.pc = "capture", !.key = Github!Blob]
        PROVE  Covered(vs, n, after)
    <2>1. /\ after.kind = r.kind /\ after.from = r.from /\ after.limits = r.limits
          /\ after.resumed = r.resumed /\ after.records = r.records
          /\ after.read = r.read \cup {body.at}
          /\ after.key \in {r.key, Github!Blob} /\ after.pc \in {"finish", "answered", "capture"}
          /\ after.pc = "capture" => after.stop = Github!Complete
          /\ after.stop \in {Github!Complete, Github!Incomplete("decoded", 0), Github!Failed("absent")}
      <3>1. CASE after = on
        BY <1>2, <3>1
      <3>2. CASE after = [on EXCEPT !.stop = Github!Incomplete("decoded", 0)]
        BY <1>2, <3>2 DEF GithubFields
      <3>3. CASE after = [on EXCEPT !.pc = "answered", !.stop = Github!Failed("absent")]
        BY <1>2, <3>3 DEF GithubFields
      <3>4. CASE after = [on EXCEPT !.pc = "capture", !.key = Github!Blob]
        BY <1>2, <3>4 DEF GithubFields
      <3>5. QED
        BY <1>7, <3>1, <3>2, <3>3, <3>4
    <2>2. QED
      BY <1>5, <1>6, <2>1
  <1>8. QED
    BY <1>3, <1>4, <1>7

\* What a fetch comes to: an answer to use, a spent budget, or an error.
LEMMA Verdicts ==
    ASSUME NEW r, r.response.kind \in BodyKinds \cup ErrorKinds \cup {"unchanged"}
    PROVE  LET verdict == Github!Verdict(r)
               body == IF r.response.kind = "unchanged" THEN r.cached ELSE r.response.body
           IN  /\ verdict # "absent"
               /\ verdict \in {"ok", "bytes"} => r.response.kind \in BodyKinds \cup {"unchanged"}
               /\ verdict = "bytes" =>
                     /\ r.kind \in Github!Controlled
                     /\ ~(Github!Weight(body) <= r.limits.bytes - r.bytes)
  <1> DEFINE verdict == Github!Verdict(r)
             body == IF r.response.kind = "unchanged" THEN r.cached ELSE r.response.body
             fits == Github!Fits(r, Github!Weight(body))
  <1>1. CASE r.response.kind = "unchanged"
    <2>1. /\ verdict \in {"generation_changed", "bytes", "ok"}
          /\ verdict = "bytes" => ~fits
      BY <1>1, Zenon DEF Github!Verdict
    <2>2. QED
      BY <1>1, <2>1 DEF Github!Fits
  <1>2. CASE r.response.kind \in BodyKinds
    <2>1. /\ verdict \in {"denied", "bytes", "ok"}
          /\ verdict = "bytes" => ~fits
      <3>1. r.response.kind # "unchanged" /\ body = r.response.body
        BY <1>2 DEF BodyKinds
      <3>2. verdict = IF ~Github!Fits(r, Github!Weight(r.response.body)) THEN "bytes"
                      ELSE IF r.response.kind = "astray" THEN "denied" ELSE "ok"
        BY <1>2, <3>1 DEF Github!Verdict, BodyKinds
      <3>3. QED
        BY <3>1, <3>2
    <2>2. QED
      BY <1>2, <2>1 DEF Github!Fits
  <1>3. CASE r.response.kind \in ErrorKinds
    <2>1. verdict = r.response.kind
      BY <1>3 DEF Github!Verdict, ErrorKinds
    <2>2. verdict \notin {"absent", "ok", "bytes"}
      BY <1>3, <2>1 DEF ErrorKinds
    <2>3. QED
      BY <2>2
  <1>4. QED
    BY <1>1, <1>2, <1>3

\* A continuation for a spent budget is given only when the page fits a fresh one,
\* and the read that takes it up is not refused the page.
LEMMA BudgetUsed ==
    ASSUME NEW vs, NEW n, ListsSound(vs), NEW r, Covered(vs, n, r), r.pc = "settle",
           r.response.kind \in BodyKinds \cup {"unchanged"},
           NEW body, body = IF r.response.kind = "unchanged" THEN r.cached ELSE r.response.body,
           ~(Github!Weight(body) <= r.limits.bytes - r.bytes)
    PROVE  /\ r.kind = "facts" /\ (r.key = 0 \/ r.records = <<>>) =>
                 r.resumed = 0 \/ r.response.body.at # r.resumed
           /\ r.kind = "facts" /\ r.key # 0 /\ r.parentBytes + Github!Weight(body) <= r.limits.bytes =>
                 PageFits(vs, r.response.body.at, r.key, r.limits)
  <1>1. Given(vs, n, body, r.key) /\ r.response.body.at = body.at /\ body.at \in 1..Len(vs)
    BY DEF Covered, Honest, InHand, Given, BodyKinds
  <1>2. r.kind = "facts" => r.limits.bytes \in Nat
    BY ListingAssumption DEF Covered, Honest, Kinded, Github!Controlled
  <1>3. ASSUME r.kind = "facts", r.key # 0
        PROVE  /\ r.key \in Github!Pages /\ r.from \in Github!Pages /\ r.parentBytes = 1
               /\ r.key = r.from => r.bytes = 1
               /\ r.records = <<>> => r.key = r.from
               /\ Github!Weight(body) = Github!Weight(BodyOf(vs, body.at, r.key))
    <2>1. r.kind \in Github!Paged /\ r.pc \in InFlight
      BY <1>3 DEF Github!Paged, InFlight
    <2>2. r.key \in Github!Pages /\ r.from \in Github!Pages /\ Listing(vs, n, r)
      BY <1>3, <2>1, PageAwaited DEF Covered
    <2>3. r.records = <<>> => r.key = r.from
      BY <1>3, <2>2 DEF Listing, Undeceived
    <2>4. r.parentBytes = 1 /\ (r.key = r.from => r.bytes = 1)
      BY <1>3, <2>1 DEF Covered, Counted
    <2>5. Github!Weight(body) = Github!Weight(BodyOf(vs, body.at, r.key))
      BY <1>1, <2>2, PageGiven
    <2>6. QED
      BY <2>2, <2>3, <2>4, <2>5
  <1>4. ASSUME r.kind = "facts", r.key = 0, r.resumed # 0
        PROVE  FALSE
    <2>1. r.bytes = 0
      BY <1>4 DEF Covered, Counted, InFlight
    <2>2. Github!Weight(body) = 1
      <3>1. 0 \notin Github!Pages
        BY DEF Github!Pages
      <3>2. QED
        BY <1>1, <1>4, <3>1, ObjectGiven
    <2>3. PageFits(vs, r.resumed, r.from, r.limits) /\ r.from \in Github!Pages
      BY <1>4 DEF Covered, Honest, Kinded, Budgeted, Github!Paged
    <2> DEFINE opening == BodyOf(vs, r.resumed, r.from)
    <2>4. opening.records = OnPage(vs[r.resumed], r.from) /\ vs[r.resumed] \in Seq(Listable)
      BY <2>3 DEF BodyOf, PageFits, ListsSound
    <2>5. OnPage(vs[r.resumed], r.from) \in Seq(Listable)
      BY <2>3, <2>4, PageOfList
    <2>6. 1 + Github!Weight(opening) <= r.limits.bytes
      BY <2>3 DEF PageFits
    <2> HIDE DEF opening
    <2>7. Github!Weight(opening) \in Nat /\ Github!Weight(opening) >= 1
      <3>1. opening.records \in Seq(Listable)
        BY <2>4, <2>5
      <3>2. QED
        BY <3>1, WeightPositive
    <2>8. ~(1 <= r.limits.bytes - 0)
      BY <2>1, <2>2
    <2>9. QED
      BY <1>2, <1>4, <2>6, <2>7, <2>8
  <1>5. ASSUME r.kind = "facts", r.key # 0, r.records = <<>>, r.resumed = body.at
        PROVE  r.resumed = 0
    <2>1. r.key = r.from /\ r.bytes = 1
      BY <1>3, <1>5
    <2>2. ASSUME r.resumed # 0
          PROVE  FALSE
      <3>1. PageFits(vs, r.resumed, r.from, r.limits)
        BY <1>5, <2>2 DEF Covered, Honest, Budgeted
      <3>2. 1 + Github!Weight(body) <= r.limits.bytes
        BY <1>3, <1>5, <2>1, <3>1 DEF PageFits
      <3>3. Github!Weight(body) \in Nat
        BY <1>1, <1>3, <1>5, GivenWeighs
      <3> DEFINE w == Github!Weight(body)
      <3>4. ~(w <= r.limits.bytes - 1)
        BY <2>1
      <3> HIDE DEF w
      <3>5. QED
        BY <1>2, <1>5, <3>2, <3>3, <3>4 DEF w
    <2>3. QED
      BY <2>2
  <1>6. ASSUME r.kind = "facts", r.key # 0, r.parentBytes + Github!Weight(body) <= r.limits.bytes
        PROVE  PageFits(vs, r.response.body.at, r.key, r.limits)
    <2>1. r.parentBytes = 1 /\ Github!Weight(body) = Github!Weight(BodyOf(vs, body.at, r.key))
      BY <1>3, <1>6
    <2>2. QED
      BY <1>1, <1>6, <2>1 DEF PageFits
  <1>7. QED
    BY <1>1, <1>4, <1>5, <1>6

\* An error leaves what was read before, and says where to go on.
LEMMA ErrorUsed ==
    ASSUME NEW vs, NEW n, ListsSound(vs), NEW r, DOMAIN r = GithubFields, Covered(vs, n, r),
           r.pc = "settle", r.response.kind \in BodyKinds \cup ErrorKinds \cup {"unchanged"},
           NEW verdict, verdict = Github!Verdict(r), verdict # "ok"
    PROVE  Covered(vs, n, Github!AfterFailure(r, verdict))
  <1> DEFINE body == IF r.response.kind = "unchanged" THEN r.cached ELSE r.response.body
             failed == [r EXCEPT !.pc = "answered", !.stop = Github!Failed(verdict)]
             resume == IF Github!Retryable(r, verdict) THEN Github!Continuation(r.key) ELSE 0
  <1>1. /\ verdict # "absent"
        /\ verdict = "bytes" =>
              /\ r.response.kind \in BodyKinds \cup {"unchanged"}
              /\ r.kind \in Github!Controlled
              /\ ~(Github!Weight(body) <= r.limits.bytes - r.bytes)
    BY Verdicts
  <1>2. Honest(vs, n, r) /\ r.pc # "idle" /\ r.pc \in InFlight
    BY DEF Covered, InFlight
  <1>3. verdict = "bytes" =>
            /\ r.kind = "facts" /\ (r.key = 0 \/ r.records = <<>>) =>
                  r.resumed = 0 \/ r.response.body.at # r.resumed
            /\ r.kind = "facts" /\ r.key # 0
               /\ r.parentBytes + Github!Weight(body) <= r.limits.bytes =>
                  PageFits(vs, r.response.body.at, r.key, r.limits)
    BY <1>1, BudgetUsed
  <1>4. verdict = "bytes" /\ r.kind # "facts" => r.resumed = 0
    BY <1>1, <1>2 DEF Honest, Budgeted, Github!Controlled
  <1> HIDE DEF failed
  <1>5. CASE r.kind = "facts" /\ r.key # 0
    <2>1. CASE r.records = <<>> \/ Github!InvalidatesRetention(verdict)
      <3>1. verdict = "bytes" => r.records = <<>>
        BY <2>1 DEF Github!InvalidatesRetention
      <3>2. Covered(vs, n, failed)
        BY <1>1, <1>2, <1>3, <1>5, <3>1, FailsHonest DEF failed
      <3>3. QED
        BY <1>5, <2>1, <3>2 DEF Github!AfterFailure, Github!AfterError, failed
    <2>2. CASE ~(r.records = <<>> \/ Github!InvalidatesRetention(verdict))
      <3> DEFINE stop == Github!Incomplete(verdict, resume)
      <3>1. stop.state = "incomplete" /\ stop.reason = verdict /\ stop.resume = resume
        BY DEF Github!Incomplete, Github!Stop
      <3>2. resume \in {0, r.key}
        BY DEF Github!Continuation
      <3>3. ASSUME verdict = "bytes", resume # 0
            PROVE  PageFits(vs, r.response.body.at, r.key, r.limits)
        <4>1. Github!Retryable(r, verdict)
          BY <3>3
        <4>2. r.parentBytes + Github!Weight(body) <= r.limits.bytes
          BY <3>3, <4>1 DEF Github!Retryable
        <4>3. QED
          BY <1>3, <1>5, <3>3, <4>2
      <3> HIDE DEF stop
      <3>4. Covered(vs, n, [r EXCEPT !.pc = "finish", !.stop = stop])
        BY <1>2, <1>5, <3>1, <3>2, <3>3, StopsHonest
      <3>5. Github!AfterFailure(r, verdict) = [r EXCEPT !.pc = "finish", !.stop = stop]
        BY <1>5, <2>2, Zenon DEF Github!AfterFailure, Github!AfterError, stop
      <3>6. QED
        BY <3>4, <3>5
    <2>3. QED
      BY <2>1, <2>2
  <1>6. CASE r.kind = "source" /\ r.key = Github!Blob /\ verdict \in {"unavailable", "denied"}
    <2> DEFINE stop == Github!Incomplete(verdict, 0)
               e == [r EXCEPT !.pc = "finish", !.stop = stop]
    <2>1. /\ e.pc = "finish" /\ e.stop = stop /\ e.kind = r.kind /\ e.from = r.from
          /\ e.key = r.key /\ e.limits = r.limits /\ e.resumed = r.resumed
      BY DEF GithubFields
    <2>2. stop.reason = verdict /\ stop.resume = 0 /\ stop.state = "incomplete"
      BY DEF Github!Incomplete, Github!Stop
    <2> HIDE DEF e, stop
    <2>3. e.kind \notin Github!Paged /\ e.kind \notin {"row", "facts"}
      BY <1>6, <2>1 DEF Github!Paged
    <2>4. Kinded(e)
      BY <1>2, <1>6, <2>1, <2>3 DEF Honest, Kinded
    <2>5. InHand(vs, n, e) /\ Underway(vs, n, e) /\ Ended(vs, n, e) /\ RowOpened(vs, e) /\ Counted(e)
      BY <2>1, <2>3 DEF InHand, Underway, Ended, RowOpened, Counted, InFlight
    <2>6. e.stop # Github!Failed("bytes")
      BY <2>1, <2>2 DEF Github!Failed, Github!Stop
    <2>7. Budgeted(vs, e)
      BY <1>2, <1>6, <2>1, <2>2, <2>3, <2>6 DEF Honest, Budgeted
    <2>8. Covered(vs, n, e)
      BY <2>4, <2>5, <2>7 DEF Covered, Honest
    <2>9. Github!AfterFailure(r, verdict) = e
      BY <1>6 DEF Github!AfterFailure, e, stop
    <2>10. QED
      BY <2>8, <2>9
  <1>7. CASE /\ ~(r.kind = "facts" /\ r.key # 0)
             /\ ~(r.kind = "source" /\ r.key = Github!Blob /\ verdict \in {"unavailable", "denied"})
    <2>1. Covered(vs, n, failed)
      <3>1. verdict = "bytes" => r.resumed = 0 \/ r.response.body.at # r.resumed
        BY <1>3, <1>4, <1>7
      <3>2. QED
        BY <1>1, <1>2, <3>1, FailsHonest DEF failed
    <2>2. Github!AfterFailure(r, verdict) = failed
      BY <1>7 DEF Github!AfterFailure, failed
    <2>3. QED
      BY <2>1, <2>2
  <1>8. QED
    BY <1>5, <1>6, <1>7

-----------------------------------------------------------------------------
(* GitHub: every step of a read *)

\* A read has asked for a key of the cache.
LEMMA KeyAsked ==
    ASSUME NEW r, Kinded(r), r.pc # "idle"
    PROVE  r.key \in Github!Keys
  <1>1. Github!LastKey \in Nat /\ Github!LastKey >= 1
    BY LastKeyNumber
  <1>2. Github!Pages \cup {0, Github!Object, Github!Blob} \subseteq Github!Keys
    BY <1>1 DEF Github!Keys, Github!Pages, Github!Object, Github!Blob
  <1>3. CASE r.kind \in Github!Paged
    BY <1>2, <1>3 DEF Kinded
  <1>4. CASE r.kind = "row"
    <2>1. r.from \in Numbers /\ r.key = Github!PageOf(r.from)
      BY <1>4 DEF Kinded
    <2>2. Github!PageOf(r.from) \in Github!Pages
      BY <2>1, RowPlace
    <2>3. QED
      BY <1>2, <2>1, <2>2
  <1>5. CASE r.kind \in {"item", "source"}
    BY <1>2, <1>5 DEF Kinded
  <1>6. r.kind \in Github!Paged \/ r.kind = "row" \/ r.kind \in {"item", "source"}
    BY DEF Kinded, Github!Controlled, Github!Paged, Plain
  <1>7. QED
    BY <1>3, <1>4, <1>5, <1>6

\* What upstream has now.
LEMMA BodyNow ==
    ASSUME NEW v, NEW key
    PROVE  Github!Body(v, key) = BodyOf(versions, v, key)
  BY Zenon DEF Github!Body, BodyOf, OnPage, Skipped

\* What is known of the cache stays so.
LEMMA CacheStays ==
    ASSUME NEW vs, NEW ws, NEW n \in Nat, NEW m \in Nat, m >= n,
           Len(vs) \in Nat, Len(ws) \in Nat, Len(ws) >= Len(vs),
           \A v \in 1..Len(vs) : ws[v] = vs[v],
           NEW entries, CacheGiven(vs, n, entries)
    PROVE  CacheGiven(ws, m, entries)
  BY GivenStays DEF CacheGiven

\* A read that moves on, in a step that at most has upstream at fault, leaves
\* the others as they are.
LEMMA CoverageMoves ==
    ASSUME CoverageInv, ReadersSound, NEW x \in Readers, NEW r, reader' = [reader EXCEPT ![x] = r],
           UNCHANGED versions, faults' \in Nat, faults' >= faults,
           CacheGiven(versions, faults', cache'), Covered(versions, faults', r)
    PROVE  CoverageInv'
  <1>1. ListsSound(versions') /\ CacheGiven(versions', faults', cache')
    BY DEF CoverageInv
  <1>2. ASSUME NEW y \in Readers
        PROVE  Covered(versions', faults', reader'[y])
    <2>1. reader'[y] = IF y = x THEN r ELSE reader[y]
      BY DEF ReadersSound
    <2>2. Covered(versions, faults', reader[y])
      <3>1. Covered(versions, faults, reader[y]) /\ faults \in Nat /\ Len(versions) \in Nat
        BY DEF CoverageInv, ListsSound
      <3>2. /\ faults' \in Nat /\ faults' >= faults /\ Len(versions) >= Len(versions)
            /\ \A v \in 1..Len(versions) : versions[v] = versions[v]
        BY <3>1
      <3>3. \A r2 : Covered(versions, faults, r2) => Covered(versions, faults', r2)
        BY <3>1, <3>2, CoveredStays
      <3>4. QED
        BY <3>1, <3>3
    <2>3. Covered(versions, faults', reader'[y])
      BY <2>1, <2>2
    <2>4. QED
      BY <2>3
  <1>3. QED
    BY <1>1, <1>2 DEF CoverageInv

\* A step of a read that leaves upstream and the cache alone.
LEMMA CoverageTurns ==
    ASSUME CoverageInv, ReadersSound, NEW x \in Readers, NEW r, reader' = [reader EXCEPT ![x] = r],
           UNCHANGED <<versions, faults, cache>>, Covered(versions, faults, r)
    PROVE  CoverageInv'
  BY CoverageMoves DEF CoverageInv

\* A read begins with nothing.
LEMMA CoverageBegins ==
    ASSUME CoverageInv, GithubInv, NEW x \in Readers, NEW kind, NEW from, NEW limits,
           Github!Begin(x, kind, from, limits),
           \/ kind = "facts" /\ from \in Github!Pages /\ limits \in Limits
           \/ kind \in {"comments", "diff"} /\ from \in Github!Pages
           \/ kind = "row" /\ from \in Numbers
           \/ kind \in {"item", "source"} /\ from = 1 /\ limits \in Limits
    PROVE  CoverageInv'
  <1> DEFINE r == reader[x]
             s == [Github!Idle(r.reads + 1) EXCEPT !.pc = "capture", !.kind = kind, !.from = from,
                    !.key = IF kind \in Github!Scoped THEN 0
                            ELSE IF kind = "row" THEN Github!PageOf(from) ELSE from,
                    !.limits = limits, !.attempts = limits.attempts, !.floor = settled,
                    !.resumed = IF from # 1 /\ r.stop.reason = "bytes" /\ limits = r.limits
                                THEN r.response.body.at ELSE 0]
  <1>1. /\ reader' = [reader EXCEPT ![x] = s] /\ UNCHANGED <<versions, faults, cache>>
        /\ from = 1 \/ from = r.stop.resume \/ kind = "row"
    BY DEF Github!Begin, Github!Step
  <1>2. /\ s.pc = "capture" /\ s.kind = kind /\ s.from = from /\ s.limits = limits
        /\ s.stop = Github!Running /\ s.records = <<>> /\ s.pages = <<>> /\ s.read = {}
        /\ s.bytes = 0
        /\ s.key = IF kind \in Github!Scoped THEN 0
                   ELSE IF kind = "row" THEN Github!PageOf(from) ELSE from
        /\ s.resumed = IF from # 1 /\ r.stop.reason = "bytes" /\ limits = r.limits
                       THEN r.response.body.at ELSE 0
    BY DEF Github!Idle
  <1> HIDE DEF s
  <1>3. Covered(versions, faults, r)
    BY DEF CoverageInv
  <1>4. Kinded(s)
    <2>1. CASE kind = "facts"
      BY <1>2, <2>1 DEF Kinded, Github!Paged, Github!Scoped, Github!Controlled
    <2>2. CASE kind \in {"comments", "diff"}
      BY <1>2, <2>2 DEF Kinded, Github!Paged, Github!Scoped, Github!Controlled, Plain
    <2>3. CASE kind = "row"
      BY <1>2, <2>3 DEF Kinded, Github!Paged, Github!Scoped, Github!Controlled, Plain
    <2>4. CASE kind \in {"item", "source"}
      BY <1>2, <2>4 DEF Kinded, Github!Paged, Github!Scoped, Github!Controlled, Plain
    <2>5. QED
      BY <2>1, <2>2, <2>3, <2>4
  <1>5. InHand(versions, faults, s) /\ Ended(versions, faults, s) /\ RowOpened(versions, s)
    BY <1>2 DEF InHand, Ended, RowOpened, InFlight
  <1>6. kind = "facts" => s.key = 0
    BY <1>2 DEF Github!Scoped, Github!Controlled
  <1>7. Counted(s)
    BY <1>2, <1>6 DEF Counted
  <1>8. Underway(versions, faults, s)
    <2>1. ASSUME s.kind \in Github!Paged, s.key # 0
          PROVE  Listing(versions, faults, s)
      <3>1. s.kind # "facts" /\ s.key = from /\ from \in Github!Pages
        BY <1>2, <1>6, <2>1 DEF Github!Paged
      <3>2. from \in Nat
        BY <3>1 DEF Github!Pages
      <3>3. QED
        BY <1>2, <3>1, <3>2 DEF Listing
    <2>2. <<>> \in Seq(Listable)
      OBVIOUS
    <2>3. QED
      BY <1>2, <2>1, <2>2 DEF Underway
  <1>9. Budgeted(versions, s)
    <2>1. s.stop.reason = "none" /\ s.stop # Github!Failed("bytes")
      BY <1>2 DEF Github!Running, Github!Stop, Github!Failed
    <2>2. ASSUME kind = "facts", s.resumed # 0
          PROVE  PageFits(versions, s.resumed, from, limits)
      <3>1. /\ from = r.stop.resume /\ r.stop.reason = "bytes" /\ limits = r.limits
            /\ s.resumed = r.response.body.at
        BY <1>1, <1>2, <2>2
      <3>2. from # 0
        BY <2>2 DEF Github!Pages
      <3>3. QED
        BY <1>3, <3>1, <3>2 DEF Covered, Honest, Budgeted
    <2>3. kind \in {"item", "source"} => s.resumed = 0
      BY <1>2
    <2>4. QED
      BY <1>2, <2>1, <2>2, <2>3 DEF Budgeted
  <1>10. Covered(versions, faults, s)
    BY <1>4, <1>5, <1>7, <1>8, <1>9 DEF Covered, Honest
  <1>11. QED
    BY <1>1, <1>10, CoverageTurns DEF GithubInv, s

\* What is known of a reader.
LEMMA ReadKnown ==
    ASSUME CoverageInv, GithubInv, NEW x \in Readers
    PROVE  /\ Covered(versions, faults, reader[x]) /\ Sound(reader[x])
           /\ DOMAIN reader[x] = GithubFields /\ ReadersSound
           /\ faults \in Nat /\ ListsSound(versions) /\ CacheGiven(versions, faults, cache)
  BY DEF CoverageInv, GithubInv, ReadersSound, Sound, Shaped

\* The check before a page.
LEMMA CoverageGuards ==
    ASSUME CoverageInv, GithubInv, NEW x \in Readers, Github!Guard(x)
    PROVE  CoverageInv'
  <1> DEFINE r == reader[x]
             s == [r EXCEPT !.pc = "capture"]
             f == [r EXCEPT !.pc = "answered", !.stop = Github!Failed("generation_changed")]
  <1>1. /\ r.pc = "guard" /\ reader' = [reader EXCEPT ![x] = IF generation = r.base THEN s ELSE f]
        /\ UNCHANGED <<versions, faults, cache>>
    BY DEF Github!Guard, Github!Step
  <1>2. Covered(versions, faults, r) /\ DOMAIN r = GithubFields /\ ReadersSound
    BY ReadKnown
  <1>3. Covered(versions, faults, f)
    BY <1>1, <1>2, FailsHonest DEF Covered
  <1>4. Covered(versions, faults, s)
    <2>1. /\ s.pc = "capture" /\ s.kind = r.kind /\ s.from = r.from /\ s.key = r.key
          /\ s.limits = r.limits /\ s.stop = r.stop /\ s.records = r.records /\ s.read = r.read
          /\ s.pages = r.pages /\ s.seen = r.seen /\ s.parentBytes = r.parentBytes
          /\ s.bytes = r.bytes /\ s.resumed = r.resumed
      BY <1>2 DEF GithubFields
    <2> HIDE DEF s
    <2>2. InHand(versions, faults, s) /\ r.pc \in InFlight /\ s.pc \in InFlight
      BY <1>1, <2>1 DEF InHand, InFlight
    <2>3. QED
      BY <1>2, <2>1, <2>2, GoesOn
  <1>5. QED
    BY <1>1, <1>2, <1>3, <1>4, CoverageTurns

\* The generation is captured.
LEMMA CoverageCaptures ==
    ASSUME CoverageInv, GithubInv, NEW x \in Readers, Github!Capture(x)
    PROVE  CoverageInv'
  <1> DEFINE r == reader[x]
             s == [r EXCEPT !.pc = "lookup", !.generation = generation]
  <1>1. /\ r.pc = "capture" /\ reader' = [reader EXCEPT ![x] = s]
        /\ UNCHANGED <<versions, faults, cache>>
    BY DEF Github!Capture, Github!Step
  <1>2. Covered(versions, faults, r) /\ DOMAIN r = GithubFields /\ ReadersSound
    BY ReadKnown
  <1>3. Covered(versions, faults, s)
    <2>1. /\ s.pc = "lookup" /\ s.kind = r.kind /\ s.from = r.from /\ s.key = r.key
          /\ s.limits = r.limits /\ s.stop = r.stop /\ s.records = r.records /\ s.read = r.read
          /\ s.pages = r.pages /\ s.seen = r.seen /\ s.parentBytes = r.parentBytes
          /\ s.bytes = r.bytes /\ s.resumed = r.resumed
      BY <1>2 DEF GithubFields
    <2> HIDE DEF s
    <2>2. InHand(versions, faults, s) /\ r.pc \in InFlight /\ s.pc \in InFlight
      BY <1>1, <2>1 DEF InHand, InFlight
    <2>3. QED
      BY <1>2, <2>1, <2>2, GoesOn
  <1>4. QED
    BY <1>1, <1>2, <1>3, CoverageTurns

\* What the cache holds under the key was given for it.
LEMMA CoverageLooksUp ==
    ASSUME CoverageInv, GithubInv, NEW x \in Readers, Github!Lookup(x)
    PROVE  CoverageInv'
  <1> DEFINE r == reader[x]
  <1>1. PICK pc \in {"send", "forget"} :
            reader' = [reader EXCEPT ![x] = [r EXCEPT !.pc = pc, !.cached = cache[r.key]]]
    BY DEF Github!Lookup, Github!Step
  <1>2. r.pc = "lookup" /\ UNCHANGED <<versions, faults, cache>>
    BY DEF Github!Lookup
  <1> DEFINE s == [r EXCEPT !.pc = pc, !.cached = cache[r.key]]
  <1>3. /\ Covered(versions, faults, r) /\ DOMAIN r = GithubFields /\ ReadersSound
        /\ CacheGiven(versions, faults, cache)
    BY ReadKnown
  <1>4. Covered(versions, faults, s)
    <2>1. /\ s.pc = pc /\ s.kind = r.kind /\ s.from = r.from /\ s.key = r.key
          /\ s.limits = r.limits /\ s.stop = r.stop /\ s.records = r.records /\ s.read = r.read
          /\ s.pages = r.pages /\ s.seen = r.seen /\ s.parentBytes = r.parentBytes
          /\ s.bytes = r.bytes /\ s.resumed = r.resumed /\ s.cached = cache[r.key]
      BY <1>3 DEF GithubFields
    <2> HIDE DEF s
    <2>2. r.key \in Github!Keys
      BY <1>2, <1>3, KeyAsked DEF Covered, Honest
    <2>3. cache[r.key] = Github!NoBody \/ Given(versions, faults, cache[r.key], r.key)
      BY <1>3, <2>2 DEF CacheGiven
    <2>4. InHand(versions, faults, s) /\ r.pc \in InFlight /\ s.pc \in InFlight
      BY <1>1, <1>2, <2>1, <2>3 DEF InHand, InFlight
    <2>5. QED
      BY <1>3, <2>1, <2>4, GoesOn
  <1>5. QED
    BY <1>1, <1>2, <1>3, <1>4, CoverageTurns

\* An entry that is stored was given for its key.
LEMMA EntryStored ==
    ASSUME NEW vs, NEW n, CacheGiven(vs, n, cache), DOMAIN cache = Github!Keys,
           NEW key, NEW body, NEW captured, Github!Put(key, body, captured),
           body = Github!NoBody \/ Given(vs, n, body, key)
    PROVE  CacheGiven(vs, n, cache')
  <1>1. ASSUME NEW k \in Github!Keys
        PROVE  cache'[k] = Github!NoBody \/ Given(vs, n, cache'[k], k)
    <2>1. cache'[k] = cache[k] \/ (k = key /\ cache'[k] = body)
      BY DEF Github!Put
    <2>2. QED
      BY <2>1 DEF CacheGiven
  <1>2. QED
    BY <1>1 DEF CacheGiven

\* An entry is dropped.
LEMMA CoverageForgets ==
    ASSUME CoverageInv, GithubInv, NEW x \in Readers, Github!Forget(x)
    PROVE  CoverageInv'
  <1> DEFINE r == reader[x]
             s == [r EXCEPT !.pc = "send", !.cached = Github!NoBody]
  <1>1. /\ r.pc = "forget" /\ reader' = [reader EXCEPT ![x] = s]
        /\ Github!Put(r.key, Github!NoBody, r.generation) /\ UNCHANGED <<versions, faults>>
    BY DEF Github!Forget, Github!Step, Github!Evacuate
  <1>2. /\ Covered(versions, faults, r) /\ DOMAIN r = GithubFields /\ ReadersSound
        /\ CacheGiven(versions, faults, cache) /\ faults \in Nat
    BY ReadKnown
  <1>3. CacheGiven(versions, faults, cache')
    BY <1>1, <1>2, EntryStored DEF GithubInv, CacheSound
  <1>4. Covered(versions, faults, s)
    <2>1. /\ s.pc = "send" /\ s.kind = r.kind /\ s.from = r.from /\ s.key = r.key
          /\ s.limits = r.limits /\ s.stop = r.stop /\ s.records = r.records /\ s.read = r.read
          /\ s.pages = r.pages /\ s.seen = r.seen /\ s.parentBytes = r.parentBytes
          /\ s.bytes = r.bytes /\ s.resumed = r.resumed /\ s.cached = Github!NoBody
      BY <1>2 DEF GithubFields
    <2> HIDE DEF s
    <2>2. InHand(versions, faults, s) /\ r.pc \in InFlight /\ s.pc \in InFlight
      BY <1>1, <2>1 DEF InHand, InFlight
    <2>3. QED
      BY <1>2, <2>1, <2>2, GoesOn
  <1>5. /\ faults' \in Nat /\ faults' >= faults
        /\ CacheGiven(versions, faults', cache') /\ Covered(versions, faults', s)
    BY <1>1, <1>2, <1>3, <1>4
  <1>6. QED
    BY <1>1, <1>2, <1>5, CoverageMoves

\* Upstream answers with what it has, or with a page that comes round again.
LEMMA CoverageExchanges ==
    ASSUME CoverageInv, GithubInv, NEW x \in Readers, Github!Exchange(x)
    PROVE  CoverageInv'
  <1> DEFINE r == reader[x]
             now == Github!Body(Github!Version, r.key)
             Answer(kind) == IF kind = "repeat" THEN [now EXCEPT !.next = r.key] ELSE now
             Answered(kind, etag, spent) ==
               [r EXCEPT !.pc = "settle",
                         !.attempts = @ - spent,
                         !.retry = @ /\ spent < 2,
                         !.response = [kind |-> kind, etag |-> etag, body |-> Answer(kind)]]
  <1>1. PICK spent \in Github!Charges(r),
             kind \in {"body", "unchanged", "unavailable", "denied", "truncated", "malformed",
                       "mismatch", "astray", "repeat"} :
            /\ kind = "unchanged" => r.cached # Github!NoBody /\ r.cached.at = now.at
            /\ kind \in {"astray", "repeat"} => r.kind \in Github!Paged /\ now.next # 0
            /\ kind \notin {"body", "unchanged"} => faults < MaxFaults
            /\ faults' = IF kind \in {"body", "unchanged"} THEN faults ELSE faults + 1
            /\ \E etag \in BOOLEAN : Github!Step(x, Answered(kind, etag, spent))
    BY Zenon DEF Github!Exchange
  <1>2. PICK etag \in BOOLEAN : reader' = [reader EXCEPT ![x] = Answered(kind, etag, spent)]
    BY <1>1 DEF Github!Step
  <1>3. r.pc = "send" /\ UNCHANGED <<versions, cache>>
    BY DEF Github!Exchange
  <1> DEFINE s == Answered(kind, etag, spent)
  <1>4. /\ Covered(versions, faults, r) /\ DOMAIN r = GithubFields /\ ReadersSound
        /\ CacheGiven(versions, faults, cache) /\ faults \in Nat /\ ListsSound(versions)
    BY ReadKnown
  <1>5. /\ s.pc = "settle" /\ s.kind = r.kind /\ s.from = r.from /\ s.key = r.key
        /\ s.limits = r.limits /\ s.stop = r.stop /\ s.records = r.records /\ s.read = r.read
        /\ s.pages = r.pages /\ s.seen = r.seen /\ s.parentBytes = r.parentBytes
        /\ s.bytes = r.bytes /\ s.resumed = r.resumed /\ s.cached = r.cached
        /\ s.response.kind = kind /\ s.response.body = Answer(kind)
    BY <1>4 DEF GithubFields
  <1> HIDE DEF s
  <1>6. /\ faults' \in Nat /\ faults' >= faults
        /\ kind = "repeat" => faults' # 0
    BY <1>1, <1>4
  <1>7. /\ Len(versions) \in Nat /\ Len(versions) >= Len(versions)
        /\ \A v \in 1..Len(versions) : versions[v] = versions[v]
    BY <1>4 DEF ListsSound
  <1>8. Covered(versions, faults', r)
    BY <1>4, <1>6, <1>7, CoveredStays
  <1>9. CacheGiven(versions, faults', cache')
    <2>1. CacheGiven(versions, faults', cache)
      BY <1>4, <1>6, <1>7, CacheStays
    <2>2. QED
      BY <1>3, <2>1
  <1>10. now = BodyOf(versions, Len(versions), r.key) /\ now.at = Len(versions)
    BY BodyNow DEF Github!Version, BodyOf
  <1>11. Given(versions, faults', Answer(kind), r.key) /\ Answer(kind).at = Len(versions)
    <2>1. Len(versions) \in 1..Len(versions)
      BY <1>4 DEF ListsSound
    <2>2. Answer(kind).at = Len(versions)
      <3>1. now = [at |-> now.at, records |-> now.records, next |-> now.next]
        BY <1>10 DEF BodyOf
      <3> HIDE DEF now
      <3>2. [now EXCEPT !.next = r.key].at = now.at
        BY <3>1
      <3>3. QED
        BY <1>10, <3>2
    <2>3. ASSUME kind = "repeat"
          PROVE  r.key \in Github!Pages /\ now.next # 0
      BY <1>1, <1>10, <2>3 DEF BodyOf
    <2> HIDE DEF now
    <2>4. QED
      BY <1>6, <1>10, <2>1, <2>2, <2>3 DEF Given
  <1>12. InHand(versions, faults', s)
    <2> HIDE DEF now, Answer
    <2>1. r.cached = Github!NoBody \/ Given(versions, faults', r.cached, r.key)
      BY <1>3, <1>8 DEF Covered, Honest, InHand
    <2>2. QED
      BY <1>1, <1>5, <1>10, <1>11, <2>1 DEF InHand
  <1>13. Covered(versions, faults', s)
    <2>1. r.pc \in InFlight /\ s.pc \in InFlight
      BY <1>3, <1>5 DEF InFlight
    <2>2. QED
      BY <1>5, <1>8, <1>12, <2>1, GoesOn
  <1>14. QED
    BY <1>2, <1>3, <1>4, <1>6, <1>9, <1>13, CoverageMoves DEF s

\* Nothing has arrived.
LEMMA CoverageWithholds ==
    ASSUME CoverageInv, GithubInv, NEW x \in Readers,
           NEW reason \in {"attempts", "deadline", "cancelled"}, Github!Withheld(x, reason)
    PROVE  CoverageInv'
  <1> DEFINE r == reader[x]
             s == [r EXCEPT !.pc = "settle", !.response = [Github!NoResponse EXCEPT !.kind = reason]]
  <1>1. /\ r.pc = "send" /\ reader' = [reader EXCEPT ![x] = s]
        /\ UNCHANGED <<versions, cache>>
        /\ faults' = IF reason = "attempts" THEN faults ELSE faults + 1
    BY DEF Github!Withheld, Github!Step
  <1>2. /\ Covered(versions, faults, r) /\ DOMAIN r = GithubFields /\ ReadersSound
        /\ CacheGiven(versions, faults, cache) /\ faults \in Nat /\ ListsSound(versions)
    BY ReadKnown
  <1>3. /\ s.pc = "settle" /\ s.kind = r.kind /\ s.from = r.from /\ s.key = r.key
        /\ s.limits = r.limits /\ s.stop = r.stop /\ s.records = r.records /\ s.read = r.read
        /\ s.pages = r.pages /\ s.seen = r.seen /\ s.parentBytes = r.parentBytes
        /\ s.bytes = r.bytes /\ s.resumed = r.resumed /\ s.cached = r.cached
        /\ s.response.kind = reason
    BY <1>2 DEF GithubFields, Github!NoResponse
  <1> HIDE DEF s
  <1>4. faults' \in Nat /\ faults' >= faults
    BY <1>1, <1>2
  <1>5. /\ Len(versions) \in Nat /\ Len(versions) >= Len(versions)
        /\ \A v \in 1..Len(versions) : versions[v] = versions[v]
    BY <1>2 DEF ListsSound
  <1>6. Covered(versions, faults', r)
    BY <1>2, <1>4, <1>5, CoveredStays
  <1>7. CacheGiven(versions, faults', cache')
    <2>1. CacheGiven(versions, faults', cache)
      BY <1>2, <1>4, <1>5, CacheStays
    <2>2. QED
      BY <1>1, <2>1
  <1>8. InHand(versions, faults', s)
    <2>1. r.cached = Github!NoBody \/ Given(versions, faults', r.cached, r.key)
      BY <1>1, <1>6 DEF Covered, Honest, InHand
    <2>2. reason \notin BodyKinds /\ reason # "unchanged"
      BY DEF BodyKinds
    <2>3. QED
      BY <1>3, <2>1, <2>2 DEF InHand
  <1>9. Covered(versions, faults', s)
    <2>1. r.pc \in InFlight /\ s.pc \in InFlight
      BY <1>1, <1>3 DEF InFlight
    <2>2. QED
      BY <1>3, <1>6, <1>8, <2>1, GoesOn
  <1>10. QED
    BY <1>1, <1>2, <1>4, <1>7, <1>9, CoverageMoves

\* A read that is about to use a body has spent its bytes.
Spent(r, body) == [r EXCEPT !.bytes = @ + Github!Weight(body)]

\* It can go on: the parent is the byte it weighs.
Ready(vs, n, r, on) ==
    /\ DOMAIN on = GithubFields /\ Honest(vs, n, on) /\ on.pc = "settle"
    /\ on.kind = r.kind /\ on.key = r.key
    /\ on.kind = "facts" /\ on.key = 0 => on.bytes = 1
    /\ on.kind = "facts" /\ on.key # 0 => on.parentBytes = 1

LEMMA BytesSpent ==
    ASSUME NEW vs, NEW n, ListsSound(vs), NEW r, DOMAIN r = GithubFields, Covered(vs, n, r),
           r.pc = "settle", NEW body, Given(vs, n, body, r.key)
    PROVE  Ready(vs, n, r, Spent(r, body))
  <1> DEFINE on == Spent(r, body)
  <1>1. /\ DOMAIN on = GithubFields /\ on.pc = "settle"
        /\ on.kind = r.kind /\ on.from = r.from /\ on.key = r.key /\ on.limits = r.limits
        /\ on.stop = r.stop /\ on.records = r.records /\ on.read = r.read /\ on.pages = r.pages
        /\ on.seen = r.seen /\ on.parentBytes = r.parentBytes /\ on.resumed = r.resumed
        /\ on.cached = r.cached /\ on.response = r.response
        /\ on.bytes = r.bytes + Github!Weight(body)
    BY DEF GithubFields, Spent
  <1> HIDE DEF on
  <1>2. r.pc \in InFlight /\ on.pc \in InFlight
    BY <1>1 DEF InFlight
  <1>3. InHand(vs, n, on)
    BY <1>1 DEF Covered, Honest, InHand
  <1>4. Honest(vs, n, on)
    BY <1>1, <1>2, <1>3, StaysHonest DEF Covered
  <1>5. r.kind = "facts" => IF r.key = 0 THEN r.bytes = 0 ELSE r.parentBytes = 1
    BY <1>2 DEF Covered, Counted
  <1>6. ASSUME r.kind = "facts", r.key = 0
        PROVE  on.bytes = 1
    <2>1. 0 \notin Github!Pages
      BY DEF Github!Pages
    <2>2. Github!Weight(body) = 1
      BY <1>6, <2>1, ObjectGiven
    <2>3. QED
      BY <1>1, <1>5, <1>6, <2>2
  <1>7. QED
    BY <1>1, <1>4, <1>5, <1>6 DEF Ready, on

\* What becomes of a read when its fetch is over.
LEMMA Settled ==
    ASSUME NEW vs, NEW n, ListsSound(vs), NEW r, DOMAIN r = GithubFields, Covered(vs, n, r),
           r.pc = "settle", r.response.kind \in BodyKinds \cup {"unchanged"},
           NEW body, body = IF r.response.kind = "unchanged" THEN r.cached ELSE r.response.body,
           NEW after \in Github!After(Spent(r, body), body)
    PROVE  Covered(vs, n, after)
  <1> DEFINE on == Spent(r, body)
  <1>1. Given(vs, n, body, r.key) /\ body.at \in 1..Len(vs)
    BY DEF Covered, Honest, InHand, Given, BodyKinds
  <1>2. after \in Github!After(on, body)
    OBVIOUS
  <1>3. /\ DOMAIN on = GithubFields /\ Honest(vs, n, on) /\ on.pc = "settle"
        /\ on.kind = r.kind /\ on.key = r.key
        /\ on.kind = "facts" /\ on.key = 0 => on.bytes = 1
        /\ on.kind = "facts" /\ on.key # 0 => on.parentBytes = 1
    <2>1. Ready(vs, n, r, on)
      BY <1>1, BytesSpent
    <2> HIDE DEF on
    <2>2. QED
      BY <2>1 DEF Ready
  <1> HIDE DEF on
  <1>4. CASE on.key = 0
    <2>1. on.kind # "row"
      <3>1. on.kind = "row" => on.from \in Numbers /\ on.key = Github!PageOf(on.from)
        BY <1>3 DEF Honest, Kinded
      <3>2. \A number \in Numbers : Github!PageOf(number) \in Github!Pages
        BY RowPlace
      <3>3. 0 \notin Github!Pages
        BY DEF Github!Pages
      <3>4. QED
        BY <1>4, <3>1, <3>2, <3>3
    <2>2. after = Github!WithParent(on, body)
      BY <1>2, <1>4 DEF Github!After
    <2>3. QED
      BY <1>1, <1>3, <1>4, <2>1, <2>2, ParentUsed
  <1>5. CASE on.key # 0 /\ on.kind = "facts"
    <2>1. after = Github!WithPage(on, body)
      BY <1>2, <1>5 DEF Github!After
    <2>2. QED
      BY <1>1, <1>3, <1>5, <2>1, PageUsed
  <1>6. CASE on.key # 0 /\ on.kind = "row"
    <2>1. after = Github!WithRow(on, body)
      BY <1>2, <1>6 DEF Github!After
    <2>2. QED
      BY <1>1, <1>3, <1>6, <2>1, RowUsed
  <1>7. CASE on.key # 0 /\ on.kind \in {"comments", "diff"}
    <2>1. after = Github!WithPlainPage(on, body)
      BY <1>2, <1>7 DEF Github!After, Github!Paged
    <2>2. QED
      BY <1>1, <1>3, <1>7, <2>1, RowsUsed
  <1>8. CASE on.key # 0 /\ on.kind \in {"item", "source"}
    <2>1. after \in Github!WithObject(on, body)
      BY <1>2, <1>8 DEF Github!After, Github!Paged
    <2>2. QED
      BY <1>1, <1>3, <1>8, <2>1, ObjectUsed
  <1>9. on.kind \in {"facts", "row", "comments", "diff", "item", "source"}
    BY <1>3 DEF Honest, Kinded, Github!Controlled, Plain
  <1>10. QED
    BY <1>4, <1>5, <1>6, <1>7, <1>8, <1>9

\* The body is cached under its key, and the read goes on with it.
LEMMA CoverageSettles ==
    ASSUME CoverageInv, GithubInv, NEW x \in Readers, Github!Settle(x)
    PROVE  CoverageInv'
  <1> DEFINE r == reader[x]
             verdict == Github!Verdict(r)
             body == IF r.response.kind = "unchanged" THEN r.cached ELSE r.response.body
  <1>1. r.pc = "settle" /\ Github!Cached(r) /\ UNCHANGED <<versions, faults>>
    BY DEF Github!Settle
  <1>2. PICK after \in IF verdict = "ok"
                       THEN Github!After([r EXCEPT !.bytes = @ + Github!Weight(body)], body)
                       ELSE {Github!AfterFailure(r, verdict)} :
            reader' = [reader EXCEPT ![x] = after]
    BY DEF Github!Settle, Github!Step
  <1>3. /\ Covered(versions, faults, r) /\ Sound(r) /\ DOMAIN r = GithubFields /\ ReadersSound
        /\ CacheGiven(versions, faults, cache) /\ faults \in Nat /\ ListsSound(versions)
    BY ReadKnown
  <1>4. r.response.kind \in BodyKinds \cup ErrorKinds \cup {"unchanged"}
    BY <1>1, <1>3 DEF Sound, Arrived
  <1>5. CacheGiven(versions, faults, cache')
    <2>1. CASE ~Github!Stored(r)
      BY <1>1, <1>3, <2>1 DEF Github!Cached
    <2>2. CASE Github!Stored(r)
      <3>1. r.response.kind \in BodyKinds
        BY <2>2 DEF Github!Stored, BodyKinds
      <3>2. Given(versions, faults, r.response.body, r.key)
        BY <1>1, <1>3, <3>1 DEF Covered, Honest, InHand
      <3>3. \/ Github!Put(r.key, r.response.body, r.generation)
            \/ Github!Put(r.key, Github!NoBody, r.generation)
        BY <1>1, <2>2 DEF Github!Cached, Github!Evacuate
      <3>4. DOMAIN cache = Github!Keys
        BY DEF GithubInv, CacheSound
      <3>5. QED
        BY <1>3, <3>2, <3>3, <3>4, EntryStored
    <2>3. QED
      BY <2>1, <2>2
  <1>6. Covered(versions, faults, after)
    <2>1. CASE verdict # "ok"
      BY <1>1, <1>2, <1>3, <1>4, <2>1, ErrorUsed
    <2>2. CASE verdict = "ok"
      <3>1. r.response.kind \in BodyKinds \cup {"unchanged"}
        BY <1>4, <2>2, Verdicts
      <3>2. after \in Github!After(Spent(r, body), body)
        BY <1>2, <2>2 DEF Spent
      <3> HIDE DEF r
      <3>3. QED
        BY <1>1, <1>3, <3>1, <3>2, Settled
    <2>3. QED
      BY <2>1, <2>2
  <1>7. faults' \in Nat /\ faults' >= faults
    BY <1>1, <1>3
  <1>8. CacheGiven(versions, faults', cache') /\ Covered(versions, faults', after)
    BY <1>1, <1>5, <1>6
  <1>9. QED
    BY <1>1, <1>2, <1>3, <1>7, <1>8, CoverageMoves

\* A set of numbers has a least one: the intervals below them are finite sets,
\* which strict inclusion orders well.
LEMMA LeastOf ==
    ASSUME NEW T \in SUBSET Nat, T # {}
    PROVE  \E x \in T : \A y \in T : x <= y
  <1> DEFINE Below == {1..x : x \in T}
  <1>1. IsWellFoundedOn(StrictSubsetOrdering(Nat), FiniteSubsetsOf(Nat))
    BY FS_StrictSubsetOrderingWellFounded
  <1>2. Below \subseteq FiniteSubsetsOf(Nat) /\ Below # {}
    <2>1. \A x \in T : 1..x \subseteq Nat /\ IsFiniteSet(1..x)
      BY FS_Interval
    <2>2. QED
      BY <2>1 DEF FiniteSubsetsOf
  <1>3. PICK b \in Below : \A c \in Below : <<c, b>> \notin StrictSubsetOrdering(Nat)
    <2> HIDE DEF Below
    <2>1. QED
      BY <1>1, <1>2, WFMin
  <1>4. PICK x \in T : b = 1..x
    BY <1>3
  <1>5. ASSUME NEW y \in T, y < x
        PROVE  FALSE
    <2>1. 1..y \in Below /\ 1..y \subseteq 1..x /\ x \in 1..x /\ x \notin 1..y /\ 1..x \subseteq Nat
      BY <1>5
    <2>2. <<1..y, 1..x>> \in StrictSubsetOrdering(Nat)
      BY <2>1 DEF StrictSubsetOrdering
    <2>3. QED
      BY <1>3, <1>4, <2>1, <2>2
  <1>6. QED
    BY <1>5

\* And a greatest one, where it has a bound.
LEMMA GreatestIn ==
    ASSUME NEW N \in Nat, NEW S \in SUBSET (0..N), S # {}
    PROVE  \E x \in S : \A y \in S : x >= y
  <1> DEFINE T == {N - x : x \in S}
  <1>1. T \in SUBSET Nat /\ T # {}
    <2>1. \A x \in S : x \in 0..N /\ N - x \in Nat
      OBVIOUS
    <2>2. QED
      BY <2>1
  <1>2. PICK z \in T : \A y \in T : z <= y
    <2> HIDE DEF T
    <2>1. QED
      BY <1>1, LeastOf
  <1>3. PICK x \in S : z = N - x
    BY <1>2
  <1>4. ASSUME NEW y \in S
        PROVE  x >= y
    <2>1. N - y \in T /\ x \in 0..N /\ y \in 0..N
      OBVIOUS
    <2>2. N - x <= N - y
      <3> HIDE DEF T
      <3>1. QED
        BY <1>2, <1>3, <2>1
    <2>3. QED
      BY <2>1, <2>2
  <1>5. QED
    BY <1>4

LEMMA GreatestOf ==
    ASSUME NEW N \in Nat, NEW S \in SUBSET (0..N), S # {}
    PROVE  Github!Max(S) \in S
  BY GreatestIn DEF Github!Max

\* An element of a sequence.
LEMMA ElementOf ==
    ASSUME NEW S, NEW s \in Seq(S), NEW i \in 1..Len(s)
    PROVE  s[i] \in S
  OBVIOUS

\* The first pages of a collection, and where the others begin.
LEMMA PagesGivenBack ==
    ASSUME NEW vs, NEW n, ListsSound(vs), NEW r, DOMAIN r = GithubFields, Covered(vs, n, r),
           r.pc = "finish", r.kind = "facts",
           NEW k \in 0..Len(r.pages)
    PROVE  Covered(vs, n, [Github!RolledBack(r, k) EXCEPT !.pc = "final"])
  <1> DEFINE s == [Github!RolledBack(r, k) EXCEPT !.pc = "final"]
             m == IF k = 0 THEN 0 ELSE r.pages[k].upto
  <1>1. Honest(vs, n, r) /\ r.kind \in Github!Paged
    BY DEF Covered, Github!Paged
  <1>2. /\ r.records \in Seq(Listable) /\ r.read \subseteq 1..Len(vs)
        /\ Github!IsInjective(r.records)
        /\ \A v \in r.read : r.read = {v} => StopHonest(vs[v], r)
        /\ PagesListed(r, Len(r.pages) - 1)
    BY <1>1 DEF Honest, Ended, Undeceived
  <1>3. r.from \in Github!Pages /\ r.from \in Nat /\ PageSize \in Nat
    BY <1>1, ListingAssumption DEF Honest, Kinded, Github!Pages
  <1>4. CASE k = Len(r.pages)
    <2>1. /\ s.pc = "final" /\ s.kind = r.kind /\ s.from = r.from /\ s.key = r.key
          /\ s.limits = r.limits /\ s.stop = r.stop /\ s.records = r.records /\ s.read = r.read
          /\ s.resumed = r.resumed /\ s.response = r.response
      BY <1>4 DEF GithubFields, Github!RolledBack
    <2> HIDE DEF s
    <2>2. Kinded(s)
      BY <1>1, <2>1 DEF Honest, Kinded
    <2>3. InHand(vs, n, s) /\ Underway(vs, n, s) /\ Counted(s) /\ RowOpened(vs, s)
      BY <2>1 DEF InHand, Underway, Counted, RowOpened, InFlight
    <2>4. \A list : StopHonest(list, r) => StopHonest(list, s)
      BY <2>1 DEF StopHonest, Portion
    <2>5. Ended(vs, n, s)
      BY <1>2, <2>1, <2>4 DEF Ended
    <2>6. Budgeted(vs, s)
      BY <1>1, <2>1 DEF Honest, Budgeted
    <2>7. QED
      BY <2>2, <2>3, <2>5, <2>6 DEF Covered, Honest, s
  <1>5. CASE k # Len(r.pages)
    <2> DEFINE stop == Github!Incomplete("length", Github!Continuation(r.pages[k + 1].key))
    <2>1. /\ s.pc = "final" /\ s.kind = r.kind /\ s.from = r.from /\ s.key = r.key
          /\ s.limits = r.limits /\ s.stop = stop /\ s.records = SubSeq(r.records, 1, m)
          /\ s.read = r.read /\ s.resumed = r.resumed /\ s.response = r.response
      BY <1>5 DEF GithubFields, Github!RolledBack, Github!Kept
    <2>2. /\ stop.state = "incomplete" /\ stop.reason = "length"
          /\ stop.resume \in {0, r.pages[k + 1].key}
      BY DEF Github!Incomplete, Github!Stop, Github!Continuation
    <2> HIDE DEF s, stop
    <2>3. /\ r.pages \in Seq([key : Nat, upto : Nat]) /\ Len(r.pages) \in Nat
          /\ \A i \in 1..Len(r.pages) :
                r.pages[i].key = r.from + i - 1 /\ r.pages[i].upto <= Len(r.records)
          /\ \A v \in r.read : r.read = {v} =>
                \A i \in 1..(Len(r.pages) - 1) : r.pages[i].upto = i * PageSize
      <3>1. PagesListed(r, Len(r.pages) - 1)
        BY <1>2
      <3>2. r.pages \in Seq([key : Nat, upto : Nat])
        BY <3>1, Zenon DEF PagesListed
      <3>3. \A i \in 1..Len(r.pages) :
                r.pages[i].key = r.from + i - 1 /\ r.pages[i].upto <= Len(r.records)
        BY <3>1, Zenon DEF PagesListed
      <3>4. \A v \in r.read : r.read = {v} =>
                \A i \in 1..(Len(r.pages) - 1) : r.pages[i].upto = i * PageSize
        BY <3>1, Zenon DEF PagesListed
      <3>5. Len(r.pages) \in Nat
        BY <3>2
      <3>6. QED
        BY <3>2, <3>3, <3>4, <3>5, Zenon
    <2> DEFINE p == Len(r.pages)
               q == Len(r.records)
    <2>4. p \in Nat /\ q \in Nat /\ k \in Nat /\ k < p /\ k + 1 \in 1..p
      <3>1. q \in Nat
        BY <1>2
      <3>2. QED
        BY <1>5, <2>3, <3>1
    <2>5. r.pages[k + 1].key = r.from + k
      <3>1. r.pages[k + 1].key = r.from + (k + 1) - 1
        BY <2>3, <2>4
      <3>2. QED
        BY <1>3, <2>4, <3>1
    <2>6. m \in Nat /\ m <= q
      <3>1. k # 0 => k \in 1..p
        BY <2>4
      <3>2. k # 0 => r.pages[k].upto \in Nat /\ r.pages[k].upto <= q
        <4>1. ASSUME k \in 1..p
              PROVE  r.pages[k].upto \in Nat /\ r.pages[k].upto <= q
          <5>1. r.pages \in Seq([key : Nat, upto : Nat]) /\ k \in 1..Len(r.pages)
            BY <2>3, <4>1
          <5>2. r.pages[k] \in [key : Nat, upto : Nat]
            BY <5>1, ElementOf
          <5>3. r.pages[k].upto <= Len(r.records)
            BY <2>3, <5>1
          <5>4. QED
            BY <5>2, <5>3
        <4>2. QED
          BY <3>1, <4>1
      <3>3. QED
        BY <2>4, <3>2
    <2>7. \A v \in r.read : r.read = {v} => m = k * PageSize
      <3>1. ASSUME NEW v \in r.read, r.read = {v}
            PROVE  m = k * PageSize
        <4>1. k # 0 => k \in 1..(p - 1)
          BY <2>4
        <4>2. k # 0 => r.pages[k].upto = k * PageSize
          BY <2>3, <3>1, <4>1
        <4>3. 0 * PageSize = 0
          BY <1>3
        <4>4. QED
          BY <4>2, <4>3
      <3>2. QED
        BY <3>1
    <2> HIDE DEF m, p
    <2>8. /\ s.records \in Seq(Listable) /\ Len(s.records) = m
          /\ \A i \in 1..m : s.records[i] = r.records[i]
      BY <1>2, <2>1, <2>6
    <2>9. Github!IsInjective(s.records)
      <3>1. \A i, j \in 1..q : r.records[i] = r.records[j] => i = j
        BY <1>2 DEF Github!IsInjective
      <3>2. DOMAIN s.records = 1..m
        BY <2>8
      <3> HIDE DEF q
      <3>3. \A i \in 1..m : i \in 1..q
        BY <2>4, <2>6
      <3>4. QED
        BY <2>8, <3>1, <3>2, <3>3 DEF Github!IsInjective
    <2>10. ASSUME NEW v \in r.read, r.read = {v}
           PROVE  StopHonest(vs[v], s)
      <3> DEFINE list == vs[v]
      <3>1. Portion(list, r, q)
        BY <1>2, <2>10 DEF StopHonest
      <3>2. Len(list) \in Nat /\ Skipped(r.from) \in Nat
        <4>1. list \in Seq(Listable)
          BY <1>2, <2>10 DEF ListsSound
        <4>2. Skipped(r.from) \in Nat
          BY SMTT(30), <1>3, ListingAssumption DEF Skipped, Github!Pages
        <4>3. QED
          BY <4>1, <4>2
      <3> HIDE DEF list, q
      <3>3. Portion(list, s, m)
        <4>1. /\ q # 0 => Skipped(r.from) + q <= Len(list)
              /\ \A j \in 1..q : r.records[j] = list[Skipped(r.from) + j]
          BY <3>1 DEF Portion
        <4>2. m # 0 => Skipped(r.from) + m <= Len(list)
          BY <2>4, <2>6, <3>2, <4>1
        <4>3. \A j \in 1..m : s.records[j] = list[Skipped(r.from) + j]
          <5>1. \A j \in 1..m : j \in 1..q
            BY <2>4, <2>6
          <5>2. QED
            BY <2>8, <4>1, <5>1
        <4>4. QED
          BY <2>1, <2>8, <4>2, <4>3 DEF Portion
      <3>4. ASSUME stop.resume # 0
            PROVE  /\ stop.resume \in Nat /\ stop.resume >= r.from
                   /\ m = (stop.resume - r.from) * PageSize
        <4>1. stop.resume = r.from + k
          BY <2>2, <2>5, <3>4
        <4>2. r.from + k - r.from = k
          BY <1>3, <2>4
        <4>3. QED
          BY <1>3, <2>4, <2>7, <2>10, <4>1, <4>2
      <3>5. QED
        BY <2>1, <2>2, <2>8, <3>3, <3>4 DEF StopHonest, list
    <2>11. Kinded(s)
      BY <1>1, <2>1 DEF Honest, Kinded
    <2>12. InHand(vs, n, s) /\ Underway(vs, n, s) /\ Counted(s) /\ RowOpened(vs, s)
      BY <2>1 DEF InHand, Underway, Counted, RowOpened, InFlight
    <2>13. Ended(vs, n, s)
      BY <1>2, <2>1, <2>8, <2>9, <2>10 DEF Ended
    <2>14. s.stop # Github!Failed("bytes")
      BY <2>1, <2>2 DEF Github!Failed, Github!Stop
    <2>15. Budgeted(vs, s)
      BY <1>1, <2>1, <2>2, <2>14 DEF Honest, Budgeted
    <2>16. QED
      BY <2>11, <2>12, <2>13, <2>15 DEF Covered, Honest, s
  <1>6. QED
    BY <1>4, <1>5

\* Of another read there is nothing to give back that would be counted.
LEMMA OthersGivenBack ==
    ASSUME NEW vs, NEW n, NEW r, DOMAIN r = GithubFields, Covered(vs, n, r), r.pc = "finish",
           r.kind \in {"item", "source"},
           NEW k
    PROVE  Covered(vs, n, [Github!RolledBack(r, k) EXCEPT !.pc = "final"])
  <1> DEFINE s == [Github!RolledBack(r, k) EXCEPT !.pc = "final"]
  <1>1. Honest(vs, n, r) /\ r.kind \in {"item", "source"}
    BY DEF Covered
  <1>2. /\ s.pc = "final" /\ s.kind = r.kind /\ s.from = r.from /\ s.key = r.key
        /\ s.limits = r.limits /\ s.resumed = r.resumed /\ s.response = r.response
        /\ \/ s.stop = r.stop
           \/ s.stop.reason = "length"
    BY DEF GithubFields, Github!RolledBack, Github!Kept, Github!Incomplete, Github!Stop
  <1> HIDE DEF s
  <1>3. s.kind \notin Github!Paged /\ s.kind \notin {"row", "facts"}
    BY <1>1, <1>2 DEF Github!Paged
  <1>4. Kinded(s)
    BY <1>1, <1>2, <1>3 DEF Honest, Kinded
  <1>5. InHand(vs, n, s) /\ Underway(vs, n, s) /\ Ended(vs, n, s) /\ RowOpened(vs, s) /\ Counted(s)
    BY <1>2, <1>3 DEF InHand, Underway, Ended, RowOpened, Counted, InFlight
  <1>6. Budgeted(vs, s)
    <2>1. CASE s.stop = r.stop
      BY <1>1, <1>2, <1>3, <2>1 DEF Honest, Budgeted
    <2>2. CASE s.stop.reason = "length"
      <3>1. s.stop # Github!Failed("bytes")
        BY <2>2 DEF Github!Failed, Github!Stop
      <3>2. QED
        BY <1>1, <1>2, <1>3, <2>2, <3>1 DEF Honest, Budgeted
    <2>3. QED
      BY <1>2, <2>1, <2>2
  <1>7. QED
    BY <1>4, <1>5, <1>6 DEF Covered, Honest, s

\* A collection is answered with the pages that fit.
LEMMA CoverageFinishes ==
    ASSUME CoverageInv, GithubInv, NEW x \in Readers, Github!Finish(x)
    PROVE  CoverageInv'
  <1> DEFINE r == reader[x]
             LengthOf(s) == Github!Length(Len(s.records), s.stop)
             fitting == {n \in 0..Len(r.pages) :
                            /\ LengthOf(Github!RolledBack(r, n)) <= r.limits.length
                            /\ n < Len(r.pages) => Github!RollbackAllowed(r.stop)}
             k == Github!Max(fitting)
             failed == [r EXCEPT !.pc = "answered", !.stop = Github!Failed("length")]
             kept == [Github!RolledBack(r, k) EXCEPT !.pc = "final"]
  <1>1. /\ r.pc = "finish" /\ UNCHANGED <<versions, faults, cache>>
        /\ \/ reader' = [reader EXCEPT ![x] = failed]
           \/ fitting # {} /\ reader' = [reader EXCEPT ![x] = kept]
    BY Zenon DEF Github!Finish, Github!Step
  <1>2. /\ Covered(versions, faults, r) /\ Sound(r) /\ DOMAIN r = GithubFields /\ ReadersSound
        /\ ListsSound(versions)
    BY ReadKnown
  <1>3. fitting \subseteq 0..Len(r.pages)
    OBVIOUS
  <1> HIDE DEF fitting
  <1>4. Covered(versions, faults, failed)
    BY <1>1, <1>2, FailsHonest DEF Covered
  <1>5. r.kind \in {"facts", "item", "source"}
    <2>1. r.kind \notin Plain
      BY <1>1, <1>2 DEF Sound, Shaped
    <2>2. QED
      BY <1>2, <2>1 DEF Covered, Honest, Kinded, Github!Controlled
  <1>6. ASSUME fitting # {}
        PROVE  Covered(versions, faults, kept)
    <2>1. CASE r.kind = "facts"
      <3>1. Len(r.pages) \in Nat
        <4>1. PagesListed(r, Len(r.pages) - 1)
          BY <1>1, <1>2, <2>1 DEF Covered, Honest, Ended, Github!Paged
        <4>2. QED
          BY <4>1 DEF PagesListed
      <3>2. k \in 0..Len(r.pages)
        BY <1>3, <1>6, <3>1, GreatestOf
      <3> HIDE DEF k
      <3>3. QED
        BY <1>1, <1>2, <2>1, <3>2, PagesGivenBack
    <2>2. CASE r.kind \in {"item", "source"}
      <3> HIDE DEF k
      <3>1. QED
        BY <1>1, <1>2, <2>2, OthersGivenBack
    <2>3. QED
      BY <1>5, <2>1, <2>2
  <1> HIDE DEF failed, kept
  <1>7. CASE reader' = [reader EXCEPT ![x] = failed]
    BY <1>1, <1>2, <1>4, <1>7, CoverageTurns
  <1>8. CASE fitting # {} /\ reader' = [reader EXCEPT ![x] = kept]
    BY <1>1, <1>2, <1>6, <1>8, CoverageTurns
  <1>9. QED
    BY <1>1, <1>7, <1>8

\* The answer is what was kept.
LEMMA CoverageAnswers ==
    ASSUME CoverageInv, GithubInv, NEW x \in Readers, Github!Final(x)
    PROVE  CoverageInv'
  <1> DEFINE r == reader[x]
             s == [r EXCEPT !.pc = "answered", !.floor = settled]
             f == [r EXCEPT !.pc = "answered", !.stop = Github!Failed("generation_changed")]
  <1>1. /\ r.pc = "final" /\ UNCHANGED <<versions, faults, cache>>
        /\ reader' = [reader EXCEPT ![x] = IF generation = r.base THEN s ELSE f]
    BY DEF Github!Final, Github!Step
  <1>2. /\ Covered(versions, faults, r) /\ DOMAIN r = GithubFields /\ ReadersSound
    BY ReadKnown
  <1>3. Covered(versions, faults, f)
    BY <1>1, <1>2, FailsHonest DEF Covered
  <1>4. Covered(versions, faults, s)
    <2>1. /\ s.pc = "answered" /\ s.kind = r.kind /\ s.from = r.from /\ s.key = r.key
          /\ s.limits = r.limits /\ s.stop = r.stop /\ s.records = r.records /\ s.read = r.read
          /\ s.resumed = r.resumed /\ s.response = r.response
      BY <1>2 DEF GithubFields
    <2> HIDE DEF s
    <2>2. Honest(versions, faults, r)
      BY <1>2 DEF Covered
    <2>3. Kinded(s)
      BY <1>1, <2>1, <2>2 DEF Honest, Kinded
    <2>4. InHand(versions, faults, s) /\ Underway(versions, faults, s) /\ Counted(s)
      BY <2>1 DEF InHand, Underway, Counted, InFlight
    <2>5. Ended(versions, faults, s)
      <3>1. \A list : StopHonest(list, r) => StopHonest(list, s)
        BY <2>1 DEF StopHonest, Portion
      <3>2. Ended(versions, faults, r) /\ (Undeceived(faults, s) => Undeceived(faults, r))
        BY <2>1, <2>2 DEF Honest, Undeceived
      <3>3. QED
        BY <1>1, <2>1, <3>1, <3>2 DEF Ended
    <2>6. RowOpened(versions, s)
      BY <1>1, <2>1, <2>2 DEF Honest, RowOpened, InFlight
    <2>7. Budgeted(versions, s)
      BY <2>1, <2>2 DEF Honest, Budgeted
    <2>8. QED
      BY <2>3, <2>4, <2>5, <2>6, <2>7 DEF Covered, Honest
  <1>5. QED
    BY <1>1, <1>2, <1>3, <1>4, CoverageTurns

-----------------------------------------------------------------------------
(* GitHub: every other step *)

\* What else happens leaves what is known of every read, and adds to the lists
\* and the faults.
LEMMA CoverageKeeps ==
    ASSUME CoverageInv, UNCHANGED reader, faults' \in Nat, faults' >= faults,
           ListsSound(versions'), Len(versions') >= Len(versions),
           \A v \in 1..Len(versions) : versions'[v] = versions[v],
           \A k \in Github!Keys : cache'[k] \in {cache[k], Github!NoBody}
    PROVE  CoverageInv'
  <1>1. /\ faults \in Nat /\ Len(versions) \in Nat /\ Len(versions') \in Nat
        /\ CacheGiven(versions, faults, cache)
    BY DEF CoverageInv, ListsSound
  <1>2. \A r : Covered(versions, faults, r) => Covered(versions', faults', r)
    BY <1>1, CoveredStays
  <1>3. CacheGiven(versions', faults', cache)
    BY <1>1, CacheStays
  <1>4. CacheGiven(versions', faults', cache')
    BY <1>3 DEF CacheGiven
  <1>5. QED
    BY <1>2, <1>4 DEF CoverageInv

\* Two sequences with the same elements are the same.
LEMMA SameSequence ==
    ASSUME NEW S, NEW s \in Seq(S), NEW t \in Seq(S), Len(s) = Len(t),
           \A j \in 1..Len(s) : s[j] = t[j]
    PROVE  s = t
  OBVIOUS

\* A list without its first record names none twice.
LEMMA TailInjective ==
    ASSUME NEW S, NEW s \in Seq(S), s # <<>>, Github!IsInjective(s)
    PROVE  Tail(s) \in Seq(S) /\ Github!IsInjective(Tail(s))
  <1>1. Len(s) \in Nat /\ Len(s) # 0 /\ DOMAIN s = 1..Len(s)
    OBVIOUS
  <1>2. /\ Tail(s) \in Seq(S) /\ Len(Tail(s)) = Len(s) - 1
        /\ \A j \in 1..(Len(s) - 1) : Tail(s)[j] = s[j + 1]
    OBVIOUS
  <1> DEFINE t == Tail(s)
             m == Len(s)
  <1>3. \A i, j \in 1..m : s[i] = s[j] => i = j
    BY <1>1 DEF Github!IsInjective
  <1>4. t \in Seq(S) /\ DOMAIN t = 1..(m - 1) /\ \A j \in 1..(m - 1) : t[j] = s[j + 1]
    BY <1>2
  <1> HIDE DEF t, m
  <1>5. m \in Nat
    BY <1>1 DEF m
  <1>6. ASSUME NEW i \in 1..(m - 1), NEW j \in 1..(m - 1), t[i] = t[j]
        PROVE  i = j
    <2>1. i + 1 \in 1..m /\ j + 1 \in 1..m
      BY <1>5
    <2>2. s[i + 1] = s[j + 1]
      BY <1>4, <1>6
    <2>3. i + 1 = j + 1
      BY <1>3, <2>1, <2>2
    <2>4. QED
      BY <1>5, <2>3
  <1>7. Github!IsInjective(t)
    BY <1>4, <1>6 DEF Github!IsInjective
  <1>8. QED
    BY <1>2, <1>7 DEF t

\* Nor does one that is given a record it did not name.
LEMMA AppendedOnce ==
    ASSUME NEW S, NEW s \in Seq(S), Github!IsInjective(s), NEW e \in S, e \notin Github!Range(s)
    PROVE  Append(s, e) \in Seq(S) /\ Github!IsInjective(Append(s, e))
  <1> DEFINE t == Append(s, e)
             m == Len(s)
  <1>1. m \in Nat /\ DOMAIN s = 1..m
    OBVIOUS
  <1>2. /\ t \in Seq(S) /\ DOMAIN t = 1..(m + 1)
        /\ \A j \in 1..m : t[j] = s[j]
        /\ t[m + 1] = e
    OBVIOUS
  <1>3. \A i, j \in 1..m : s[i] = s[j] => i = j
    BY <1>1 DEF Github!IsInjective
  <1>4. \A i \in 1..m : s[i] # e
    BY <1>1 DEF Github!Range
  <1> HIDE DEF t, m
  <1>5. ASSUME NEW i \in 1..(m + 1), NEW j \in 1..(m + 1), t[i] = t[j]
        PROVE  i = j
    <2>1. (i \in 1..m \/ i = m + 1) /\ (j \in 1..m \/ j = m + 1)
      BY <1>1
    <2>2. QED
      BY <1>2, <1>3, <1>4, <1>5, <2>1
  <1>6. Github!IsInjective(t)
    BY <1>2, <1>5 DEF Github!IsInjective
  <1>7. QED
    BY <1>2, <1>6 DEF t

\* The list changes as its readers expect: by a record at the end, or without the
\* first.
LEMMA ListsChange ==
    ASSUME CoverageInv, GithubInv, NEW list \in Github!Changed(versions[Github!Version]),
           versions' = Append(versions, list)
    PROVE  /\ ListsSound(versions') /\ Len(versions') >= Len(versions)
           /\ \A v \in 1..Len(versions) : versions'[v] = versions[v]
  <1> DEFINE old == versions[Github!Version]
  <1>1. /\ Len(versions) \in Nat \ {0} /\ versions = [v \in 1..Len(versions) |-> versions[v]]
        /\ \A v \in 1..Len(versions) : versions[v] \in Seq(Listable) /\ Github!IsInjective(versions[v])
    BY DEF CoverageInv, ListsSound, GithubInv, Confirmed
  <1>2. old \in Seq(Listable) /\ Github!IsInjective(old)
    BY <1>1 DEF Github!Version
  <1> HIDE DEF old
  <1>3. list \in Seq(Listable) /\ Github!IsInjective(list)
    <2>1. CASE old # <<>> /\ list = Tail(old)
      BY <1>2, <2>1, TailInjective
    <2>2. CASE \E i \in 1..Len(Fresh) : Fresh[i] \notin Github!Range(old) /\ list = Append(old, Fresh[i])
      <3>1. PICK i \in 1..Len(Fresh) : Fresh[i] \notin Github!Range(old) /\ list = Append(old, Fresh[i])
        BY <2>2
      <3>2. Fresh[i] \in Listable
        BY <3>1, ListingAssumption DEF Listable, Github!Range
      <3>3. QED
        BY <1>2, <3>1, <3>2, AppendedOnce
    <2>3. QED
      BY <2>1, <2>2 DEF Github!Changed, old
  <1>4. \E S : versions \in Seq(S) /\ list \in S
    <2> DEFINE S == {versions[v] : v \in 1..Len(versions)} \cup {list}
    <2>1. versions \in [1..Len(versions) -> S]
      BY <1>1, Zenon
    <2>2. versions \in Seq(S) /\ list \in S
      BY <1>1, <2>1
    <2> HIDE DEF S
    <2>3. QED
      BY <2>2
  <1>5. /\ Len(versions') = Len(versions) + 1
        /\ \A v \in 1..Len(versions) : versions'[v] = versions[v]
        /\ versions'[Len(versions) + 1] = list
    BY <1>4
  <1>6. ListsSound(versions')
    <2>1. \A v \in 1..(Len(versions) + 1) : v \in 1..Len(versions) \/ v = Len(versions) + 1
      BY <1>1
    <2>2. Len(versions') \in Nat \ {0}
      BY <1>1, <1>5
    <2>3. ASSUME NEW v \in 1..Len(versions')
          PROVE  versions'[v] \in Seq(Listable) /\ Github!IsInjective(versions'[v])
      BY <1>1, <1>3, <1>5, <2>1
    <2>4. QED
      BY <2>2, <2>3 DEF ListsSound
  <1>7. QED
    BY <1>1, <1>5, <1>6

\* The list changes upstream.
LEMMA CoverageChanges ==
    ASSUME CoverageInv, GithubInv, NEW list \in Github!Changed(versions[Github!Version]),
           versions' = Append(versions, list), UNCHANGED <<faults, cache, reader>>
    PROVE  CoverageInv'
  <1>1. /\ ListsSound(versions') /\ Len(versions') >= Len(versions)
        /\ \A v \in 1..Len(versions) : versions'[v] = versions[v]
    BY ListsChange
  <1>2. faults' \in Nat /\ faults' >= faults
    BY DEF CoverageInv
  <1>3. QED
    BY <1>1, <1>2, CoverageKeeps

\* Every step keeps what is known of coverage.
LEMMA CoverageStep ==
    ASSUME CoverageInv, GithubInv, Github!Next
    PROVE  CoverageInv'
  <1>1. ASSUME NEW x \in Readers, NEW from \in Github!Pages, NEW limits \in Limits,
               Github!Begin(x, "facts", from, limits)
        PROVE  CoverageInv'
    BY <1>1, CoverageBegins
  <1>2. ASSUME NEW x \in Readers, NEW from \in Github!Pages, NEW kind \in {"comments", "diff"},
               Github!Begin(x, kind, from, Github!NoLimits)
        PROVE  CoverageInv'
    BY <1>2, CoverageBegins
  <1>3. ASSUME NEW x \in Readers, NEW number \in Numbers,
               Github!Begin(x, "row", number, Github!NoLimits)
        PROVE  CoverageInv'
    BY <1>3, CoverageBegins
  <1>4. ASSUME NEW x \in Readers, NEW kind \in {"item", "source"}, NEW limits \in Limits,
               Github!Begin(x, kind, 1, limits)
        PROVE  CoverageInv'
    BY <1>4, CoverageBegins
  <1>5. ASSUME NEW x \in Readers,
               \/ Github!Guard(x) \/ Github!Capture(x) \/ Github!Lookup(x) \/ Github!Forget(x)
               \/ Github!Exchange(x)
               \/ \E reason \in {"attempts", "deadline", "cancelled"} : Github!Withheld(x, reason)
               \/ Github!Settle(x) \/ Github!Finish(x) \/ Github!Final(x)
        PROVE  CoverageInv'
    BY <1>5, CoverageGuards, CoverageCaptures, CoverageLooksUp, CoverageForgets,
       CoverageExchanges, CoverageWithholds, CoverageSettles, CoverageFinishes, CoverageAnswers
  <1>6. ASSUME NEW m \in Mutators, Github!Effect(m)
        PROVE  CoverageInv'
    <2>1. PICK list \in Github!Changed(versions[Github!Version]) : versions' = Append(versions, list)
      BY <1>6 DEF Github!Effect
    <2>2. UNCHANGED <<faults, cache, reader>>
      BY <1>6 DEF Github!Effect
    <2>3. QED
      BY <2>1, <2>2, CoverageChanges
  <1>7. ASSUME Github!Edit
        PROVE  CoverageInv'
    <2>1. PICK list \in Github!Changed(versions[Github!Version]) : versions' = Append(versions, list)
      BY <1>7 DEF Github!Edit
    <2>2. UNCHANGED <<faults, cache, reader>>
      BY <1>7 DEF Github!Edit
    <2>3. QED
      BY <2>1, <2>2, CoverageChanges
  <1>8. ASSUME UNCHANGED <<versions, reader>>, faults' \in {faults, faults + 1},
               \A k \in Github!Keys : cache'[k] \in {cache[k], Github!NoBody}
        PROVE  CoverageInv'
    <2>1. /\ faults' \in Nat /\ faults' >= faults
          /\ ListsSound(versions') /\ Len(versions') >= Len(versions)
          /\ \A v \in 1..Len(versions) : versions'[v] = versions[v]
      BY <1>8 DEF CoverageInv, ListsSound
    <2>2. QED
      BY <1>8, <2>1, CoverageKeeps
  <1>9. ASSUME NEW m \in Mutators, Github!Lose(m)
        PROVE  CoverageInv'
    BY <1>8, <1>9 DEF Github!Lose
  <1>10. ASSUME NEW m \in Mutators, Github!Confirm(m)
         PROVE  CoverageInv'
    BY <1>8, <1>10 DEF Github!Confirm, Github!Invalidate
  <1>11. ASSUME NEW k \in Github!Keys, Github!Evict(k)
         PROVE  CoverageInv'
    <2>1. UNCHANGED <<versions, reader, faults>> /\ cache' = [cache EXCEPT ![k] = Github!NoBody]
      BY <1>11 DEF Github!Evict
    <2>2. DOMAIN cache = Github!Keys
      BY DEF GithubInv, CacheSound
    <2>3. \A j \in Github!Keys : cache'[j] \in {cache[j], Github!NoBody}
      BY <2>1, <2>2
    <2>4. QED
      BY <1>8, <2>1, <2>3
  <1>12. QED
    BY <1>1, <1>2, <1>3, <1>4, <1>5, <1>6, <1>7, <1>9, <1>10, <1>11 DEF Github!Next

\* Nothing is said of anything when a session begins.
LEMMA CoverageBeginning ==
    ASSUME Github!Init
    PROVE  CoverageInv
  <1>1. /\ versions = <<First>> /\ faults = 0 /\ cache = [k \in Github!Keys |-> Github!NoBody]
        /\ reader = [x \in Readers |-> Github!Idle(0)]
    BY DEF Github!Init
  <1>2. ListsSound(versions)
    <2>1. First \in Seq(Listable)
      <3>1. First \in Seq(Github!Range(First))
        BY ListingAssumption
      <3>2. Github!Range(First) \subseteq Listable
        BY DEF Listable
      <3>3. QED
        BY <3>1, <3>2
    <2>2. Len(versions) = 1 /\ versions[1] = First
      BY <1>1
    <2>3. Github!IsInjective(First)
      BY ListingAssumption
    <2>4. QED
      BY <2>1, <2>2, <2>3 DEF ListsSound
  <1>3. CacheGiven(versions, faults, cache)
    BY <1>1 DEF CacheGiven
  <1>4. ASSUME NEW x \in Readers
        PROVE  Covered(versions, faults, reader[x])
    <2> DEFINE r == reader[x]
    <2>1. /\ r.pc = "idle" /\ r.kind = "facts" /\ r.stop = Github!Running /\ r.resumed = 0
      BY <1>1 DEF Github!Idle
    <2> HIDE DEF r
    <2>2. Kinded(r)
      BY <2>1 DEF Kinded, Github!Controlled
    <2>3. InHand(versions, faults, r) /\ Underway(versions, faults, r) /\ Counted(r)
          /\ Ended(versions, faults, r) /\ RowOpened(versions, r)
      BY <2>1 DEF InHand, Underway, Counted, Ended, RowOpened, InFlight
    <2>4. Budgeted(versions, r)
      BY <2>1 DEF Budgeted, Github!Running, Github!Stop, Github!Failed
    <2>5. QED
      BY <2>2, <2>3, <2>4 DEF Covered, Honest, r
  <1>5. QED
    BY <1>1, <1>2, <1>3, <1>4 DEF CoverageInv

\* A portion of a list is a part of it.
LEMMA PortionIs ==
    ASSUME NEW list \in Seq(Listable), NEW r, r.records \in Seq(Listable),
           NEW k \in Nat, Portion(list, r, k), Skipped(r.from) \in Nat
    PROVE  r.records = SubSeq(list, Skipped(r.from) + 1, Skipped(r.from) + k)
  <1> DEFINE a == Skipped(r.from)
             part == SubSeq(list, a + 1, a + k)
  <1>1. /\ Len(r.records) = k /\ (k # 0 => a + k <= Len(list))
        /\ \A j \in 1..k : r.records[j] = list[a + j]
    BY DEF Portion
  <1>2. a \in Nat /\ Len(list) \in Nat
    OBVIOUS
  <1> HIDE DEF a
  <1>3. part \in Seq(Listable) /\ Len(part) = k /\ \A j \in 1..k : part[j] = list[a + j]
    <2>1. CASE k = 0
      BY <1>2, <2>1
    <2>2. CASE k # 0
      <3>1. a + 1 \in 1..Len(list) /\ a + k \in 1..Len(list) /\ a + 1 <= a + k
        BY <1>1, <1>2, <2>2
      <3>2. /\ part \in Seq(Listable) /\ Len(part) = (a + k) - (a + 1) + 1
            /\ \A j \in 1..Len(part) : part[j] = list[(a + 1) + j - 1]
        BY <3>1
      <3>3. (a + k) - (a + 1) + 1 = k /\ \A j \in 1..k : (a + 1) + j - 1 = a + j
        BY <1>2
      <3> HIDE DEF part
      <3>4. QED
        BY <3>2, <3>3
    <2>3. QED
      BY <2>1, <2>2
  <1> HIDE DEF part
  <1>4. r.records = part
    BY <1>1, <1>3, SameSequence
  <1>5. QED
    BY <1>4 DEF part, a

\* While another part runs nothing changes.
LEMMA CoverageStays ==
    ASSUME CoverageInv, UNCHANGED githubVars
    PROVE  CoverageInv'
  BY DEF githubVars, CoverageInv

\* What is known of coverage makes it honest.
LEMMA CoverageFollows ==
    ASSUME CoverageInv
    PROVE  Github!CoverageHonest /\ Github!NumbersOpenRows /\ Github!ResumesFit
  <1>1. ASSUME NEW x \in Readers, Github!Served(reader[x]), reader[x].kind \in Github!Paged,
               reader[x].kind # "facts" => faults = 0
        PROVE  LET r == reader[x]
                   start == (r.from - 1) * PageSize + 1
               IN  /\ r.kind # "diff" => Github!IsInjective(r.records)
                   /\ \A v \in r.read : Github!Cardinality(r.read) = 1 =>
                         /\ r.stop.state = "complete" =>
                               r.records = SubSeq(versions[v], start, Len(versions[v]))
                         /\ r.stop.resume # 0 =>
                               r.records = SubSeq(versions[v], start, (r.stop.resume - 1) * PageSize)
    <2> DEFINE r == reader[x]
               start == (r.from - 1) * PageSize + 1
    <2>1. /\ r.pc = "answered" /\ r.stop.state # "error" /\ Undeceived(faults, r)
          /\ Kinded(r) /\ Ended(versions, faults, r) /\ ListsSound(versions)
      BY <1>1 DEF CoverageInv, Covered, Honest, Github!Served, Undeceived
    <2>2. /\ r.records \in Seq(Listable) /\ r.read \subseteq 1..Len(versions)
          /\ r.kind # "diff" => Github!IsInjective(r.records)
          /\ \A v \in r.read : r.read = {v} => StopHonest(versions[v], r)
      BY <1>1, <2>1 DEF Ended
    <2>3. r.from \in Github!Pages
      BY <1>1, <2>1 DEF Kinded
    <2>4. r.from \in Nat /\ PageSize \in Nat /\ Skipped(r.from) \in Nat /\ start = Skipped(r.from) + 1
      <3>1. r.from \in Nat /\ r.from >= 1
        BY <2>3 DEF Github!Pages
      <3>2. PageSize \in Nat
        BY ListingAssumption
      <3>3. Skipped(r.from) = (r.from - 1) * PageSize
        BY DEF Skipped
      <3> DEFINE from == r.from
      <3> HIDE DEF from
      <3>4. (from - 1) * PageSize \in Nat
        BY <3>1, <3>2 DEF from
      <3>5. QED
        BY <3>1, <3>2, <3>3, <3>4 DEF from
    <2>5. ASSUME NEW v \in r.read, Github!Cardinality(r.read) = 1
          PROVE  /\ r.stop.state = "complete" =>
                       r.records = SubSeq(versions[v], start, Len(versions[v]))
                 /\ r.stop.resume # 0 =>
                       r.records = SubSeq(versions[v], start, (r.stop.resume - 1) * PageSize)
      <3> DEFINE list == versions[v]
                 k == Len(r.records)
                 a == Skipped(r.from)
      <3>1. r.read = {v}
        <4>1. IsFiniteSet(r.read)
          <5>1. IsFiniteSet(1..Len(versions))
            BY <2>1, CountTo DEF ListsSound
          <5>2. QED
            BY <2>2, <5>1, FS_Subset
        <4>2. Cardinality(r.read) = 1
          BY <2>5 DEF Github!Cardinality, Cardinality
        <4>3. QED
          BY <2>5, <4>1, <4>2, FS_Singleton
      <3>2. StopHonest(list, r) /\ list \in Seq(Listable)
        BY <2>1, <2>2, <3>1 DEF ListsSound
      <3>3. k \in Nat /\ Len(list) \in Nat
        BY <2>2, <3>2
      <3>4. r.records = SubSeq(list, a + 1, a + k)
        <4>1. Portion(list, r, k)
          BY <3>2 DEF StopHonest
        <4>2. list \in Seq(Listable) /\ r.records \in Seq(Listable) /\ k \in Nat /\ a \in Nat
          BY <2>2, <2>4, <3>2, <3>3
        <4>3. r.records = SubSeq(list, Skipped(r.from) + 1, Skipped(r.from) + k)
          <5> HIDE DEF r, list, k
          <5>1. QED
            BY <4>1, <4>2, PortionIs DEF a
        <4>4. QED
          BY <4>3
      <3> HIDE DEF list, k, a
      <3>5. ASSUME r.stop.state = "complete"
            PROVE  r.records = SubSeq(list, start, Len(list))
        <4>1. CASE a + k = Len(list)
          BY <2>4, <3>4, <4>1 DEF a
        <4>2. CASE r.records = <<>> /\ a >= Len(list)
          <5>1. start > Len(list) /\ start \in Nat
            BY <2>4, <3>3, <4>2 DEF a
          <5>2. SubSeq(list, start, Len(list)) = <<>>
            BY <3>2, <3>3, <5>1
          <5>3. QED
            BY <4>2, <5>2
        <4>3. QED
          BY <3>2, <3>5, <4>1, <4>2 DEF StopHonest, a, k
      <3>6. ASSUME r.stop.resume # 0
            PROVE  r.records = SubSeq(list, start, (r.stop.resume - 1) * PageSize)
        <4>1. /\ r.stop.resume \in Nat /\ r.stop.resume >= r.from
              /\ k = (r.stop.resume - r.from) * PageSize
          BY <3>2, <3>6 DEF StopHonest, k
        <4>2. a = (r.from - 1) * PageSize
          BY DEF a, Skipped
        <4>3. (r.from - 1) * PageSize + (r.stop.resume - r.from) * PageSize
                = (r.stop.resume - 1) * PageSize
          BY <2>4, <4>1
        <4>4. QED
          BY <2>4, <3>4, <4>1, <4>2, <4>3 DEF a
      <3>7. QED
        BY <3>5, <3>6 DEF list
    <2>6. QED
      BY <2>2, <2>5
  <1>2. Github!CoverageHonest
    BY <1>1, Zenon DEF Github!CoverageHonest
  <1>3. Github!NumbersOpenRows
    <2>1. ASSUME NEW x \in Readers, reader[x].kind = "row"
          PROVE  LET r == reader[x]
                 IN  /\ Github!Served(r) => \A v \in r.read : r.records = <<versions[v][r.from]>>
                     /\ r.stop = Github!Failed("absent") => \A v \in r.read : r.from > Len(versions[v])
      <3> DEFINE r == reader[x]
      <3>1. RowOpened(versions, r) /\ Underway(versions, faults, r)
        BY DEF CoverageInv, Covered, Honest
      <3>2. Github!Served(r) => r.pc \notin InFlight /\ r.stop.state # "error"
        BY DEF Github!Served, InFlight
      <3>3. r.stop = Github!Failed("absent") => r.pc \notin InFlight
        BY <3>1 DEF Underway, Github!Failed, Github!Running, Github!Complete, Github!Stop
      <3>4. QED
        BY <2>1, <3>1, <3>2, <3>3 DEF RowOpened
    <2>2. QED
      BY <2>1 DEF Github!NumbersOpenRows
  <1>4. Github!ResumesFit
    BY DEF CoverageInv, Covered, Honest, Budgeted, Github!ResumesFit
  <1>5. QED
    BY <1>2, <1>3, <1>4

-----------------------------------------------------------------------------
(* Jira: the state in which tokens are at home *)

JiraFields ==
    {"pc", "target", "begun", "at", "token", "native", "asked", "rows", "visited", "left", "retry",
     "cached", "response", "said", "used", "misled", "next", "why"}

\* A token that a read still has to send belongs to the collection it reads and
\* to the origin its site is bound to.
TokenAtHome(r) ==
    r.pc \in {"parent", "ask_parent", "lookup", "ask"} /\ r.token # Jira!NoToken
    /\ r.target.kind # "projects" =>
        /\ r.token.origin = mount[r.target.site]
        /\ r.token.target = r.target

\* A page that upstream has confirmed is the entry the request was made with.
PagesConfirmed(r) ==
    /\ r.pc = "revalidated" => r.cached.edition = r.said
    /\ \A pair \in r.used : pair[1] = pair[2]

Homely(r) == DOMAIN r = JiraFields /\ TokenAtHome(r) /\ PagesConfirmed(r)

\* A selector's token is its owner's, at the origin the selector names.
SelectorsOwned ==
    \A selector \in selectors :
        /\ selector.token.origin = selector.origin
        /\ selector.token.target = selector.owner

ReadsHomely ==
    /\ DOMAIN read = JiraReaders
    /\ \A r \in JiraReaders : Homely(read[r])

JiraInv == SelectorsOwned /\ ReadsHomely

-----------------------------------------------------------------------------
(* Jira: the steps *)

\* A step of one read leaves the others where they were.
LEMMA JiraMoves ==
    ASSUME ReadsHomely, UNCHANGED mount,
           NEW r \in JiraReaders, NEW s, Jira!Move(r, s), Homely(s)
    PROVE  ReadsHomely'
  <1>1. DOMAIN read' = JiraReaders
    BY DEF ReadsHomely, Jira!Move
  <1>2. ASSUME NEW q \in JiraReaders
        PROVE  Homely(read[q])'
    <2>1. read'[q] = IF q = r THEN s ELSE read[q]
      BY DEF ReadsHomely, Jira!Move
    <2>2. Homely(read'[q])
      BY <2>1 DEF ReadsHomely
    <2>3. QED
      BY <2>2 DEF Homely, TokenAtHome, PagesConfirmed
  <1>3. QED
    BY <1>1, <1>2 DEF ReadsHomely

\* A read that has ended, or has not begun, has no token to send.
LEMMA IdleHomely ==
    /\ DOMAIN Jira!Idle = JiraFields /\ Jira!Idle.pc = "idle"
    /\ Jira!Idle.token = Jira!NoToken /\ Jira!Idle.used = {}
    /\ Homely(Jira!Idle)
  <1>1. /\ DOMAIN Jira!Idle = JiraFields /\ Jira!Idle.pc = "idle"
        /\ Jira!Idle.token = Jira!NoToken /\ Jira!Idle.used = {}
    BY DEF Jira!Idle, JiraFields
  <1>2. QED
    BY <1>1 DEF Homely, TokenAtHome, PagesConfirmed

\* A read that fails keeps no token and no page.
LEMMA JiraFails ==
    ASSUME ReadsHomely, UNCHANGED mount, NEW r \in JiraReaders, NEW why, Jira!Fail(r, why)
    PROVE  ReadsHomely'
  <1> DEFINE s == [Jira!Idle EXCEPT !.pc = "failed", !.why = why]
  <1>1. DOMAIN s = JiraFields /\ s.pc = "failed" /\ s.used = {}
    BY IdleHomely DEF JiraFields
  <1>2. Jira!Move(r, s)
    BY DEF Jira!Fail
  <1> HIDE DEF s
  <1>3. Homely(s)
    BY <1>1 DEF Homely, TokenAtHome, PagesConfirmed
  <1>4. QED
    BY <1>2, <1>3, JiraMoves

\* The next page is asked for with a token of the collection's own.
LEMMA FetchingHomely ==
    ASSUME NEW state, NEW place, NEW token, DOMAIN state = JiraFields,
           \A pair \in state.used : pair[1] = pair[2],
           token # Jira!NoToken /\ state.target.kind # "projects" =>
              token.origin = mount[state.target.site] /\ token.target = state.target
    PROVE  Homely(Jira!Fetching(state, place, token))
  <1> DEFINE s == Jira!Fetching(state, place, token)
  <1>1. /\ DOMAIN s = JiraFields /\ s.pc = "lookup" /\ s.token = token
        /\ s.target = state.target /\ s.used = state.used
    BY DEF Jira!Fetching, JiraFields
  <1> HIDE DEF s
  <1>2. Homely(s)
    BY <1>1 DEF Homely, TokenAtHome, PagesConfirmed
  <1>3. QED
    BY <1>2 DEF s

\* A read begins at the beginning, or with a selector its collection owns.
LEMMA JiraBegins ==
    ASSUME JiraInv, NEW r \in JiraReaders, NEW target, NEW selector,
           selector = Jira!NoToken \/ selector \in selectors,
           Jira!Begin(r, target, selector)
    PROVE  JiraInv'
  <1> DEFINE opened == [Jira!Idle EXCEPT !.target = target]
             resumed == IF selector = Jira!NoToken THEN opened
                        ELSE [opened EXCEPT !.begun = selector.token.at, !.at = selector.token.at,
                                            !.token = selector.token]
             direct == [opened EXCEPT !.pc = "lookup", !.at = Jira!Single]
             parent == [resumed EXCEPT !.pc = "parent"]
  <1>1. UNCHANGED <<mount, selectors>>
    BY DEF Jira!Begin
  <1>2. /\ DOMAIN opened = JiraFields /\ opened.target = target /\ opened.used = {}
        /\ opened.token = Jira!NoToken
    BY IdleHomely DEF JiraFields
  <1> HIDE DEF opened
  <1>3. /\ DOMAIN resumed = JiraFields /\ resumed.target = target /\ resumed.used = {}
        /\ resumed.token = IF selector = Jira!NoToken THEN Jira!NoToken ELSE selector.token
    BY <1>2 DEF JiraFields
  <1>4. Homely(direct)
    <2>1. /\ DOMAIN direct = JiraFields /\ direct.pc = "lookup" /\ direct.used = {}
          /\ direct.token = Jira!NoToken
      BY <1>2 DEF JiraFields
    <2> HIDE DEF direct
    <2>2. QED
      BY <2>1 DEF Homely, TokenAtHome, PagesConfirmed
  <1> HIDE DEF resumed
  <1>5. ASSUME ~(selector # Jira!NoToken /\ target.kind # "projects"
                 /\ ~Jira!Owned(selector, target))
        PROVE  Homely(parent) /\ Homely(Jira!Fetching(resumed, resumed.at, resumed.token))
    <2>1. resumed.token # Jira!NoToken /\ target.kind # "projects" =>
             resumed.token.origin = mount[target.site] /\ resumed.token.target = target
      BY <1>3, <1>5 DEF Jira!Owned, JiraInv, SelectorsOwned
    <2>2. Homely(Jira!Fetching(resumed, resumed.at, resumed.token))
      BY <1>3, <2>1, FetchingHomely
    <2>3. /\ DOMAIN parent = JiraFields /\ parent.pc = "parent" /\ parent.used = {}
          /\ parent.token = resumed.token /\ parent.target = target
      BY <1>3 DEF JiraFields
    <2> HIDE DEF parent
    <2>4. Homely(parent)
      BY <2>1, <2>3 DEF Homely, TokenAtHome, PagesConfirmed
    <2>5. QED
      BY <2>2, <2>4
  <1>6. \/ \E why : Jira!Fail(r, why)
        \/ Jira!Move(r, direct)
        \/ /\ ~(selector # Jira!NoToken /\ target.kind # "projects" /\ ~Jira!Owned(selector, target))
           /\ \/ Jira!Move(r, parent)
              \/ Jira!Move(r, Jira!Fetching(resumed, resumed.at, resumed.token))
    BY Zenon DEF Jira!Begin, opened, resumed
  <1>7. ReadsHomely'
    BY <1>1, <1>4, <1>5, <1>6, JiraMoves, JiraFails DEF JiraInv
  <1>8. QED
    BY <1>1, <1>7 DEF JiraInv, SelectorsOwned

\* The entry is taken before the request is made.
LEMMA JiraLooksUp ==
    ASSUME JiraInv, NEW r \in JiraReaders, Jira!Lookup(r)
    PROVE  JiraInv'
  <1> DEFINE state == read[r]
  <1>1. PICK entry : Jira!Move(r, [state EXCEPT !.cached = entry,
                                     !.pc = IF state.pc = "parent" THEN "ask_parent" ELSE "ask"])
    BY Zenon DEF Jira!Lookup
  <1> DEFINE s == [state EXCEPT !.cached = entry,
                                !.pc = IF state.pc = "parent" THEN "ask_parent" ELSE "ask"]
  <1>2. state.pc \in {"lookup", "parent"} /\ UNCHANGED <<mount, selectors>>
    BY DEF Jira!Lookup
  <1>3. Homely(state)
    BY DEF JiraInv, ReadsHomely
  <1>4. /\ DOMAIN s = JiraFields /\ s.pc \in {"ask_parent", "ask"} /\ s.token = state.token
        /\ s.target = state.target /\ s.used = state.used
    BY <1>3 DEF Homely, JiraFields
  <1> HIDE DEF s
  <1>5. Homely(s)
    BY <1>2, <1>3, <1>4 DEF Homely, TokenAtHome, PagesConfirmed
  <1>6. ReadsHomely'
    BY <1>1, <1>2, <1>5, JiraMoves DEF JiraInv, s
  <1>7. QED
    BY <1>2, <1>6 DEF JiraInv, SelectorsOwned

\* An attempt is charged, and nothing else.
LEMMA ChargedKept ==
    ASSUME NEW state, DOMAIN state = JiraFields, NEW tries
    PROVE  LET s == Jira!Charged(state, tries) IN
           /\ DOMAIN s = JiraFields /\ s.pc = state.pc /\ s.token = state.token
           /\ s.target = state.target /\ s.used = state.used /\ s.cached = state.cached
           /\ s.at = state.at
  BY DEF Jira!Charged, JiraFields

\* Upstream answers; what it confirms is the entry of the request.
LEMMA JiraResponds ==
    ASSUME JiraInv, NEW r \in JiraReaders, NEW tries, Jira!Respond(r, tries)
    PROVE  JiraInv'
  <1> DEFINE state == Jira!Charged(read[r], tries)
             kept == [state EXCEPT !.pc = "revalidated", !.said = edition]
             new(fetched) == [state EXCEPT !.pc = "responded", !.response = fetched, !.said = edition]
  <1>1. UNCHANGED <<mount, selectors>>
    BY DEF Jira!Respond
  <1>2. \/ state.cached.edition = edition /\ Jira!Move(r, kept)
        \/ \E fetched : Jira!Move(r, new(fetched))
    BY Zenon DEF Jira!Respond
  <1>3. Homely(read[r])
    BY DEF JiraInv, ReadsHomely
  <1>4. DOMAIN state = JiraFields /\ state.used = read[r].used /\ state.cached = read[r].cached
    BY <1>3, ChargedKept DEF Homely
  <1> HIDE DEF state
  <1>5. ASSUME state.cached.edition = edition
        PROVE  Homely(kept)
    <2>1. /\ DOMAIN kept = JiraFields /\ kept.pc = "revalidated" /\ kept.said = edition
          /\ kept.cached = state.cached /\ kept.used = state.used
      BY <1>4 DEF JiraFields
    <2> HIDE DEF kept
    <2>2. QED
      BY <1>3, <1>4, <1>5, <2>1 DEF Homely, TokenAtHome, PagesConfirmed
  <1>6. ASSUME NEW fetched
        PROVE  Homely(new(fetched))
    <2> DEFINE n == new(fetched)
    <2>1. DOMAIN n = JiraFields /\ n.pc = "responded" /\ n.used = state.used
      BY <1>4 DEF JiraFields
    <2> HIDE DEF n
    <2>2. Homely(n)
      BY <1>3, <1>4, <2>1 DEF Homely, TokenAtHome, PagesConfirmed
    <2>3. QED
      BY <2>2 DEF n
  <1>7. ReadsHomely'
    BY <1>1, <1>2, <1>5, <1>6, JiraMoves DEF JiraInv
  <1>8. QED
    BY <1>1, <1>7 DEF JiraInv, SelectorsOwned

\* After the parent the read goes on with the token it came with.
LEMMA JiraRespondsParent ==
    ASSUME JiraInv, NEW r \in JiraReaders, NEW tries, Jira!RespondParent(r, tries)
    PROVE  JiraInv'
  <1> DEFINE state == Jira!Charged(read[r], tries)
  <1>1. /\ read[r].pc = "ask_parent" /\ UNCHANGED <<mount, selectors>>
        /\ Jira!Move(r, Jira!Fetching(state, state.at, state.token))
    BY DEF Jira!RespondParent
  <1>2. Homely(read[r])
    BY DEF JiraInv, ReadsHomely
  <1>3. /\ DOMAIN state = JiraFields /\ state.used = read[r].used
        /\ state.token = read[r].token /\ state.target = read[r].target
    BY <1>2, ChargedKept DEF Homely
  <1> HIDE DEF state
  <1>4. Homely(Jira!Fetching(state, state.at, state.token))
    BY <1>1, <1>2, <1>3, FetchingHomely DEF Homely, TokenAtHome, PagesConfirmed
  <1>5. ReadsHomely'
    BY <1>1, <1>4, JiraMoves DEF JiraInv
  <1>6. QED
    BY <1>1, <1>5 DEF JiraInv, SelectorsOwned

\* After a page the read fails, answers with a selector of its own, or asks for
\* the next page with a token of its own.
LEMMA JiraTakes ==
    ASSUME JiraInv, UNCHANGED mount, NEW r \in JiraReaders, NEW state, NEW fetched,
           DOMAIN state = JiraFields, \A pair \in state.used : pair[1] = pair[2],
           Jira!Take(r, state, fetched)
    PROVE  JiraInv'
  <1> DEFINE rows == state.rows \o fetched.rows
             sent == IF state.token = Jira!NoToken THEN state.visited
                     ELSE state.visited \cup {state.token.at}
             taken == [state EXCEPT !.rows = rows, !.visited = sent, !.native = Jira!Settled(state, fetched)]
             token == Jira!Continuation(state.target, fetched.next).token
  <1>1. /\ DOMAIN taken = JiraFields /\ taken.target = state.target /\ taken.used = state.used
    BY DEF JiraFields
  <1> HIDE DEF taken
  <1>2. \/ (\E why : Jira!Fail(r, why)) /\ UNCHANGED selectors
        \/ \E all, next : Jira!Answer(r, taken, all, next)
        \/ Jira!Move(r, Jira!Fetching(taken, fetched.next, token)) /\ UNCHANGED selectors
    BY Zenon DEF Jira!Take, taken
  <1>3. CASE (\E why : Jira!Fail(r, why)) /\ UNCHANGED selectors
    BY <1>3, JiraFails DEF JiraInv, SelectorsOwned
  <1>4. CASE \E all, next : Jira!Answer(r, taken, all, next)
    <2>1. PICK all, next : Jira!Answer(r, taken, all, next)
      BY <1>4
    <2> DEFINE s == [Jira!Idle EXCEPT !.pc = "answered", !.target = taken.target,
                        !.begun = taken.begun, !.rows = Jira!Arranged(taken.target, all),
                        !.next = next, !.used = taken.used, !.misled = taken.misled]
    <2>2. /\ Jira!Move(r, s)
          /\ selectors' = IF next = Jira!End THEN selectors
                          ELSE selectors \cup {Jira!Continuation(taken.target, next)}
      BY <2>1 DEF Jira!Answer
    <2>3. DOMAIN s = JiraFields /\ s.pc = "answered" /\ s.used = taken.used
      BY IdleHomely DEF JiraFields
    <2> HIDE DEF s
    <2>4. Homely(s)
      BY <1>1, <2>3 DEF Homely, TokenAtHome, PagesConfirmed
    <2>5. ReadsHomely'
      BY <2>2, <2>4, JiraMoves DEF JiraInv
    <2>6. SelectorsOwned'
      BY <2>2 DEF JiraInv, SelectorsOwned, Jira!Continuation
    <2>7. QED
      BY <2>5, <2>6 DEF JiraInv
  <1>5. CASE Jira!Move(r, Jira!Fetching(taken, fetched.next, token)) /\ UNCHANGED selectors
    <2>1. token.origin = mount[state.target.site] /\ token.target = state.target
      BY DEF Jira!Continuation
    <2> HIDE DEF token
    <2>2. Homely(Jira!Fetching(taken, fetched.next, token))
      BY <1>1, <2>1, FetchingHomely
    <2>3. QED
      BY <1>5, <2>2, JiraMoves DEF JiraInv, SelectorsOwned
  <1>6. QED
    BY <1>2, <1>3, <1>4, <1>5

\* The answer to a request is a page that was confirmed or is new.
LEMMA JiraRevalidates ==
    ASSUME JiraInv, NEW r \in JiraReaders, Jira!Revalidate(r)
    PROVE  JiraInv'
  <1> DEFINE state == read[r]
             s == [state EXCEPT !.used = @ \cup {<<Jira!Kept(state).edition, state.said>>},
                      !.misled = IF Jira!Kept(state).page \in Jira!Honest(state) \cup Jira!Lies(state)
                                 THEN @ ELSE TRUE]
  <1>1. state.pc = "revalidated" /\ UNCHANGED mount /\ Jira!Take(r, s, Jira!Kept(state).page)
    BY DEF Jira!Revalidate
  <1>2. Homely(state)
    BY DEF JiraInv, ReadsHomely
  <1>3. /\ DOMAIN s = JiraFields
        /\ s.used = state.used \cup {<<Jira!Kept(state).edition, state.said>>}
    BY <1>2 DEF Homely, JiraFields
  <1> HIDE DEF s
  <1>4. \A pair \in s.used : pair[1] = pair[2]
    BY <1>1, <1>2, <1>3 DEF Homely, PagesConfirmed, Jira!Kept
  <1>5. QED
    BY <1>1, <1>3, <1>4, JiraTakes

\* A page that is put in the cache is the one that was asked for.
LEMMA JiraStores ==
    ASSUME JiraInv, NEW r \in JiraReaders, NEW kept, Jira!Store(r, kept)
    PROVE  JiraInv'
  <1> DEFINE state == read[r]
             s == [state EXCEPT !.used = @ \cup {<<state.said, state.said>>}]
  <1>1. UNCHANGED mount /\ Jira!Take(r, s, state.response)
    BY DEF Jira!Store
  <1>2. Homely(state)
    BY DEF JiraInv, ReadsHomely
  <1>3. DOMAIN s = JiraFields /\ s.used = state.used \cup {<<state.said, state.said>>}
    BY <1>2 DEF Homely, JiraFields
  <1> HIDE DEF s
  <1>4. \A pair \in s.used : pair[1] = pair[2]
    BY <1>2, <1>3 DEF Homely, PagesConfirmed
  <1>5. QED
    BY <1>1, <1>3, <1>4, JiraTakes

\* Every step keeps tokens at home; another server begins with no read, and
\* finds the selectors as they were.
LEMMA JiraStep ==
    ASSUME JiraInv, Jira!JiraNext
    PROVE  JiraInv'
  <1>1. ASSUME NEW r \in JiraReaders, NEW target, NEW selector,
               selector = Jira!NoToken \/ selector \in selectors, Jira!Begin(r, target, selector)
        PROVE  JiraInv'
    BY <1>1, JiraBegins
  <1>2. ASSUME NEW r \in JiraReaders,
               \/ Jira!Lookup(r) \/ Jira!Revalidate(r)
               \/ \E tries \in 1..2 : Jira!Respond(r, tries) \/ Jira!RespondParent(r, tries)
               \/ \E kept \in BOOLEAN : Jira!Store(r, kept)
        PROVE  JiraInv'
    BY <1>2, JiraLooksUp, JiraRevalidates, JiraResponds, JiraRespondsParent, JiraStores
  <1>3. ASSUME NEW r \in JiraReaders, Jira!Break(r) \/ Jira!Exhaust(r)
        PROVE  JiraInv'
    <2>1. (\E why : Jira!Fail(r, why)) /\ UNCHANGED <<mount, selectors>>
      BY <1>3 DEF Jira!Break, Jira!Exhaust
    <2>2. QED
      BY <2>1, JiraFails DEF JiraInv, SelectorsOwned
  <1>4. ASSUME Jira!Edit \/ \E entry \in pages : Jira!Evict(entry)
        PROVE  JiraInv'
    <2>1. UNCHANGED <<mount, selectors, read>>
      BY <1>4 DEF Jira!Edit, Jira!Evict
    <2>2. QED
      BY <2>1 DEF JiraInv, SelectorsOwned, ReadsHomely, Homely, TokenAtHome, PagesConfirmed
  <1>5. ASSUME Jira!Remount
        PROVE  JiraInv'
    <2>1. read' = [r \in JiraReaders |-> Jira!Idle] /\ UNCHANGED selectors
      BY <1>5 DEF Jira!Remount
    <2>2. ASSUME NEW r \in JiraReaders
          PROVE  Homely(read[r])'
      BY <2>1, IdleHomely DEF Homely, TokenAtHome, PagesConfirmed
    <2>3. QED
      BY <2>1, <2>2 DEF JiraInv, SelectorsOwned, ReadsHomely
  <1>6. QED
    BY <1>1, <1>2, <1>3, <1>4, <1>5, Zenon DEF Jira!JiraNext

\* The reads begin idle, and no selector is out.
LEMMA JiraBeginning ==
    ASSUME Jira!JiraInit
    PROVE  JiraInv
  BY IdleHomely DEF Jira!JiraInit, JiraInv, SelectorsOwned, ReadsHomely

\* A step of another part changes nothing here.
LEMMA JiraStays ==
    ASSUME JiraInv, UNCHANGED jiraVars
    PROVE  JiraInv'
  BY DEF jiraVars, JiraInv, SelectorsOwned, ReadsHomely, Homely, TokenAtHome, PagesConfirmed

\* The invariant says what the properties say.
LEMMA JiraAtHome ==
    ASSUME JiraInv
    PROVE  Jira!TokensStayHome /\ Jira!PagesCurrent
  BY DEF JiraInv, ReadsHomely, Homely, TokenAtHome, PagesConfirmed, Jira!TokensStayHome,
         Jira!PagesCurrent

-----------------------------------------------------------------------------
(* Jira: the rows a read has *)

\* Where a page of a collection may begin.
Positions == {n \in Nat : n < Len(Order)}

Paged(p) == p.rows \in Seq(Int) /\ p.max \in Int /\ p.next \in Positions \cup {Jira!End}

Sending == {"parent", "ask_parent", "lookup", "ask", "responded", "revalidated"}

\* Wherever a read is, has been or is sent, a page begins, whatever upstream said.
Located(r) ==
    /\ r.begun \in Positions /\ r.visited \subseteq Positions
    /\ r.at \in Positions \cup {Jira!Single}
    /\ ~Jira!Direct(r.target) \/ r.pc \in {"parent", "ask_parent"} => r.at \in Positions
    /\ r.native \in Int /\ r.asked \in Int
    /\ r.token # Jira!NoToken => r.token.at \in Positions
    /\ r.pc \in Sending => r.rows \in Seq(Int)
    /\ Paged(r.cached.page) /\ Paged(r.response)

\* The rows of a read are those from where it began to where it is, no more than
\* it may have, and it has been nowhere beyond.
Gapless(r) ==
    /\ r.begun <= r.at /\ r.at - r.begun <= JiraRecords
    /\ r.rows = SubSeq(Order, r.begun + 1, r.at)
    /\ \A p \in r.visited : p <= r.at
    /\ r.token # Jira!NoToken => r.token.at <= r.at

\* So it is until it ends, unless it took a page that is odd only to another; it
\* asks for no more than it may have, and is sent what upstream can send.
Exact(r) ==
    r.pc \in Sending /\ ~Jira!Direct(r.target) /\ ~r.misled =>
        /\ Gapless(r)
        /\ r.pc \notin {"parent", "ask_parent"} => r.asked <= JiraRecords - (r.at - r.begun)
        /\ r.pc = "responded" => r.response \in Jira!Honest(r) \cup Jira!Lies(r)

\* An answer is the rows from where the read began to where it goes on.
Whole(r) ==
    r.pc = "answered" /\ ~Jira!Direct(r.target) /\ ~r.misled =>
        LET end == IF r.next = Jira!End THEN Len(Order) ELSE r.next
            rows == SubSeq(Order, r.begun + 1, end)
        IN r.rows = Jira!Arranged(r.target, rows) /\ Len(rows) <= JiraRecords

Rowed(r) == Located(r) /\ Exact(r) /\ Whole(r)

RowsInv ==
    /\ \A entry \in pages : Paged(entry.page)
    /\ \A selector \in selectors : selector.token.at \in Positions
    /\ \A r \in JiraReaders : Rowed(read[r])

-----------------------------------------------------------------------------
(* Jira: slices of a collection *)

\* A slice of the collection is as long as its ends are apart.
LEMMA SliceOf ==
    ASSUME NEW a \in Nat, NEW b \in Nat, a <= b, b <= Len(Order)
    PROVE  /\ SubSeq(Order, a + 1, b) \in Seq(Nat)
           /\ Len(SubSeq(Order, a + 1, b)) = b - a
           /\ \A i \in 1..(b - a) : SubSeq(Order, a + 1, b)[i] = Order[a + i]
  <1>1. Order \in Seq(Nat)
    BY RecordAssumption
  <1>2. a + 1 \in 1..(Len(Order) + 1) /\ b \in 0..Len(Order)
    BY <1>1
  <1>3. QED
    BY <1>1, <1>2

\* Two slices that meet are one.
LEMMA SlicesMeet ==
    ASSUME NEW a \in Nat, NEW b \in Nat, NEW c \in Nat, a <= b, b <= c, c <= Len(Order)
    PROVE  SubSeq(Order, a + 1, b) \o SubSeq(Order, b + 1, c) = SubSeq(Order, a + 1, c)
  <1>1. Order \in Seq(Nat)
    BY RecordAssumption
  <1>2. a + 1 \in 1..Len(Order) + 1 /\ b \in (a + 1) - 1..Len(Order) /\ c \in b..Len(Order)
    BY <1>1
  <1>3. QED
    BY <1>1, <1>2, ConcatAdjacentSubSeq

-----------------------------------------------------------------------------
(* Jira: pages *)

\* What upstream can send depends on where the read is and on what it has.
LEMMA SamePages ==
    ASSUME NEW s, NEW t, s.at = t.at, s.asked = t.asked, s.rows = t.rows,
           s.visited = t.visited, s.target = t.target
    PROVE  Jira!Honest(s) = Jira!Honest(t) /\ Jira!Lies(s) = Jira!Lies(t)
  BY DEF Jira!Honest, Jira!Lies

\* An honest page is a slice that begins where it was asked for.
LEMMA HonestSlice ==
    ASSUME NEW s, NEW p, s.at \in Positions, s.asked \in Int, p \in Jira!Honest(s)
    PROVE  \E n \in Nat :
              /\ n <= s.asked /\ s.at + n <= Len(Order)
              /\ p.rows = SubSeq(Order, s.at + 1, s.at + n) /\ p.max \in Int
              /\ p.next = IF s.at + n < Len(Order) THEN s.at + n ELSE Jira!End
  <1>1. Order \in Seq(Nat) /\ Len(Order) \in Nat /\ s.at \in Nat /\ s.at < Len(Order)
    BY RecordAssumption DEF Positions
  <1>2. s.at # Jira!Single
    BY <1>1 DEF Jira!Single
  <1>3. PICK most \in 1..s.asked, told \in BOOLEAN :
            p = LET n == Jira!Lower(most, Len(Order) - s.at)
                IN [rows |-> SubSeq(Order, s.at + 1, s.at + n), max |-> IF told THEN most ELSE 0,
                    next |-> IF s.at + n < Len(Order) THEN s.at + n ELSE Jira!End]
    BY <1>2 DEF Jira!Honest
  <1> DEFINE n == Jira!Lower(most, Len(Order) - s.at)
  <1>4. n \in Nat /\ n <= s.asked /\ s.at + n <= Len(Order)
    BY SMTT(30), <1>1, <1>3 DEF Jira!Lower
  <1>5. /\ p.rows = SubSeq(Order, s.at + 1, s.at + n)
        /\ p.max = IF told THEN most ELSE 0
        /\ p.next = IF s.at + n < Len(Order) THEN s.at + n ELSE Jira!End
    BY <1>3
  <1> HIDE DEF n
  <1>6. p.max \in Int
    BY <1>3, <1>5
  <1>7. QED
    BY <1>4, <1>5, <1>6

\* What an odd page may be.
LEMMA LieOf ==
    ASSUME NEW s, NEW p, s.at \in Positions, p \in Jira!Lies(s)
    PROVE  LET after == IF s.at + 1 < Len(Order) THEN s.at + 1 ELSE Jira!End
               row == SubSeq(Order, s.at + 1, s.at + 1)
           IN \/ p.rows = SubSeq(Order, s.at + 1, Len(Order)) /\ p.next = Jira!End /\ p.max = 1
              \/ p.rows = row /\ p.next = after /\ p.max = s.asked + 1
              \/ p.rows = <<>> /\ p.next = s.at /\ p.max = 1
              \/ \E old \in Jira!Range(s.rows) : p.rows = <<old>> /\ p.next = after /\ p.max = 1
              \/ p.rows = row /\ p.next \in s.visited /\ p.max = 1
              \/ s.target.parent /\ p.rows = <<0>> /\ p.next = after /\ p.max = 1
  <1>1. s.at # Jira!Single
    BY DEF Jira!Single, Positions
  <1> DEFINE after == IF s.at + 1 < Len(Order) THEN s.at + 1 ELSE Jira!End
             row == SubSeq(Order, s.at + 1, s.at + 1)
             one == [rows |-> row, next |-> after, max |-> 1]
  <1>2. \/ p = [one EXCEPT !.rows = SubSeq(Order, s.at + 1, Len(Order)), !.next = Jira!End]
        \/ p = [one EXCEPT !.max = s.asked + 1]
        \/ p = [one EXCEPT !.rows = <<>>, !.next = s.at]
        \/ \E old \in Jira!Range(s.rows) : p = [one EXCEPT !.rows = <<old>>]
        \/ \E place \in s.visited : p = [one EXCEPT !.next = place]
        \/ s.target.parent /\ p = [one EXCEPT !.rows = <<0>>]
    BY <1>1, Zenon DEF Jira!Lies
  <1> HIDE DEF after, row
  <1>3. QED
    BY <1>2 DEF after, row

\* Every page, odd or not, goes on where a page may begin.
LEMMA EveryPagePaged ==
    ASSUME NEW s, NEW p, s.at \in Positions \cup {Jira!Single}, s.asked \in Int,
           s.visited \subseteq Positions, s.rows \in Seq(Int),
           p \in Jira!Honest(s) \cup Jira!Lies(s)
    PROVE  Paged(p)
  <1>1. Order \in Seq(Nat) /\ Len(Order) \in Nat /\ Len(Order) > 0 /\ Order[1] \in Int
    BY RecordAssumption
  <1>2. CASE s.at = Jira!Single
    <2>1. \/ p = [Jira!NoPage EXCEPT !.rows = <<Order[1]>>]
          \/ p = [Jira!NoPage EXCEPT !.rows = <<0>>]
      BY <1>2 DEF Jira!Honest, Jira!Lies
    <2>2. p.rows \in {<<Order[1]>>, <<0>>} /\ p.max = 0 /\ p.next = Jira!End
      BY <2>1 DEF Jira!NoPage
    <2>3. <<Order[1]>> \in Seq(Int) /\ <<0>> \in Seq(Int)
      BY <1>1
    <2>4. p.rows \in Seq(Int)
      BY <2>2, <2>3, Zenon
    <2>5. QED
      BY <2>2, <2>4 DEF Paged
  <1>3. CASE s.at \in Positions /\ p \in Jira!Honest(s)
    <2>1. PICK n \in Nat :
              /\ n <= s.asked /\ s.at + n <= Len(Order)
              /\ p.rows = SubSeq(Order, s.at + 1, s.at + n) /\ p.max \in Int
              /\ p.next = IF s.at + n < Len(Order) THEN s.at + n ELSE Jira!End
      BY <1>3, HonestSlice
    <2>2. s.at \in Nat /\ s.at + n \in Nat /\ s.at <= s.at + n
      BY <1>3 DEF Positions
    <2>3. p.rows \in Seq(Nat)
      BY <2>1, <2>2, SliceOf
    <2>4. p.next \in Positions \cup {Jira!End}
      BY <2>1, <2>2 DEF Positions
    <2>5. QED
      BY <2>1, <2>3, <2>4 DEF Paged
  <1>4. CASE s.at \in Positions /\ p \in Jira!Lies(s)
    <2> DEFINE after == IF s.at + 1 < Len(Order) THEN s.at + 1 ELSE Jira!End
               row == SubSeq(Order, s.at + 1, s.at + 1)
               rest == SubSeq(Order, s.at + 1, Len(Order))
    <2>1. s.at \in Nat /\ s.at < Len(Order)
      BY <1>4 DEF Positions
    <2>2. row \in Seq(Nat) /\ rest \in Seq(Nat)
      BY <1>1, <2>1, SliceOf
    <2>3. after \in Positions \cup {Jira!End}
      BY <1>1, <2>1 DEF Positions
    <2>4. \A old \in Jira!Range(s.rows) : <<old>> \in Seq(Int)
      BY DEF Jira!Range
    <2>5. /\ p.rows \in {row, rest, <<>>, <<0>>} \/ \E old \in Jira!Range(s.rows) : p.rows = <<old>>
          /\ p.next = Jira!End \/ p.next = after \/ p.next = s.at \/ p.next \in s.visited
          /\ p.max = 1 \/ p.max = s.asked + 1
      BY <1>4, LieOf, Zenon
    <2> HIDE DEF after, row, rest
    <2>6. p.rows \in Seq(Int)
      <3>1. row \in Seq(Int) /\ rest \in Seq(Int) /\ <<>> \in Seq(Int) /\ <<0>> \in Seq(Int)
        BY <2>2
      <3>2. QED
        BY <2>4, <2>5, <3>1, Zenon
    <2>7. p.next \in Positions \cup {Jira!End} /\ p.max \in Int
      BY <1>4, <2>3, <2>5
    <2>8. QED
      BY <2>6, <2>7 DEF Paged
  <1>5. QED
    BY <1>2, <1>3, <1>4

\* A page that is not refused is a slice of what is asked for, however odd it is:
\* what a read cannot see at once is not in it.
LEMMA PageExact ==
    ASSUME NEW s, NEW t, NEW p, s.at \in Positions, s.asked \in Int, s.visited \subseteq t.visited,
           \A place \in s.visited : place \in Positions /\ place <= s.at, s.rows \in Seq(Int),
           t.at = s.at, t.asked = s.asked, t.rows = s.rows, t.target = s.target,
           ~Jira!Direct(s.target), ~Jira!Refused(t, p), p \in Jira!Honest(s) \cup Jira!Lies(s)
    PROVE  LET end == IF p.next = Jira!End THEN Len(Order) ELSE p.next IN
           /\ end \in Nat /\ s.at <= end /\ end <= Len(Order) /\ end - s.at <= s.asked
           /\ p.rows = SubSeq(Order, s.at + 1, end)
  <1> DEFINE end == IF p.next = Jira!End THEN Len(Order) ELSE p.next
  <1>1. Order \in Seq(Nat) /\ Len(Order) \in Nat /\ s.at \in Nat /\ s.at < Len(Order)
    BY RecordAssumption DEF Positions
  <1>2. /\ ~(Len(p.rows) > s.asked)
        /\ ~(s.target.kind = "projects" /\ p.next # Jira!End /\ p.next <= s.at)
        /\ ~(s.target.parent /\ 0 \in Jira!Range(p.rows))
        /\ Jira!IsInjective(s.rows \o p.rows)
        /\ ~(s.target.kind # "projects" /\ p.next \in t.visited)
    BY Zenon DEF Jira!Refused, Jira!Repeated
  <1>3. \A n \in Nat : n # Jira!End
    BY DEF Jira!End
  <1>4. CASE p \in Jira!Honest(s)
    <2>1. PICK n \in Nat :
              /\ n <= s.asked /\ s.at + n <= Len(Order)
              /\ p.rows = SubSeq(Order, s.at + 1, s.at + n) /\ p.max \in Int
              /\ p.next = IF s.at + n < Len(Order) THEN s.at + n ELSE Jira!End
      BY <1>4, HonestSlice
    <2>2. s.at + n \in Nat /\ s.at <= s.at + n /\ (s.at + n) - s.at <= s.asked
      BY <1>1, <2>1
    <2>3. end = s.at + n
      BY <1>1, <1>3, <2>1, <2>2
    <2>4. QED
      BY <2>1, <2>2, <2>3
  <1>5. CASE p \in Jira!Lies(s)
    <2> DEFINE after == IF s.at + 1 < Len(Order) THEN s.at + 1 ELSE Jira!End
               row == SubSeq(Order, s.at + 1, s.at + 1)
               rest == SubSeq(Order, s.at + 1, Len(Order))
    <2>1. \/ p.rows = rest /\ p.next = Jira!End
          \/ p.rows = row /\ p.next = after
          \/ p.rows = <<>> /\ p.next = s.at
          \/ \E old \in Jira!Range(s.rows) : p.rows = <<old>>
          \/ p.next \in s.visited
          \/ s.target.parent /\ p.rows = <<0>>
      BY <1>5, LieOf, Zenon
    <2>2. /\ Len(row) = 1 /\ Len(rest) = Len(Order) - s.at
          /\ SubSeq(Order, s.at + 1, s.at) = <<>>
      BY SMTT(30), <1>1, SliceOf
    <2>3. after # Jira!End => after = s.at + 1
      OBVIOUS
    <2>4. after = Jira!End => Len(Order) = s.at + 1
      BY <1>1, <1>3
    <2> HIDE DEF after, row
    <2>5. CASE p.rows = rest /\ p.next = Jira!End
      <3>1. end = Len(Order) /\ end - s.at <= s.asked
        BY <1>1, <1>2, <2>2, <2>5
      <3>2. QED
        BY <1>1, <2>5, <3>1
    <2>6. CASE p.rows = row /\ p.next = after
      <3>1. end = s.at + 1
        BY <1>3, <2>3, <2>4, <2>6
      <3>2. end \in Nat /\ s.at <= end /\ end <= Len(Order)
        BY <1>1, <3>1
      <3>3. end - s.at <= s.asked
        <4>1. Len(p.rows) = 1
          BY <2>2, <2>6
        <4>2. QED
          BY <1>1, <1>2, <3>1, <4>1
      <3>4. QED
        BY <2>6, <3>1, <3>2, <3>3 DEF row
    <2>7. CASE p.rows = <<>> /\ p.next = s.at
      <3>1. end = s.at
        BY <1>1, <1>3, <2>7
      <3>2. end - s.at <= s.asked
        <4>1. Len(p.rows) = 0
          BY <2>7
        <4>2. QED
          BY <1>1, <1>2, <3>1, <4>1
      <3>3. p.rows = SubSeq(Order, s.at + 1, end)
        BY <2>2, <2>7, <3>1
      <3>4. QED
        BY <1>1, <3>1, <3>2, <3>3
    <2>8. CASE \E old \in Jira!Range(s.rows) : p.rows = <<old>>
      <3>1. PICK i \in 1..Len(s.rows) : p.rows = <<s.rows[i]>>
        BY <2>8 DEF Jira!Range
      <3>2. p.rows \in Seq(Int) /\ Len(p.rows) = 1 /\ p.rows[1] = s.rows[i]
        BY <3>1
      <3> DEFINE all == s.rows \o p.rows
                 m == Len(s.rows)
      <3>3. m \in Nat /\ i <= m /\ i \in 1..(m + 1)
        OBVIOUS
      <3>4. /\ all \in Seq(Int) /\ Len(all) = m + Len(p.rows)
            /\ \A j \in 1..m + Len(p.rows) : all[j] = IF j <= m THEN s.rows[j] ELSE p.rows[j - m]
        BY <3>2, ConcatProperties, Zenon
      <3>5. Jira!IsInjective(all)
        BY <1>2
      <3> HIDE DEF all, m
      <3>6. /\ all[i] = s.rows[i] /\ all[m + 1] = p.rows[1]
            /\ DOMAIN all = 1..(m + 1)
        <4>1. i \in 1..m + Len(p.rows) /\ m + 1 \in 1..m + Len(p.rows) /\ (m + 1) - m = 1 /\ ~(m + 1 <= m)
          BY <3>2, <3>3
        <4>2. QED
          BY <3>2, <3>3, <3>4, <4>1
      <3>7. \A j, k \in 1..(m + 1) : all[j] = all[k] => j = k
        BY <3>5, <3>6, Zenon DEF Jira!IsInjective
      <3>8. i = m + 1
        BY <3>2, <3>3, <3>6, <3>7
      <3>9. QED
        BY <3>3, <3>8
    <2>9. CASE p.next \in s.visited
      <3>1. p.next \in Nat /\ p.next <= s.at /\ p.next \in t.visited
        BY <2>9 DEF Positions
      <3>2. QED
        BY <1>2, <1>3, <3>1
    <2>10. CASE s.target.parent /\ p.rows = <<0>>
      <3>1. 0 \in Jira!Range(p.rows)
        BY <2>10 DEF Jira!Range
      <3>2. QED
        BY <1>2, <2>10, <3>1
    <2>11. QED
      BY <2>1, <2>5, <2>6, <2>7, <2>8, <2>9, <2>10
  <1>6. QED
    BY <1>4, <1>5

-----------------------------------------------------------------------------
(* Jira: the steps of a read *)

\* A step of one read leaves the rows of the others alone.
LEMMA RowsMove ==
    ASSUME JiraInv, RowsInv, NEW r \in JiraReaders, NEW s, Jira!Move(r, s), Rowed(s)
    PROVE  \A q \in JiraReaders : Rowed(read'[q])
  <1>1. \A q \in JiraReaders : read'[q] = IF q = r THEN s ELSE read[q]
    BY DEF JiraInv, ReadsHomely, Jira!Move
  <1>2. QED
    BY <1>1, Zenon DEF RowsInv

\* A read that has not begun, and one that fails, are nowhere yet.
LEMMA IdleLocated ==
    /\ DOMAIN Jira!Idle = JiraFields /\ Jira!Idle.begun = 0 /\ Jira!Idle.at = 0
    /\ Jira!Idle.rows = <<>> /\ Jira!Idle.visited = {} /\ Jira!Idle.native = Native
    /\ Jira!Idle.pc = "idle" /\ Jira!Idle.token = Jira!NoToken
    /\ 0 \in Positions /\ Paged(Jira!NoPage) /\ Located(Jira!Idle)
  <1>1. 0 \in Positions /\ Native \in Int
    BY RecordAssumption DEF Positions
  <1>2. Paged(Jira!NoPage)
    BY DEF Jira!NoPage, Paged
  <1>3. /\ DOMAIN Jira!Idle = JiraFields /\ Jira!Idle.begun = 0 /\ Jira!Idle.at = 0
        /\ Jira!Idle.rows = <<>> /\ Jira!Idle.visited = {} /\ Jira!Idle.native = Native
        /\ Jira!Idle.pc = "idle" /\ Jira!Idle.token = Jira!NoToken /\ Jira!Idle.asked = 1
        /\ Jira!Idle.cached.page = Jira!NoPage /\ Jira!Idle.response = Jira!NoPage
    BY DEF Jira!Idle, JiraFields, Jira!Start, Jira!NoEntry
  <1>4. Located(Jira!Idle)
    BY <1>1, <1>2, <1>3 DEF Located
  <1>5. QED
    BY <1>1, <1>2, <1>3, <1>4

LEMMA FailRowed ==
    ASSUME NEW why
    PROVE  Rowed([Jira!Idle EXCEPT !.pc = "failed", !.why = why]) /\ Rowed(Jira!Idle)
  <1> DEFINE s == [Jira!Idle EXCEPT !.pc = "failed", !.why = why]
  <1>1. /\ s.pc = "failed" /\ s.begun = Jira!Idle.begun /\ s.visited = Jira!Idle.visited
        /\ s.at = Jira!Idle.at /\ s.target = Jira!Idle.target /\ s.native = Jira!Idle.native
        /\ s.asked = Jira!Idle.asked /\ s.token = Jira!Idle.token /\ s.rows = Jira!Idle.rows
        /\ s.cached = Jira!Idle.cached /\ s.response = Jira!Idle.response
    BY IdleLocated DEF JiraFields
  <1> HIDE DEF s
  <1>2. Located(s)
    BY <1>1, IdleLocated DEF Located, Sending
  <1>3. Exact(s) /\ Whole(s)
    BY <1>1 DEF Exact, Whole, Sending
  <1>4. Exact(Jira!Idle) /\ Whole(Jira!Idle)
    BY IdleLocated DEF Exact, Whole, Sending
  <1>5. Rowed(s)
    BY <1>2, <1>3 DEF Rowed
  <1>6. QED
    BY <1>4, <1>5, IdleLocated DEF Rowed, s

\* A read that asks for the next page has the rows before it.
LEMMA FetchingRowed ==
    ASSUME NEW state, NEW place \in Positions, NEW token, DOMAIN state = JiraFields,
           state.begun \in Positions, state.visited \subseteq Positions, state.native \in Int,
           state.rows \in Seq(Int), token # Jira!NoToken => token.at \in Positions,
           ~Jira!Direct(state.target) /\ ~state.misled =>
              /\ state.begun <= place /\ place - state.begun <= JiraRecords
              /\ state.rows = SubSeq(Order, state.begun + 1, place)
              /\ \A p \in state.visited : p <= place
              /\ token # Jira!NoToken => token.at <= place
    PROVE  Rowed(Jira!Fetching(state, place, token))
  <1> DEFINE s == Jira!Fetching(state, place, token)
  <1>1. /\ s.pc = "lookup" /\ s.begun = state.begun /\ s.visited = state.visited
        /\ s.at = place /\ s.target = state.target /\ s.native = state.native
        /\ s.asked = Jira!Lower(state.native, JiraRecords - Len(state.rows))
        /\ s.token = token /\ s.rows = state.rows /\ s.misled = state.misled
        /\ s.cached = Jira!NoEntry /\ s.response = Jira!NoPage
    BY DEF Jira!Fetching, JiraFields
  <1> HIDE DEF s
  <1>2. Len(state.rows) \in Nat /\ JiraRecords \in Nat /\ Len(Order) \in Nat
    BY RecordAssumption
  <1>3. s.asked \in Int /\ s.asked <= JiraRecords - Len(state.rows)
    BY <1>1, <1>2 DEF Jira!Lower
  <1>4. Paged(s.cached.page) /\ Paged(s.response)
    BY <1>1, IdleLocated DEF Jira!NoEntry
  <1>5. Located(s)
    BY <1>1, <1>3, <1>4 DEF Located
  <1>6. ASSUME ~Jira!Direct(s.target), ~s.misled
        PROVE  Gapless(s) /\ s.asked <= JiraRecords - (s.at - s.begun)
    <2>1. Gapless(s)
      BY <1>1, <1>6 DEF Gapless
    <2>2. s.begun \in Nat /\ s.at \in Nat /\ s.at <= Len(Order) /\ s.begun <= s.at
      BY <1>1, <1>2, <2>1 DEF Positions, Gapless
    <2>3. Len(s.rows) = s.at - s.begun
      BY <2>1, <2>2, SliceOf DEF Gapless
    <2>4. QED
      BY <1>1, <1>3, <2>1, <2>3
  <1>7. Exact(s) /\ Whole(s)
    BY <1>1, <1>6 DEF Exact, Whole
  <1>8. Rowed(s)
    BY <1>5, <1>7 DEF Rowed
  <1>9. QED
    BY <1>8 DEF s

\* A read begins with no row, where a page begins.
LEMMA RowsBegin ==
    ASSUME JiraInv, RowsInv, NEW r \in JiraReaders, NEW target, NEW selector,
           selector = Jira!NoToken \/ selector \in selectors,
           Jira!Begin(r, target, selector)
    PROVE  RowsInv'
  <1> DEFINE opened == [Jira!Idle EXCEPT !.target = target]
             resumed == IF selector = Jira!NoToken THEN opened
                        ELSE [opened EXCEPT !.begun = selector.token.at, !.at = selector.token.at,
                                            !.token = selector.token]
             direct == [opened EXCEPT !.pc = "lookup", !.at = Jira!Single]
             parent == [resumed EXCEPT !.pc = "parent"]
  <1>1. UNCHANGED <<pages, selectors>>
    BY DEF Jira!Begin
  <1>2. \/ \E why : Jira!Fail(r, why)
        \/ Jira!Direct(target) /\ Jira!Move(r, direct)
        \/ Jira!Move(r, parent)
        \/ Jira!Move(r, Jira!Fetching(resumed, resumed.at, resumed.token))
    BY Zenon DEF Jira!Begin, opened, resumed
  <1>3. /\ DOMAIN opened = JiraFields /\ opened.target = target /\ opened.begun = 0
        /\ opened.at = 0 /\ opened.rows = <<>> /\ opened.visited = {} /\ opened.native = Native
        /\ opened.token = Jira!NoToken /\ opened.asked = Jira!Idle.asked
        /\ opened.cached = Jira!Idle.cached /\ opened.response = Jira!Idle.response
    BY IdleLocated DEF JiraFields
  <1>4. 0 \in Positions /\ Native \in Int /\ JiraRecords \in Nat /\ Jira!Idle.asked \in Int
        /\ Paged(Jira!Idle.cached.page) /\ Paged(Jira!Idle.response)
    BY IdleLocated, RecordAssumption DEF Located
  <1> HIDE DEF opened
  <1>5. Jira!Direct(target) => Rowed(direct)
    <2>1. /\ direct.target = target /\ direct.begun = 0 /\ direct.pc = "lookup"
          /\ direct.at = Jira!Single /\ direct.rows = <<>> /\ direct.visited = {}
          /\ direct.native = Native /\ direct.token = Jira!NoToken
          /\ direct.asked = opened.asked
          /\ direct.cached = opened.cached /\ direct.response = opened.response
      BY <1>3 DEF JiraFields
    <2> HIDE DEF direct
    <2>2. Jira!Direct(target) => Located(direct)
      BY <1>3, <1>4, <2>1 DEF Located
    <2>3. Jira!Direct(target) => Exact(direct) /\ Whole(direct)
      BY <2>1 DEF Exact, Whole
    <2>4. QED
      BY <2>2, <2>3 DEF Rowed
  <1>6. /\ DOMAIN resumed = JiraFields /\ resumed.target = target
        /\ resumed.begun \in Positions /\ resumed.at = resumed.begun
        /\ resumed.rows = <<>> /\ resumed.visited = {} /\ resumed.native = Native
        /\ resumed.token # Jira!NoToken => resumed.token.at = resumed.at
        /\ resumed.asked = opened.asked
        /\ resumed.cached = opened.cached /\ resumed.response = opened.response
    <2>1. CASE selector = Jira!NoToken
      BY <1>3, <1>4, <2>1
    <2>2. CASE selector # Jira!NoToken
      <3>1. selector.token.at \in Positions
        BY <2>2 DEF RowsInv
      <3>2. QED
        BY <1>3, <2>2, <3>1 DEF JiraFields
    <2>3. QED
      BY <2>1, <2>2
  <1> HIDE DEF resumed
  <1>7. /\ resumed.at \in Nat /\ resumed.at - resumed.begun = 0 /\ <<>> \in Seq(Int)
        /\ SubSeq(Order, resumed.begun + 1, resumed.at) = <<>>
    <2>1. resumed.at \in Nat /\ resumed.at <= Len(Order) /\ resumed.at - resumed.at = 0
      BY <1>6, RecordAssumption DEF Positions
    <2>2. Len(SubSeq(Order, resumed.at + 1, resumed.at)) = 0
          /\ SubSeq(Order, resumed.at + 1, resumed.at) \in Seq(Nat)
      BY <2>1, SliceOf
    <2>3. QED
      BY <1>6, <2>1, <2>2
  <1>8. Rowed(Jira!Fetching(resumed, resumed.at, resumed.token))
    <2>1. /\ resumed.rows \in Seq(Int) /\ resumed.visited \subseteq Positions
          /\ resumed.native \in Int /\ resumed.at \in Positions
          /\ resumed.token # Jira!NoToken => resumed.token.at \in Positions
      BY <1>4, <1>6, <1>7
    <2>2. /\ resumed.begun <= resumed.at /\ resumed.at - resumed.begun <= JiraRecords
          /\ resumed.rows = SubSeq(Order, resumed.begun + 1, resumed.at)
          /\ \A p \in resumed.visited : p <= resumed.at
          /\ resumed.token # Jira!NoToken => resumed.token.at <= resumed.at
      BY <1>4, <1>6, <1>7
    <2>3. QED
      BY <1>6, <2>1, <2>2, FetchingRowed
  <1>9. Rowed(parent)
    <2>1. /\ parent.target = target /\ parent.begun = resumed.begun /\ parent.pc = "parent"
          /\ parent.at = resumed.at /\ parent.rows = <<>> /\ parent.visited = {}
          /\ parent.native = Native /\ parent.token = resumed.token
          /\ parent.asked = opened.asked
          /\ parent.cached = opened.cached /\ parent.response = opened.response
      BY <1>6 DEF JiraFields
    <2> HIDE DEF parent
    <2>2. Located(parent)
      BY <1>3, <1>4, <1>6, <1>7, <2>1 DEF Located
    <2>3. Gapless(parent)
      BY <1>4, <1>6, <1>7, <2>1 DEF Gapless
    <2>4. Exact(parent) /\ Whole(parent)
      BY <2>1, <2>3 DEF Exact, Whole
    <2>5. QED
      BY <2>2, <2>4 DEF Rowed
  <1>10. \A q \in JiraReaders : Rowed(read'[q])
    <2>1. ASSUME NEW why, Jira!Fail(r, why)
          PROVE  \A q \in JiraReaders : Rowed(read'[q])
      BY <2>1, FailRowed, RowsMove DEF Jira!Fail
    <2> HIDE DEF direct, parent
    <2>2. QED
      BY <1>2, <1>5, <1>8, <1>9, <2>1, RowsMove
  <1>11. QED
    BY <1>1, <1>10 DEF RowsInv

\* A page from the cache is one that was put there.
LEMMA RowsLookUp ==
    ASSUME JiraInv, RowsInv, NEW r \in JiraReaders, Jira!Lookup(r)
    PROVE  RowsInv'
  <1> DEFINE state == read[r]
  <1>1. PICK entry :
            /\ Jira!Move(r, [state EXCEPT !.cached = entry,
                               !.pc = IF state.pc = "parent" THEN "ask_parent" ELSE "ask"])
            /\ entry = Jira!NoEntry \/ \E e \in pages : entry = [page |-> e.page, edition |-> e.edition]
    <2> DEFINE found == {e \in pages : e.key = Jira!Key(state)}
    <2>1. /\ found # {} => (CHOOSE e \in found : TRUE) \in pages
      OBVIOUS
    <2>2. QED
      BY <2>1, Zenon DEF Jira!Lookup
  <1> DEFINE s == [state EXCEPT !.cached = entry,
                      !.pc = IF state.pc = "parent" THEN "ask_parent" ELSE "ask"]
  <1>2. UNCHANGED <<pages, selectors>> /\ state.pc \in {"lookup", "parent"}
    BY DEF Jira!Lookup
  <1>3. DOMAIN state = JiraFields /\ Rowed(state)
    BY DEF JiraInv, ReadsHomely, Homely, RowsInv
  <1>4. Paged(entry.page)
    BY <1>1, IdleLocated DEF RowsInv, Jira!NoEntry
  <1>5. /\ s.pc = IF state.pc = "parent" THEN "ask_parent" ELSE "ask"
        /\ s.begun = state.begun /\ s.visited = state.visited /\ s.misled = state.misled
        /\ s.at = state.at /\ s.target = state.target /\ s.native = state.native
        /\ s.asked = state.asked /\ s.token = state.token /\ s.rows = state.rows
        /\ s.cached = entry /\ s.response = state.response
    BY <1>3 DEF JiraFields
  <1> HIDE DEF s, state
  <1>6. Located(s)
    BY <1>2, <1>3, <1>4, <1>5 DEF Rowed, Located, Sending
  <1>7. Exact(s) /\ Whole(s)
    BY <1>2, <1>3, <1>5 DEF Rowed, Exact, Gapless, Whole, Sending
  <1>8. \A q \in JiraReaders : Rowed(read'[q])
    BY <1>1, <1>6, <1>7, RowsMove DEF Rowed, s
  <1>9. QED
    BY <1>2, <1>8 DEF RowsInv

\* What a read is charged leaves where it is and what it has.
LEMMA ChargedRowed ==
    ASSUME NEW state, DOMAIN state = JiraFields, NEW tries, Rowed(state)
    PROVE  LET s == Jira!Charged(state, tries) IN
           /\ DOMAIN s = JiraFields /\ Rowed(s)
           /\ s.pc = state.pc /\ s.at = state.at /\ s.token = state.token
  <1> DEFINE s == Jira!Charged(state, tries)
  <1>1. /\ s.pc = state.pc /\ DOMAIN s = JiraFields /\ s.next = state.next
        /\ s.begun = state.begun /\ s.visited = state.visited /\ s.misled = state.misled
        /\ s.at = state.at /\ s.target = state.target /\ s.native = state.native
        /\ s.asked = state.asked /\ s.token = state.token /\ s.rows = state.rows
        /\ s.cached = state.cached /\ s.response = state.response
    BY DEF Jira!Charged, JiraFields
  <1> HIDE DEF s
  <1>2. Jira!Honest(s) = Jira!Honest(state) /\ Jira!Lies(s) = Jira!Lies(state)
    BY <1>1, SamePages
  <1>3. Located(s)
    BY <1>1 DEF Rowed, Located
  <1>4. Exact(s)
    BY <1>1, <1>2 DEF Rowed, Exact, Gapless
  <1>5. Whole(s)
    BY <1>1 DEF Rowed, Whole
  <1>6. Rowed(s)
    BY <1>3, <1>4, <1>5 DEF Rowed
  <1>7. QED
    BY <1>1, <1>6 DEF s

\* An answer is a page upstream can send, or says that the entry still is.
LEMMA RowsRespond ==
    ASSUME JiraInv, RowsInv, NEW r \in JiraReaders, NEW tries, Jira!Respond(r, tries)
    PROVE  RowsInv'
  <1> DEFINE state == Jira!Charged(read[r], tries)
             kept == [state EXCEPT !.pc = "revalidated", !.said = edition]
             new(fetched) == [state EXCEPT !.pc = "responded", !.response = fetched, !.said = edition]
  <1>1. UNCHANGED <<pages, selectors>> /\ read[r].pc = "ask"
    BY DEF Jira!Respond
  <1>2. \/ Jira!Move(r, kept)
        \/ \E fetched \in Jira!Honest(state) \cup Jira!Lies(state) : Jira!Move(r, new(fetched))
    BY Zenon DEF Jira!Respond
  <1>3. DOMAIN read[r] = JiraFields /\ Rowed(read[r])
    BY DEF JiraInv, ReadsHomely, Homely, RowsInv
  <1>4. DOMAIN state = JiraFields /\ Rowed(state) /\ state.pc = "ask"
    BY <1>1, <1>3, ChargedRowed
  <1> HIDE DEF state
  <1>5. Rowed(kept)
    <2>1. /\ kept.pc = "revalidated" /\ kept.next = state.next
          /\ kept.begun = state.begun /\ kept.visited = state.visited /\ kept.misled = state.misled
          /\ kept.at = state.at /\ kept.target = state.target /\ kept.native = state.native
          /\ kept.asked = state.asked /\ kept.token = state.token /\ kept.rows = state.rows
          /\ kept.cached = state.cached /\ kept.response = state.response
      BY <1>4 DEF JiraFields
    <2> HIDE DEF kept
    <2>2. Located(kept)
      BY <1>4, <2>1 DEF Rowed, Located, Sending
    <2>3. Exact(kept) /\ Whole(kept)
      BY <1>4, <2>1 DEF Rowed, Exact, Gapless, Whole, Sending
    <2>4. QED
      BY <2>2, <2>3 DEF Rowed
  <1>6. ASSUME NEW fetched \in Jira!Honest(state) \cup Jira!Lies(state)
        PROVE  Rowed(new(fetched))
    <2> DEFINE s == new(fetched)
    <2>1. /\ s.pc = "responded" /\ s.next = state.next
          /\ s.begun = state.begun /\ s.visited = state.visited /\ s.misled = state.misled
          /\ s.at = state.at /\ s.target = state.target /\ s.native = state.native
          /\ s.asked = state.asked /\ s.token = state.token /\ s.rows = state.rows
          /\ s.cached = state.cached /\ s.response = fetched
      BY <1>4 DEF JiraFields
    <2> HIDE DEF s
    <2>2. Located(state) /\ state.rows \in Seq(Int)
      BY <1>4 DEF Rowed, Located, Sending
    <2>3. Paged(fetched)
      BY <2>2, EveryPagePaged DEF Located
    <2>4. Jira!Honest(s) = Jira!Honest(state) /\ Jira!Lies(s) = Jira!Lies(state)
      BY <2>1, SamePages
    <2>5. Located(s)
      BY <2>1, <2>2, <2>3 DEF Located, Sending
    <2>6. Exact(s) /\ Whole(s)
      BY <1>4, <2>1, <2>4 DEF Rowed, Exact, Gapless, Whole, Sending
    <2>7. Rowed(s)
      BY <2>5, <2>6 DEF Rowed
    <2>8. QED
      BY <2>7 DEF s
  <1> HIDE DEF kept, new
  <1>7. \A q \in JiraReaders : Rowed(read'[q])
    BY <1>2, <1>5, <1>6, RowsMove
  <1>8. QED
    BY <1>1, <1>7 DEF RowsInv

\* The parent of a collection is read before the first page.
LEMMA RowsRespondParent ==
    ASSUME JiraInv, RowsInv, NEW r \in JiraReaders, NEW tries, Jira!RespondParent(r, tries)
    PROVE  RowsInv'
  <1> DEFINE state == Jira!Charged(read[r], tries)
  <1>1. /\ UNCHANGED <<pages, selectors>> /\ read[r].pc = "ask_parent"
        /\ Jira!Move(r, Jira!Fetching(state, state.at, state.token))
    BY DEF Jira!RespondParent
  <1>2. DOMAIN read[r] = JiraFields /\ Rowed(read[r])
    BY DEF JiraInv, ReadsHomely, Homely, RowsInv
  <1>3. DOMAIN state = JiraFields /\ Rowed(state) /\ state.pc = "ask_parent"
    BY <1>1, <1>2, ChargedRowed
  <1> HIDE DEF state
  <1>4. state.at \in Positions
    BY <1>3 DEF Rowed, Located
  <1>5. Located(state) /\ state.rows \in Seq(Int)
    BY <1>3 DEF Rowed, Located, Sending
  <1>6. ~Jira!Direct(state.target) /\ ~state.misled => Gapless(state)
    BY <1>3 DEF Rowed, Exact, Sending
  <1>7. Rowed(Jira!Fetching(state, state.at, state.token))
    BY <1>3, <1>4, <1>5, <1>6, FetchingRowed DEF Located, Gapless
  <1>8. \A q \in JiraReaders : Rowed(read'[q])
    BY <1>1, <1>7, RowsMove
  <1>9. QED
    BY <1>1, <1>8 DEF RowsInv

\* After a page the read fails, answers with the rows it has and what is left, or
\* goes on where the page says.
LEMMA RowsTake ==
    ASSUME JiraInv, RowsInv, NEW r \in JiraReaders, NEW state, NEW fetched,
           DOMAIN state = JiraFields, Located(state), state.pc \in {"responded", "revalidated"},
           Paged(fetched),
           ~Jira!Direct(state.target) /\ ~state.misled =>
              /\ Gapless(state) /\ state.asked <= JiraRecords - (state.at - state.begun)
              /\ fetched \in Jira!Honest(state) \cup Jira!Lies(state),
           Jira!Take(r, state, fetched)
    PROVE  /\ \A selector \in selectors' : selector.token.at \in Positions
           /\ \A q \in JiraReaders : Rowed(read'[q])
  <1> DEFINE rows == state.rows \o fetched.rows
             sent == IF state.token = Jira!NoToken THEN state.visited
                     ELSE state.visited \cup {state.token.at}
             seen == [state EXCEPT !.visited = sent]
             taken == [state EXCEPT !.rows = rows, !.visited = sent, !.native = Jira!Settled(state, fetched)]
             token == Jira!Continuation(state.target, fetched.next).token
             end == IF fetched.next = Jira!End THEN Len(Order) ELSE fetched.next
  <1>1. \/ (\E why : Jira!Fail(r, why)) /\ UNCHANGED selectors
        \/ /\ ~Jira!Refused(seen, fetched)
           /\ \E next : /\ Jira!Answer(r, taken, rows, next)
                        /\ next = Jira!End \/ next = fetched.next
                        /\ ~Jira!Direct(state.target) => next = fetched.next
        \/ /\ ~Jira!Refused(seen, fetched) /\ ~Jira!Direct(state.target) /\ fetched.next # Jira!End
           /\ Jira!Move(r, Jira!Fetching(taken, fetched.next, token)) /\ UNCHANGED selectors
    BY Zenon DEF Jira!Take, taken, seen, rows, token
  <1>2. /\ DOMAIN taken = JiraFields /\ taken.target = state.target /\ taken.begun = state.begun
        /\ taken.rows = rows /\ taken.visited = sent /\ taken.misled = state.misled
        /\ taken.native = Jira!Settled(state, fetched)
    BY DEF JiraFields
  <1>3. /\ seen.at = state.at /\ seen.asked = state.asked /\ seen.rows = state.rows
        /\ seen.target = state.target /\ seen.visited = sent
    BY DEF JiraFields
  <1> HIDE DEF taken, seen
  <1>4. /\ state.rows \in Seq(Int) /\ fetched.rows \in Seq(Int)
        /\ state.begun \in Positions /\ sent \subseteq Positions
        /\ fetched.next \in Positions \cup {Jira!End}
    BY DEF Located, Paged, Sending
  <1>5. rows \in Seq(Int)
    BY <1>4
  <1>6. taken.native \in Int
    BY <1>2 DEF Jira!Settled, Jira!Lower, Located, Paged
  <1>7. ASSUME ~Jira!Refused(seen, fetched), ~Jira!Direct(state.target), ~state.misled
        PROVE  /\ end \in Nat /\ end <= Len(Order) /\ state.begun <= end
               /\ end - state.begun <= JiraRecords
               /\ rows = SubSeq(Order, state.begun + 1, end)
               /\ Len(SubSeq(Order, state.begun + 1, end)) = end - state.begun
               /\ \A place \in sent : place <= end
    <2>1. /\ Gapless(state) /\ state.asked <= JiraRecords - (state.at - state.begun)
          /\ fetched \in Jira!Honest(state) \cup Jira!Lies(state)
      BY <1>7
    <2>2. /\ state.at \in Positions /\ state.asked \in Int
          /\ \A place \in state.visited : place \in Positions /\ place <= state.at
          /\ state.visited \subseteq sent
      BY <1>7, <2>1 DEF Located, Gapless
    <2>3. /\ end \in Nat /\ state.at <= end /\ end <= Len(Order) /\ end - state.at <= state.asked
          /\ fetched.rows = SubSeq(Order, state.at + 1, end)
      BY <1>3, <1>4, <1>7, <2>1, <2>2, PageExact
    <2> HIDE DEF end
    <2>4. state.begun \in Nat /\ state.at \in Nat /\ state.begun <= state.at /\ JiraRecords \in Nat
      BY <1>4, <2>1, <2>2, RecordAssumption DEF Positions, Gapless
    <2>5. rows = SubSeq(Order, state.begun + 1, end)
      <3>1. state.rows = SubSeq(Order, state.begun + 1, state.at)
        BY <2>1 DEF Gapless
      <3>2. SubSeq(Order, state.begun + 1, state.at) \o SubSeq(Order, state.at + 1, end)
               = SubSeq(Order, state.begun + 1, end)
        BY <2>3, <2>4, SlicesMeet
      <3>3. QED
        BY <2>3, <3>1, <3>2
    <2>6. \A place \in sent : place \in Nat /\ place <= state.at
      BY <1>4, <2>1 DEF Gapless, Positions
    <2>7. Len(SubSeq(Order, state.begun + 1, end)) = end - state.begun
      BY <2>3, <2>4, SliceOf
    <2>8. state.begun <= end /\ end - state.begun <= JiraRecords
      BY <2>1, <2>2, <2>3, <2>4
    <2> HIDE DEF sent
    <2>9. ASSUME NEW place \in sent
          PROVE  place <= end
      BY <2>3, <2>4, <2>6, <2>9
    <2>10. QED
      BY <2>3, <2>5, <2>7, <2>8, <2>9
  <1>8. CASE (\E why : Jira!Fail(r, why)) /\ UNCHANGED selectors
    BY <1>8, FailRowed, RowsMove DEF Jira!Fail, RowsInv
  <1>9. ASSUME ~Jira!Refused(seen, fetched), NEW next, Jira!Answer(r, taken, rows, next),
               next = Jira!End \/ next = fetched.next,
               ~Jira!Direct(state.target) => next = fetched.next
        PROVE  /\ \A selector \in selectors' : selector.token.at \in Positions
               /\ \A q \in JiraReaders : Rowed(read'[q])
    <2> DEFINE s == [Jira!Idle EXCEPT !.pc = "answered", !.target = taken.target,
                        !.begun = taken.begun, !.rows = Jira!Arranged(taken.target, rows),
                        !.next = next, !.used = taken.used, !.misled = taken.misled]
    <2>1. /\ Jira!Move(r, s)
          /\ selectors' = IF next = Jira!End THEN selectors
                          ELSE selectors \cup {Jira!Continuation(taken.target, next)}
      BY <1>9 DEF Jira!Answer
    <2>2. Jira!Continuation(taken.target, next).token.at = next
      BY DEF Jira!Continuation
    <2>3. \A selector \in selectors' : selector.token.at \in Positions
      BY <1>4, <1>9, <2>1, <2>2 DEF RowsInv
    <2> HIDE DEF rows
    <2>4. /\ s.pc = "answered" /\ s.target = state.target /\ s.begun = state.begun
          /\ s.rows = Jira!Arranged(state.target, rows) /\ s.next = next
          /\ s.misled = state.misled /\ s.visited = Jira!Idle.visited
          /\ s.at = Jira!Idle.at /\ s.native = Jira!Idle.native
          /\ s.asked = Jira!Idle.asked /\ s.token = Jira!Idle.token
          /\ s.cached = Jira!Idle.cached /\ s.response = Jira!Idle.response
      BY <1>2, IdleLocated DEF JiraFields
    <2> HIDE DEF s
    <2>5. Located(s)
      BY <1>4, <2>4, IdleLocated DEF Located, Sending
    <2>6. Exact(s)
      BY <2>4 DEF Exact, Sending
    <2>7. Whole(s)
      BY <1>7, <1>9, <2>4 DEF Whole
    <2>8. QED
      BY <2>1, <2>3, <2>5, <2>6, <2>7, RowsMove DEF Rowed
  <1>10. ASSUME ~Jira!Refused(seen, fetched), ~Jira!Direct(state.target), fetched.next # Jira!End,
                Jira!Move(r, Jira!Fetching(taken, fetched.next, token)), UNCHANGED selectors
         PROVE  /\ \A selector \in selectors' : selector.token.at \in Positions
                /\ \A q \in JiraReaders : Rowed(read'[q])
    <2>1. token.at = fetched.next
      BY DEF Jira!Continuation
    <2>2. fetched.next \in Positions /\ end = fetched.next /\ fetched.next <= fetched.next
      BY <1>4, <1>10 DEF Positions
    <2> HIDE DEF token, rows, sent, end
    <2>3. ~Jira!Direct(taken.target) /\ ~taken.misled =>
             /\ taken.begun <= fetched.next /\ fetched.next - taken.begun <= JiraRecords
             /\ taken.rows = SubSeq(Order, taken.begun + 1, fetched.next)
             /\ \A p \in taken.visited : p <= fetched.next
             /\ token # Jira!NoToken => token.at <= fetched.next
      BY <1>2, <1>7, <1>10, <2>1, <2>2
    <2>4. Rowed(Jira!Fetching(taken, fetched.next, token))
      BY <1>2, <1>4, <1>5, <1>6, <2>1, <2>2, <2>3, FetchingRowed
    <2>5. QED
      BY <1>10, <2>4, RowsMove DEF RowsInv
  <1>11. QED
    BY <1>1, <1>8, <1>9, <1>10

\* A page that is confirmed is one upstream can send, or the read is misled.
LEMMA RowsRevalidate ==
    ASSUME JiraInv, RowsInv, NEW r \in JiraReaders, Jira!Revalidate(r)
    PROVE  RowsInv'
  <1> DEFINE state == read[r]
             fetched == Jira!Kept(state).page
             s == [state EXCEPT !.used = @ \cup {<<Jira!Kept(state).edition, state.said>>},
                      !.misled = IF fetched \in Jira!Honest(state) \cup Jira!Lies(state)
                                 THEN @ ELSE TRUE]
  <1>1. state.pc = "revalidated" /\ UNCHANGED pages /\ Jira!Take(r, s, fetched)
    BY DEF Jira!Revalidate
  <1>2. DOMAIN state = JiraFields /\ Rowed(state) /\ fetched = state.cached.page
    BY DEF JiraInv, ReadsHomely, Homely, RowsInv, Jira!Kept
  <1> HIDE DEF fetched, state
  <1>3. /\ s.pc = state.pc /\ s.next = state.next /\ DOMAIN s = JiraFields
        /\ s.begun = state.begun /\ s.visited = state.visited
        /\ s.at = state.at /\ s.target = state.target /\ s.native = state.native
        /\ s.asked = state.asked /\ s.token = state.token /\ s.rows = state.rows
        /\ s.cached = state.cached /\ s.response = state.response
        /\ s.misled = IF fetched \in Jira!Honest(state) \cup Jira!Lies(state)
                      THEN state.misled ELSE TRUE
    BY <1>2 DEF JiraFields
  <1> HIDE DEF s
  <1>4. Jira!Honest(s) = Jira!Honest(state) /\ Jira!Lies(s) = Jira!Lies(state)
    BY <1>3, SamePages
  <1>5. Located(s) /\ Paged(fetched)
    BY <1>1, <1>2, <1>3 DEF Rowed, Located, Sending
  <1>6. ~s.misled => ~state.misled /\ fetched \in Jira!Honest(s) \cup Jira!Lies(s)
    BY <1>3, <1>4
  <1>7. ~Jira!Direct(s.target) /\ ~s.misled =>
           /\ Gapless(s) /\ s.asked <= JiraRecords - (s.at - s.begun)
           /\ fetched \in Jira!Honest(s) \cup Jira!Lies(s)
    BY <1>1, <1>2, <1>3, <1>6 DEF Rowed, Exact, Gapless, Sending
  <1>8. /\ \A selector \in selectors' : selector.token.at \in Positions
        /\ \A q \in JiraReaders : Rowed(read'[q])
    BY <1>1, <1>3, <1>5, <1>7, RowsTake
  <1>9. QED
    BY <1>1, <1>8 DEF RowsInv

\* A page is kept, or not, before the read looks at it.
LEMMA RowsStore ==
    ASSUME JiraInv, RowsInv, NEW r \in JiraReaders, NEW kept, Jira!Store(r, kept)
    PROVE  RowsInv'
  <1> DEFINE state == read[r]
             s == [state EXCEPT !.used = @ \cup {<<state.said, state.said>>}]
  <1>1. state.pc = "responded" /\ Jira!Take(r, s, state.response)
    BY DEF Jira!Store
  <1>2. \A entry \in pages' : entry \in pages \/ entry.page = state.response
    <2> DEFINE others == {entry \in pages : entry.key # Jira!Key(state)}
               new == [key |-> Jira!Key(state), page |-> state.response, edition |-> state.said]
    <2>1. pages' = pages \/ pages' = others \/ pages' = others \cup {new}
      BY Zenon DEF Jira!Store
    <2>2. new.page = state.response
      OBVIOUS
    <2> HIDE DEF new
    <2>3. QED
      BY <2>1, <2>2
  <1>3. DOMAIN state = JiraFields /\ Rowed(state)
    BY DEF JiraInv, ReadsHomely, Homely, RowsInv
  <1> HIDE DEF state
  <1>4. /\ s.pc = state.pc /\ s.next = state.next /\ DOMAIN s = JiraFields
        /\ s.begun = state.begun /\ s.visited = state.visited /\ s.misled = state.misled
        /\ s.at = state.at /\ s.target = state.target /\ s.native = state.native
        /\ s.asked = state.asked /\ s.token = state.token /\ s.rows = state.rows
        /\ s.cached = state.cached /\ s.response = state.response
    BY <1>3 DEF JiraFields
  <1> HIDE DEF s
  <1>5. Jira!Honest(s) = Jira!Honest(state) /\ Jira!Lies(s) = Jira!Lies(state)
    BY <1>4, SamePages
  <1>6. Located(s) /\ Paged(state.response)
    BY <1>1, <1>3, <1>4 DEF Rowed, Located, Sending
  <1>7. ~Jira!Direct(s.target) /\ ~s.misled =>
           /\ Gapless(s) /\ s.asked <= JiraRecords - (s.at - s.begun)
           /\ state.response \in Jira!Honest(s) \cup Jira!Lies(s)
    BY <1>1, <1>3, <1>4, <1>5 DEF Rowed, Exact, Gapless, Sending
  <1>8. /\ \A selector \in selectors' : selector.token.at \in Positions
        /\ \A q \in JiraReaders : Rowed(read'[q])
    BY <1>1, <1>4, <1>6, <1>7, RowsTake
  <1>9. \A entry \in pages' : Paged(entry.page)
    BY <1>2, <1>6 DEF RowsInv
  <1>10. QED
    BY <1>8, <1>9 DEF RowsInv

\* Every step keeps the rows of the reads; another server begins with no read and
\* no page, and finds the selectors as they were.
LEMMA RowsStep ==
    ASSUME JiraInv, RowsInv, Jira!JiraNext
    PROVE  RowsInv'
  <1>1. ASSUME NEW r \in JiraReaders, NEW target, NEW selector,
               selector = Jira!NoToken \/ selector \in selectors, Jira!Begin(r, target, selector)
        PROVE  RowsInv'
    BY <1>1, RowsBegin
  <1>2. ASSUME NEW r \in JiraReaders,
               \/ Jira!Lookup(r) \/ Jira!Revalidate(r)
               \/ \E tries \in 1..2 : Jira!Respond(r, tries) \/ Jira!RespondParent(r, tries)
               \/ \E kept \in BOOLEAN : Jira!Store(r, kept)
        PROVE  RowsInv'
    BY <1>2, RowsLookUp, RowsRevalidate, RowsRespond, RowsRespondParent, RowsStore
  <1>3. ASSUME NEW r \in JiraReaders, Jira!Break(r) \/ Jira!Exhaust(r)
        PROVE  RowsInv'
    <2>1. (\E why : Jira!Fail(r, why)) /\ UNCHANGED <<pages, selectors>>
      BY <1>3 DEF Jira!Break, Jira!Exhaust
    <2>2. \A q \in JiraReaders : Rowed(read'[q])
      BY <2>1, FailRowed, RowsMove DEF Jira!Fail
    <2>3. QED
      BY <2>1, <2>2 DEF RowsInv
  <1>4. ASSUME Jira!Edit \/ \E entry \in pages : Jira!Evict(entry)
        PROVE  RowsInv'
    <2>1. UNCHANGED <<read, selectors>> /\ pages' \subseteq pages
      BY <1>4 DEF Jira!Edit, Jira!Evict
    <2>2. QED
      BY <2>1 DEF RowsInv
  <1>5. ASSUME Jira!Remount
        PROVE  RowsInv'
    <2>1. read' = [r \in JiraReaders |-> Jira!Idle] /\ pages' = {} /\ UNCHANGED selectors
      BY <1>5 DEF Jira!Remount
    <2>2. QED
      BY <2>1, FailRowed DEF RowsInv
  <1>6. QED
    BY <1>1, <1>2, <1>3, <1>4, <1>5, Zenon DEF Jira!JiraNext

LEMMA RowsBeginning ==
    ASSUME Jira!JiraInit
    PROVE  RowsInv
  BY FailRowed DEF Jira!JiraInit, RowsInv

\* A step of another part changes nothing here.
LEMMA RowsStay ==
    ASSUME RowsInv, UNCHANGED jiraVars
    PROVE  RowsInv'
  BY DEF jiraVars, RowsInv

\* The invariant says what the property says.
LEMMA RowsFollow ==
    ASSUME RowsInv
    PROVE  Jira!RowsExact
  BY DEF RowsInv, Rowed, Whole, Jira!RowsExact

-----------------------------------------------------------------------------
(* The launch: what holds at each stage *)

LaunchStages ==
    {"load", "usage", "success", "targets", "probing", "verdict", "unavailable", "noroots", "mount",
     "nosecret", "serving"}
Outcomes == {"pending", "unsupported", "failed", "degraded", "probing", "available"}

\* The stages in which sources are mounted, or have been.
Mounting == {"mount", "nosecret", "serving"}

LaunchTyped ==
    /\ command \in {"serve", "check", "probe"} /\ profile \in Profiles /\ stage \in LaunchStages
    /\ stage \notin {"load", "usage", "success"} => command # "check"
    /\ at[1] \in Nat
    /\ outcome \in [Launch!Indices -> Outcomes]
    /\ endpoint \in [Launch!Endpoints ->
                        [pc : {"idle", "lookup", "dial", "up"}, left : Seq(Launch!Address)]]
    /\ DOMAIN mounted = {"allowed", "degraded", "credentials", "helped"}

\* The outcome of a source has its cause, and by the verdict every source has one.
OutcomesCaused ==
    /\ \A i \in Launch!Indices :
          /\ outcome[i] = "degraded" => ~Launch!Sources[i].required
          /\ outcome[i] = "unsupported" => ~Launch!Probed(Launch!Sources[i].kind)
          /\ outcome[i] = "probing" =>
                Launch!Probed(Launch!Sources[i].kind) /\ stage \in {"targets", "probing"}
          /\ outcome[i] = "pending" => stage \in {"load", "usage", "success", "targets"}
    /\ stage \in {"load", "targets"} => \A i \in Launch!Indices : i < at[1] => outcome[i] # "pending"

\* Connections are made while probing, for sources that are probed, to addresses
\* that all were granted.
EndpointsGranted ==
    \A e \in Launch!Endpoints :
        /\ endpoint[e].pc # "idle" => stage = "probing" /\ Launch!Probed(Launch!Sources[e[1]].kind)
        /\ endpoint[e].pc = "dial" =>
              /\ endpoint[e].left # <<>>
              /\ ~Launch!Origin(e).private =>
                    \A n \in 1..Len(endpoint[e].left) : ~endpoint[e].left[n].private

\* What was touched was granted, and is of a kind that is probed.
TouchedGranted ==
    /\ \A d \in dialled : d.to.private => d.private
    /\ \A i \in helped \cup {d.source : d \in dialled} :
          i \in Launch!Indices /\ Launch!Probed(Launch!Sources[i].kind)

\* What is mounted is whole but for what is still to be mounted, and apart from
\* what is held apart.
MountedWhole ==
    /\ stage \notin Mounting => mounted = Launch!Nothing
    /\ stage \in Mounting =>
          /\ command = "serve"
          /\ \A i \in Launch!Indices :
                Launch!Mountable(Launch!Sources[i].kind) /\ Launch!Acceptable(i)
    /\ stage = "serving" => Launch!ToMount = {}
    /\ mounted.allowed \subseteq Launch!Endpoints
    /\ \A e \in mounted.allowed :
          /\ outcome[e[1]] # "degraded"
          /\ Launch!Origin(e).secret # "none" => \E c \in mounted.credentials : c[1] = e
    /\ \A e \in mounted.degraded : outcome[e[1]] = "degraded"
    /\ \A c \in mounted.credentials :
          c[1] \in mounted.allowed /\ Launch!Origin(c[1]).secret # "none"
    /\ \A i \in mounted.helped : outcome[i] # "degraded"

\* A launch that stops has its cause in a source.
StopsCaused ==
    stage = "unavailable" => \E i \in Launch!Indices :
        \/ IF command = "serve" THEN ~Launch!Mountable(Launch!Sources[i].kind)
           ELSE Launch!Sources[i].kind \in Unprobed
        \/ outcome[i] = "failed"

LaunchInv ==
    LaunchTyped /\ OutcomesCaused /\ EndpointsGranted /\ TouchedGranted /\ MountedWhole /\ StopsCaused

-----------------------------------------------------------------------------
(* The launch: what a step leaves alone *)

\* A profile has a number of sources, and its secrets are of three kinds.
LEMMA ProfileTyped ==
    ASSUME profile \in Profiles
    PROVE  /\ Len(Launch!Sources) \in Nat /\ Launch!Indices = 1..Len(Launch!Sources)
           /\ \A e \in Launch!Endpoints :
                 /\ e[1] \in Launch!Indices /\ e[2] \in Launch!OriginsOf(e[1]) /\ e = <<e[1], e[2]>>
                 /\ Launch!Origin(e).private \in BOOLEAN
                 /\ Launch!Origin(e).secret \in {"none", "environment", "helper"}
           /\ \A i \in Launch!Indices : \A o \in Launch!OriginsOf(i) : <<i, o>> \in Launch!Endpoints
  <1>1. Len(Launch!Sources) \in Nat /\ Launch!Indices = 1..Len(Launch!Sources)
    BY LaunchAssumption DEF Launch!Sources, Launch!Indices
  <1>2. ASSUME NEW e \in Launch!Endpoints
        PROVE  /\ e[1] \in Launch!Indices /\ e[2] \in Launch!OriginsOf(e[1]) /\ e = <<e[1], e[2]>>
               /\ Launch!Origin(e).private \in BOOLEAN
               /\ Launch!Origin(e).secret \in {"none", "environment", "helper"}
    <2>1. PICK i \in Launch!Indices : \E o \in Launch!OriginsOf(i) : e = <<i, o>>
      BY DEF Launch!Endpoints
    <2>2. Launch!Origin(e) \in [private : BOOLEAN, secret : {"none", "environment", "helper"}]
      BY <2>1, LaunchAssumption
         DEF Launch!Origin, Launch!Sources, Launch!Indices, Launch!OriginsOf
    <2>3. QED
      BY <2>1, <2>2
  <1>3. \A i \in Launch!Indices : \A o \in Launch!OriginsOf(i) : <<i, o>> \in Launch!Endpoints
    BY DEF Launch!Endpoints
  <1>4. QED
    BY <1>1, <1>2, <1>3

\* What is defined of the profile and the command stays as they do.
LEMMA ProfileStays ==
    ASSUME UNCHANGED <<command, profile>>
    PROVE  /\ Launch!Sources' = Launch!Sources /\ Launch!Indices' = Launch!Indices
           /\ Launch!Endpoints' = Launch!Endpoints
           /\ \A e : Launch!Origin(e)' = Launch!Origin(e)
           /\ \A kind : Launch!Probed(kind)' <=> Launch!Probed(kind)
           /\ \A i : Launch!OriginsOf(i)' = Launch!OriginsOf(i)
  <1>1. Launch!Sources' = Launch!Sources
    BY DEF Launch!Sources
  <1>2. Launch!Indices' = Launch!Indices /\ \A i : Launch!OriginsOf(i)' = Launch!OriginsOf(i)
    BY <1>1 DEF Launch!Indices, Launch!OriginsOf
  <1>3. Launch!Endpoints' = Launch!Endpoints
    BY <1>2 DEF Launch!Endpoints
  <1>4. \A e : Launch!Origin(e)' = Launch!Origin(e)
    BY <1>1 DEF Launch!Origin
  <1>5. \A kind : Launch!Probed(kind)' <=> Launch!Probed(kind)
    BY DEF Launch!Probed, Launch!Mountable
  <1>6. QED
    BY <1>1, <1>2, <1>3, <1>4, <1>5

\* Before the mounts and before the verdict.
LEMMA BeforeMounting ==
    ASSUME LaunchInv, UNCHANGED <<command, profile, mounted>>, stage \notin Mounting,
           stage' \notin Mounting, stage' # "unavailable"
    PROVE  MountedWhole' /\ StopsCaused'
  <1>1. mounted = Launch!Nothing
    BY DEF LaunchInv, MountedWhole
  <1>2. /\ mounted' = Launch!Nothing /\ mounted'.allowed = {} /\ mounted'.degraded = {}
        /\ mounted'.credentials = {} /\ mounted'.helped = {}
    BY <1>1 DEF Launch!Nothing
  <1>3. MountedWhole'
    BY <1>2 DEF MountedWhole, Mounting, Launch!Nothing
  <1>4. QED
    BY <1>3 DEF StopsCaused

\* A step that touches nothing.
LEMMA TouchedStays ==
    ASSUME LaunchInv, UNCHANGED <<command, profile, helped, dialled>>
    PROVE  TouchedGranted'
  BY ProfileStays DEF LaunchInv, TouchedGranted

\* A step without connections.
LEMMA EndpointsStay ==
    ASSUME LaunchInv, UNCHANGED <<command, profile, endpoint>>, stage' = stage \/ stage # "probing"
    PROVE  EndpointsGranted' /\ endpoint' \in [Launch!Endpoints' ->
                   [pc : {"idle", "lookup", "dial", "up"}, left : Seq(Launch!Address)]]
  BY ProfileStays DEF LaunchInv, LaunchTyped, EndpointsGranted

-----------------------------------------------------------------------------
(* The launch: its steps *)

\* A launch begins with nothing touched and nothing mounted.
LEMMA LaunchBegins ==
    ASSUME Launch!LaunchInit
    PROVE  LaunchInv
  <1>1. LaunchTyped
    BY DEF Launch!LaunchInit, LaunchTyped, LaunchStages, Outcomes, Launch!Nothing
  <1>2. OutcomesCaused
    <2>1. /\ at[1] = 1 /\ stage = "load" /\ profile \in Profiles
          /\ \A i \in Launch!Indices : outcome[i] = "pending"
      BY DEF Launch!LaunchInit
    <2>2. \A i \in Launch!Indices : ~(i < 1)
      BY <2>1, ProfileTyped
    <2>3. QED
      BY <2>1, <2>2 DEF OutcomesCaused
  <1>3. EndpointsGranted
    BY DEF Launch!LaunchInit, EndpointsGranted
  <1>4. TouchedGranted
    BY DEF Launch!LaunchInit, TouchedGranted
  <1>5. MountedWhole
    BY DEF Launch!LaunchInit, MountedWhole, Mounting, Launch!Nothing
  <1>6. StopsCaused
    BY DEF Launch!LaunchInit, StopsCaused
  <1>7. QED
    BY <1>1, <1>2, <1>3, <1>4, <1>5, <1>6 DEF LaunchInv

\* The static check touches nothing.
LEMMA LaunchChecks ==
    ASSUME LaunchInv, Launch!Check
    PROVE  LaunchInv'
  <1>1. /\ stage = "load" /\ UNCHANGED <<command, profile, at, helped, outcome, endpoint, dialled, mounted>>
        /\ stage' \in {"usage", "success", "targets"}
        /\ stage' = "targets" => command # "check"
    BY DEF Launch!Check, Launch!Ends
  <1>2. EndpointsGranted' /\ TouchedGranted' /\ endpoint' \in [Launch!Endpoints' ->
                   [pc : {"idle", "lookup", "dial", "up"}, left : Seq(Launch!Address)]]
    BY <1>1, EndpointsStay, TouchedStays
  <1>3. MountedWhole' /\ StopsCaused'
    BY <1>1, BeforeMounting DEF Mounting
  <1>4. LaunchTyped'
    BY <1>1, <1>2, ProfileStays DEF LaunchInv, LaunchTyped, LaunchStages
  <1>5. OutcomesCaused'
    BY <1>1, ProfileStays DEF LaunchInv, OutcomesCaused
  <1>6. QED
    BY <1>2, <1>3, <1>4, <1>5 DEF LaunchInv

\* A source is given its outcome before it is probed, and the next one is at hand.
LEMMA OutcomeGiven ==
    ASSUME LaunchInv, stage = "targets", stage' = "targets", UNCHANGED <<command, profile>>,
           at[1] \in Launch!Indices, NEW state, NEW second, at' = <<at[1] + 1, second>>,
           outcome' = [outcome EXCEPT ![at[1]] = state],
           state \in {"unsupported", "failed", "degraded", "probing", "available"},
           state = "degraded" => ~Launch!Sources[at[1]].required,
           state = "unsupported" => ~Launch!Probed(Launch!Sources[at[1]].kind),
           state = "probing" => Launch!Probed(Launch!Sources[at[1]].kind)
    PROVE  OutcomesCaused' /\ outcome' \in [Launch!Indices' -> Outcomes] /\ at'[1] \in Nat
  <1>1. /\ outcome \in [Launch!Indices -> Outcomes] /\ at[1] \in Nat
        /\ Launch!Indices = 1..Len(Launch!Sources) /\ Len(Launch!Sources) \in Nat
    BY ProfileTyped DEF LaunchInv, LaunchTyped
  <1>2. outcome' \in [Launch!Indices' -> Outcomes] /\ at'[1] \in Nat
    BY <1>1, ProfileStays DEF Outcomes
  <1>3. \A i \in Launch!Indices :
            outcome'[i] = IF i = at[1] THEN state ELSE outcome[i]
    BY <1>1
  <1>4. \A i \in Launch!Indices : i < at'[1] => i = at[1] \/ i < at[1]
    BY <1>1
  <1>5. ASSUME NEW i \in Launch!Indices
        PROVE  /\ outcome'[i] = "degraded" => ~Launch!Sources[i].required
               /\ outcome'[i] = "unsupported" => ~Launch!Probed(Launch!Sources[i].kind)
               /\ outcome'[i] = "probing" => Launch!Probed(Launch!Sources[i].kind)
               /\ i < at'[1] => outcome'[i] # "pending"
    BY <1>3, <1>4 DEF LaunchInv, OutcomesCaused
  <1>6. QED
    BY <1>2, <1>5, ProfileStays DEF OutcomesCaused

\* A source without an adapter is unsupported, and is not touched.
LEMMA LaunchSkips ==
    ASSUME LaunchInv, Launch!Skip
    PROVE  LaunchInv'
  <1>1. /\ stage = "targets" /\ at[1] \in Launch!Indices /\ ~Launch!Probed(Launch!Sources[at[1]].kind)
        /\ outcome' = [outcome EXCEPT ![at[1]] = "unsupported"] /\ at' = <<at[1] + 1, 1>>
        /\ UNCHANGED <<command, profile, stage, helped, endpoint, dialled, mounted>>
    BY DEF Launch!Skip, Launch!NextSource
  <1>2. OutcomesCaused' /\ outcome' \in [Launch!Indices' -> Outcomes] /\ at'[1] \in Nat
    BY <1>1, OutcomeGiven
  <1>3. EndpointsGranted' /\ TouchedGranted' /\ endpoint' \in [Launch!Endpoints' ->
                   [pc : {"idle", "lookup", "dial", "up"}, left : Seq(Launch!Address)]]
    BY <1>1, EndpointsStay, TouchedStays
  <1>4. MountedWhole' /\ StopsCaused'
    BY <1>1, BeforeMounting DEF Mounting
  <1>5. LaunchTyped'
    BY <1>1, <1>2, <1>3 DEF LaunchInv, LaunchTyped
  <1>6. QED
    BY <1>2, <1>3, <1>4, <1>5 DEF LaunchInv

\* A source that will be probed, or whose answer needs no network.
LEMMA LaunchTargets ==
    ASSUME LaunchInv, Launch!Target
    PROVE  LaunchInv'
  <1>1. /\ stage = "targets" /\ at[1] \in Launch!Indices /\ Launch!Probed(Launch!Sources[at[1]].kind)
        /\ at' = <<at[1] + 1, 1>>
        /\ UNCHANGED <<command, profile, stage, helped, endpoint, dialled, mounted>>
    BY DEF Launch!Target, Launch!NextSource
  <1>2. PICK state \in {"probing", "available"} : outcome' = [outcome EXCEPT ![at[1]] = state]
    BY DEF Launch!Target
  <1>3. OutcomesCaused' /\ outcome' \in [Launch!Indices' -> Outcomes] /\ at'[1] \in Nat
    BY <1>1, <1>2, OutcomeGiven
  <1>4. EndpointsGranted' /\ TouchedGranted' /\ endpoint' \in [Launch!Endpoints' ->
                   [pc : {"idle", "lookup", "dial", "up"}, left : Seq(Launch!Address)]]
    BY <1>1, EndpointsStay, TouchedStays
  <1>5. MountedWhole' /\ StopsCaused'
    BY <1>1, BeforeMounting DEF Mounting
  <1>6. LaunchTyped'
    BY <1>1, <1>3, <1>4 DEF LaunchInv, LaunchTyped
  <1>7. QED
    BY <1>3, <1>4, <1>5, <1>6 DEF LaunchInv

\* A helper is run only for a source that is probed; one that fails decides the
\* source's outcome.
LEMMA LaunchRunsHelper ==
    ASSUME LaunchInv, Launch!RunHelper
    PROVE  LaunchInv'
  <1>1. /\ stage = "targets" /\ at[1] \in Launch!Indices /\ Launch!Probed(Launch!Sources[at[1]].kind)
        /\ helped' = helped \cup {at[1]}
        /\ UNCHANGED <<command, profile, stage, endpoint, dialled, mounted>>
    BY DEF Launch!RunHelper
  <1>2. OutcomesCaused' /\ outcome' \in [Launch!Indices' -> Outcomes] /\ at'[1] \in Nat
    <2>1. CASE (\E second : at' = <<at[1], second>>) /\ UNCHANGED outcome
      <3>1. at'[1] = at[1]
        BY <2>1
      <3>2. QED
        BY <1>1, <2>1, <3>1, ProfileStays DEF LaunchInv, LaunchTyped, OutcomesCaused
    <2>2. CASE /\ outcome' = [outcome EXCEPT ![at[1]] = Launch!Unavailable(at[1])]
               /\ Launch!NextSource
      <3>1. /\ Launch!Unavailable(at[1]) \in {"failed", "degraded"}
            /\ Launch!Unavailable(at[1]) = "degraded" => ~Launch!Sources[at[1]].required
        BY DEF Launch!Unavailable
      <3>2. at' = <<at[1] + 1, 1>>
        BY <2>2 DEF Launch!NextSource
      <3>3. QED
        BY <1>1, <2>2, <3>1, <3>2, OutcomeGiven
    <2>3. QED
      BY <2>1, <2>2, Zenon DEF Launch!RunHelper
  <1>3. EndpointsGranted' /\ endpoint' \in [Launch!Endpoints' ->
                   [pc : {"idle", "lookup", "dial", "up"}, left : Seq(Launch!Address)]]
    BY <1>1, EndpointsStay
  <1>4. TouchedGranted'
    BY <1>1, ProfileStays DEF LaunchInv, TouchedGranted
  <1>5. MountedWhole' /\ StopsCaused'
    BY <1>1, BeforeMounting DEF Mounting
  <1>6. LaunchTyped'
    BY <1>1, <1>2, <1>3 DEF LaunchInv, LaunchTyped
  <1>7. QED
    BY <1>2, <1>3, <1>4, <1>5, <1>6 DEF LaunchInv

\* All endpoints of the sources to be probed are looked up at once.
LEMMA LaunchStartsProbes ==
    ASSUME LaunchInv, Launch!StartProbes
    PROVE  LaunchInv'
  <1>1. /\ stage = "targets" /\ stage' = "probing" /\ at[1] > Len(Launch!Sources)
        /\ UNCHANGED <<command, profile, at, helped, outcome, dialled, mounted>>
        /\ endpoint' = [e \in DOMAIN endpoint |->
                          IF outcome[e[1]] = "probing" THEN [endpoint[e] EXCEPT !.pc = "lookup"]
                          ELSE endpoint[e]]
    BY DEF Launch!StartProbes, Launch!Ends
  <1>2. /\ endpoint \in [Launch!Endpoints ->
                   [pc : {"idle", "lookup", "dial", "up"}, left : Seq(Launch!Address)]]
        /\ at[1] \in Nat
        /\ \A e \in Launch!Endpoints : e[1] \in Launch!Indices /\ endpoint[e].pc = "idle"
    BY <1>1, ProfileTyped DEF LaunchInv, LaunchTyped, EndpointsGranted
  <1>3. ASSUME NEW e \in Launch!Endpoints
        PROVE  /\ endpoint'[e] \in [pc : {"idle", "lookup"}, left : Seq(Launch!Address)]
               /\ endpoint'[e].pc # "idle" => outcome[e[1]] = "probing"
    BY <1>1, <1>2
  <1>4. endpoint' \in [Launch!Endpoints' ->
                   [pc : {"idle", "lookup", "dial", "up"}, left : Seq(Launch!Address)]]
    BY <1>1, <1>2, <1>3, ProfileStays
  <1>5. EndpointsGranted'
    BY <1>1, <1>2, <1>3, ProfileStays DEF LaunchInv, OutcomesCaused, EndpointsGranted
  <1>6. TouchedGranted'
    BY <1>1, TouchedStays
  <1>7. MountedWhole' /\ StopsCaused'
    BY <1>1, BeforeMounting DEF Mounting
  <1>8. OutcomesCaused'
    <2>1. Launch!Indices = 1..Len(Launch!Sources) /\ Len(Launch!Sources) \in Nat
      BY ProfileTyped DEF LaunchInv, LaunchTyped
    <2>2. \A i \in Launch!Indices : outcome[i] # "pending"
      BY <1>1, <1>2, <2>1 DEF LaunchInv, OutcomesCaused
    <2>3. QED
      BY <1>1, <2>2, ProfileStays DEF LaunchInv, OutcomesCaused
  <1>9. LaunchTyped'
    BY <1>1, <1>4, ProfileStays DEF LaunchInv, LaunchTyped, LaunchStages
  <1>10. QED
    BY <1>5, <1>6, <1>7, <1>8, <1>9 DEF LaunchInv

\* The probe of a source answers, and its connections are dropped.
LEMMA ProbeAnswers ==
    ASSUME LaunchInv, stage = "probing",
           UNCHANGED <<command, profile, stage, at, helped, dialled, mounted>>,
           NEW i \in Launch!Indices, NEW state \in {"available", "failed", "degraded"},
           state = "degraded" => ~Launch!Sources[i].required,
           Launch!Answer(i, state)
    PROVE  LaunchInv'
  <1>1. /\ outcome' = [outcome EXCEPT ![i] = state]
        /\ endpoint' = [e \in DOMAIN endpoint |->
                          IF e[1] = i THEN [pc |-> "idle", left |-> <<>>] ELSE endpoint[e]]
    BY DEF Launch!Answer
  <1>2. /\ endpoint \in [Launch!Endpoints ->
                   [pc : {"idle", "lookup", "dial", "up"}, left : Seq(Launch!Address)]]
        /\ outcome \in [Launch!Indices -> Outcomes]
    BY DEF LaunchInv, LaunchTyped
  <1>3. \A e \in Launch!Endpoints :
            endpoint'[e] = IF e[1] = i THEN [pc |-> "idle", left |-> <<>>] ELSE endpoint[e]
    BY <1>1, <1>2
  <1>4. endpoint' \in [Launch!Endpoints' ->
                   [pc : {"idle", "lookup", "dial", "up"}, left : Seq(Launch!Address)]]
    <2>1. [pc |-> "idle", left |-> <<>>] \in
              [pc : {"idle", "lookup", "dial", "up"}, left : Seq(Launch!Address)]
      OBVIOUS
    <2>2. QED
      BY <1>1, <1>2, <2>1, ProfileStays
  <1>5. EndpointsGranted'
    BY <1>3, ProfileStays DEF LaunchInv, EndpointsGranted
  <1>6. TouchedGranted'
    BY TouchedStays
  <1>7. MountedWhole' /\ StopsCaused'
    BY BeforeMounting DEF Mounting
  <1>8. \A j \in Launch!Indices : outcome'[j] = IF j = i THEN state ELSE outcome[j]
    BY <1>1, <1>2
  <1>9. OutcomesCaused'
    BY <1>8, ProfileStays DEF LaunchInv, OutcomesCaused
  <1>10. outcome' \in [Launch!Indices' -> Outcomes]
    BY <1>1, <1>2, ProfileStays DEF Outcomes
  <1>11. LaunchTyped'
    BY <1>4, <1>10, ProfileStays DEF LaunchInv, LaunchTyped
  <1>12. QED
    BY <1>5, <1>6, <1>7, <1>9, <1>11 DEF LaunchInv

\* An address is dialled only when every address of the name was granted.
LEMMA ProbeDials ==
    ASSUME LaunchInv, stage = "probing",
           UNCHANGED <<command, profile, stage, at, helped, mounted>>,
           NEW e \in Launch!Endpoints, NEW addresses \in Seq(Launch!Address),
           Launch!Probed(Launch!Sources[e[1]].kind), addresses # <<>>,
           ~Launch!Origin(e).private => \A n \in 1..Len(addresses) : ~addresses[n].private,
           Launch!Dial(e, addresses)
    PROVE  LaunchInv'
  <1>1. /\ endpoint' = [endpoint EXCEPT ![e] = [pc |-> "dial", left |-> addresses]]
        /\ dialled' = dialled \cup
              {[source |-> e[1], to |-> Head(addresses), private |-> Launch!Origin(e).private]}
        /\ UNCHANGED outcome
    BY DEF Launch!Dial
  <1>2. /\ endpoint \in [Launch!Endpoints ->
                   [pc : {"idle", "lookup", "dial", "up"}, left : Seq(Launch!Address)]]
        /\ e[1] \in Launch!Indices
    BY ProfileTyped DEF LaunchInv, LaunchTyped
  <1>3. \A f \in Launch!Endpoints :
            endpoint'[f] = IF f = e THEN [pc |-> "dial", left |-> addresses] ELSE endpoint[f]
    BY <1>1, <1>2
  <1>4. endpoint' \in [Launch!Endpoints' ->
                   [pc : {"idle", "lookup", "dial", "up"}, left : Seq(Launch!Address)]]
    BY <1>1, <1>2, ProfileStays
  <1>5. EndpointsGranted'
    BY <1>3, ProfileStays DEF LaunchInv, EndpointsGranted
  <1>6. TouchedGranted'
    <2>1. Head(addresses) = addresses[1] /\ 1 \in 1..Len(addresses)
      OBVIOUS
    <2>2. Head(addresses).private => Launch!Origin(e).private
      BY <2>1
    <2>3. \A d \in dialled' : d.to.private => d.private
      BY <1>1, <2>2 DEF LaunchInv, TouchedGranted
    <2>4. \A i \in {d.source : d \in dialled'} : i = e[1] \/ i \in {d.source : d \in dialled}
      BY <1>1
    <2>5. \A i \in helped' \cup {d.source : d \in dialled'} :
              i \in Launch!Indices /\ Launch!Probed(Launch!Sources[i].kind)
      BY <1>2, <2>4 DEF LaunchInv, TouchedGranted
    <2>6. QED
      BY <2>3, <2>5, ProfileStays DEF TouchedGranted
  <1>7. MountedWhole' /\ StopsCaused'
    BY BeforeMounting DEF Mounting
  <1>8. OutcomesCaused'
    BY <1>1, ProfileStays DEF LaunchInv, OutcomesCaused
  <1>9. LaunchTyped'
    BY <1>1, <1>4, ProfileStays DEF LaunchInv, LaunchTyped
  <1>10. QED
    BY <1>5, <1>6, <1>7, <1>8, <1>9 DEF LaunchInv

\* What an endpoint that is not idle says of its source.
LEMMA EndpointProbed ==
    ASSUME LaunchInv, NEW e \in DOMAIN endpoint, endpoint[e].pc # "idle"
    PROVE  /\ e \in Launch!Endpoints /\ e[1] \in Launch!Indices
           /\ Launch!Probed(Launch!Sources[e[1]].kind)
           /\ endpoint[e].left \in Seq(Launch!Address)
           /\ Launch!Unavailable(e[1]) \in {"failed", "degraded"}
           /\ Launch!Unavailable(e[1]) = "degraded" => ~Launch!Sources[e[1]].required
  BY ProfileTyped DEF LaunchInv, LaunchTyped, EndpointsGranted, Launch!Unavailable

\* A name is resolved: its first address is dialled, or the source has its answer.
LEMMA LaunchLooksUp ==
    ASSUME LaunchInv, NEW e \in DOMAIN endpoint, Launch!Lookup(e)
    PROVE  LaunchInv'
  <1>1. /\ stage = "probing" /\ endpoint[e].pc = "lookup"
        /\ UNCHANGED <<command, profile, stage, at, helped, mounted>>
    BY DEF Launch!Lookup
  <1>2. /\ e \in Launch!Endpoints /\ e[1] \in Launch!Indices
        /\ Launch!Probed(Launch!Sources[e[1]].kind)
        /\ Launch!Unavailable(e[1]) \in {"failed", "degraded"}
        /\ Launch!Unavailable(e[1]) = "degraded" => ~Launch!Sources[e[1]].required
    BY <1>1, EndpointProbed
  <1>3. PICK answer \in Answers :
            IF Launch!Authorized(answer, Launch!Origin(e).private) THEN Launch!Dial(e, answer)
            ELSE Launch!Answer(e[1], Launch!Unavailable(e[1])) /\ UNCHANGED dialled
    BY DEF Launch!Lookup
  <1>4. answer \in Seq(Launch!Address)
    BY LaunchAssumption
  <1>5. CASE Launch!Authorized(answer, Launch!Origin(e).private)
    <2>1. /\ answer # <<>>
          /\ ~Launch!Origin(e).private => \A n \in 1..Len(answer) : ~answer[n].private
      BY <1>4, <1>5 DEF Launch!Authorized, Launch!Range
    <2>2. QED
      BY <1>1, <1>2, <1>3, <1>4, <1>5, <2>1, ProbeDials
  <1>6. CASE ~Launch!Authorized(answer, Launch!Origin(e).private)
    BY <1>1, <1>2, <1>3, <1>6, ProbeAnswers
  <1>7. QED
    BY <1>5, <1>6

\* A connection is made.
LEMMA LaunchConnects ==
    ASSUME LaunchInv, NEW e \in DOMAIN endpoint, Launch!Connected(e)
    PROVE  LaunchInv'
  <1>1. /\ stage = "probing" /\ endpoint[e].pc = "dial"
        /\ UNCHANGED <<command, profile, stage, at, helped, dialled, mounted>>
    BY DEF Launch!Connected
  <1>2. e \in Launch!Endpoints /\ e[1] \in Launch!Indices /\ Launch!Probed(Launch!Sources[e[1]].kind)
    BY <1>1, EndpointProbed
  <1>3. \/ Launch!Answer(e[1], "available")
        \/ endpoint' = [endpoint EXCEPT ![e] = [pc |-> "up", left |-> <<>>]] /\ UNCHANGED outcome
    BY Zenon DEF Launch!Connected
  <1>4. CASE Launch!Answer(e[1], "available")
    BY <1>1, <1>2, <1>4, ProbeAnswers
  <1>5. CASE endpoint' = [endpoint EXCEPT ![e] = [pc |-> "up", left |-> <<>>]] /\ UNCHANGED outcome
    <2>1. endpoint \in [Launch!Endpoints ->
                   [pc : {"idle", "lookup", "dial", "up"}, left : Seq(Launch!Address)]]
      BY DEF LaunchInv, LaunchTyped
    <2>2. \A f \in Launch!Endpoints :
              endpoint'[f] = IF f = e THEN [pc |-> "up", left |-> <<>>] ELSE endpoint[f]
      BY <1>2, <1>5, <2>1
    <2>3. endpoint' \in [Launch!Endpoints' ->
                   [pc : {"idle", "lookup", "dial", "up"}, left : Seq(Launch!Address)]]
      <3>1. [pc |-> "up", left |-> <<>>] \in
                [pc : {"idle", "lookup", "dial", "up"}, left : Seq(Launch!Address)]
        OBVIOUS
      <3>2. QED
        BY <1>1, <1>5, <2>1, <3>1, ProfileStays
    <2>4. EndpointsGranted'
      BY <1>1, <1>2, <2>2, ProfileStays DEF LaunchInv, EndpointsGranted
    <2>5. MountedWhole' /\ StopsCaused'
      BY <1>1, BeforeMounting DEF Mounting
    <2>6. OutcomesCaused'
      BY <1>1, <1>5, ProfileStays DEF LaunchInv, OutcomesCaused
    <2>7. LaunchTyped'
      BY <1>1, <1>5, <2>3, ProfileStays DEF LaunchInv, LaunchTyped
    <2>8. QED
      BY <1>1, <2>4, <2>5, <2>6, <2>7, TouchedStays DEF LaunchInv
  <1>6. QED
    BY <1>3, <1>4, <1>5

\* A connection is refused: what is left of the addresses was granted as well.
LEMMA LaunchRefused ==
    ASSUME LaunchInv, NEW e \in DOMAIN endpoint, Launch!Refused(e)
    PROVE  LaunchInv'
  <1> DEFINE left == endpoint[e].left
  <1>1. /\ stage = "probing" /\ endpoint[e].pc = "dial"
        /\ UNCHANGED <<command, profile, stage, at, helped, mounted>>
    BY DEF Launch!Refused
  <1>2. /\ e \in Launch!Endpoints /\ e[1] \in Launch!Indices
        /\ Launch!Probed(Launch!Sources[e[1]].kind) /\ left \in Seq(Launch!Address)
        /\ Launch!Unavailable(e[1]) \in {"failed", "degraded"}
        /\ Launch!Unavailable(e[1]) = "degraded" => ~Launch!Sources[e[1]].required
    BY <1>1, EndpointProbed
  <1>3. IF Len(left) > 1 THEN Launch!Dial(e, Tail(left))
        ELSE Launch!Answer(e[1], Launch!Unavailable(e[1])) /\ UNCHANGED dialled
    BY DEF Launch!Refused
  <1>4. CASE Len(left) > 1
    <2>1. ~Launch!Origin(e).private => \A n \in 1..Len(left) : ~left[n].private
      BY <1>1, <1>2 DEF LaunchInv, EndpointsGranted
    <2> HIDE DEF left
    <2>2. /\ Tail(left) \in Seq(Launch!Address) /\ Tail(left) # <<>>
          /\ \A n \in 1..Len(Tail(left)) : n + 1 \in 1..Len(left) /\ Tail(left)[n] = left[n + 1]
      <3>1. /\ Tail(left) \in Seq(Launch!Address) /\ Len(Tail(left)) = Len(left) - 1
            /\ Len(left) \in Nat /\ left # <<>>
        BY <1>2, <1>4
      <3>2. Tail(left) # <<>>
        BY <1>4, <3>1
      <3>3. \A n \in 1..Len(Tail(left)) : n + 1 \in 1..Len(left)
        BY <3>1
      <3>4. \A n \in 1..Len(Tail(left)) : Tail(left)[n] = left[n + 1]
        BY <1>2, <3>1
      <3>5. QED
        BY <3>1, <3>2, <3>3, <3>4
    <2>3. ~Launch!Origin(e).private => \A n \in 1..Len(Tail(left)) : ~Tail(left)[n].private
      BY <2>1, <2>2
    <2>4. QED
      BY <1>1, <1>2, <1>3, <1>4, <2>2, <2>3, ProbeDials
  <1>5. CASE ~(Len(left) > 1)
    BY <1>1, <1>2, <1>3, <1>5, ProbeAnswers
  <1>6. QED
    BY <1>4, <1>5

\* Every source that has not answered is unavailable.
LEMMA LaunchProbesEnd ==
    ASSUME LaunchInv, Launch!ProbesEnd
    PROVE  LaunchInv'
  <1>1. /\ stage = "probing" /\ stage' = "verdict"
        /\ UNCHANGED <<command, profile, at, helped, dialled, mounted>>
        /\ outcome' = [i \in Launch!Indices |->
                         IF outcome[i] = "probing" THEN Launch!Unavailable(i) ELSE outcome[i]]
        /\ endpoint' = [e \in DOMAIN endpoint |-> [pc |-> "idle", left |-> <<>>]]
    BY DEF Launch!ProbesEnd, Launch!Ends
  <1>2. /\ DOMAIN endpoint = Launch!Endpoints /\ at[1] \in Nat
        /\ outcome \in [Launch!Indices -> Outcomes]
    BY DEF LaunchInv, LaunchTyped
  <1>3. endpoint' \in [Launch!Endpoints' ->
                   [pc : {"idle", "lookup", "dial", "up"}, left : Seq(Launch!Address)]]
    BY <1>1, <1>2, ProfileStays
  <1>4. EndpointsGranted'
    BY <1>1, <1>2, ProfileStays DEF EndpointsGranted
  <1>5. MountedWhole' /\ StopsCaused'
    BY <1>1, BeforeMounting DEF Mounting
  <1>6. \A i \in Launch!Indices :
            /\ outcome[i] # "pending"
            /\ outcome'[i] = IF outcome[i] = "probing" THEN Launch!Unavailable(i) ELSE outcome[i]
            /\ Launch!Unavailable(i) \in {"failed", "degraded"}
            /\ Launch!Unavailable(i) = "degraded" => ~Launch!Sources[i].required
    BY <1>1 DEF LaunchInv, OutcomesCaused, Launch!Unavailable
  <1>7. OutcomesCaused'
    BY <1>1, <1>6, ProfileStays DEF LaunchInv, OutcomesCaused
  <1>8. outcome' \in [Launch!Indices' -> Outcomes]
    BY <1>1, <1>2, <1>6, ProfileStays DEF Outcomes
  <1>9. LaunchTyped'
    BY <1>1, <1>3, <1>8, ProfileStays DEF LaunchInv, LaunchTyped, LaunchStages
  <1>10. QED
    BY <1>1, <1>4, <1>5, <1>7, <1>9, TouchedStays DEF LaunchInv

\* A launch goes on only with sources it can mount and whose answers are
\* acceptable; one that stops has a source that is the cause.
LEMMA LaunchJudges ==
    ASSUME LaunchInv, Launch!Verdict
    PROVE  LaunchInv'
  <1>1. /\ stage = "verdict"
        /\ UNCHANGED <<command, profile, at, helped, outcome, endpoint, dialled, mounted>>
    BY DEF Launch!Verdict
  <1>2. /\ command \in {"serve", "probe"} /\ outcome \in [Launch!Indices -> Outcomes]
        /\ mounted = Launch!Nothing
    BY <1>1 DEF LaunchInv, LaunchTyped, MountedWhole, Mounting
  <1>3. \/ command = "probe" /\ stage' = "success"
        \/ /\ command = "probe" /\ stage' = "unavailable"
           /\ \E i \in Launch!Indices : ~Launch!Acceptable(i)
        \/ command = "serve" /\ stage' = "unavailable" /\ Launch!Stops
        \/ command = "serve" /\ ~Launch!Stops /\ stage' \in {"mount", "noroots"}
    BY <1>1, <1>2 DEF Launch!Verdict, Launch!Ends
  <1>4. EndpointsGranted' /\ TouchedGranted' /\ endpoint' \in [Launch!Endpoints' ->
                   [pc : {"idle", "lookup", "dial", "up"}, left : Seq(Launch!Address)]]
    BY <1>1, EndpointsStay, TouchedStays
  <1>5. LaunchTyped'
    BY <1>1, <1>2, <1>3, <1>4, ProfileStays DEF LaunchInv, LaunchTyped, LaunchStages
  <1>6. OutcomesCaused'
    BY <1>1, <1>3, ProfileStays DEF LaunchInv, OutcomesCaused
  <1>7. MountedWhole'
    <2>1. stage' = "mount" => /\ command = "serve"
                              /\ \A i \in Launch!Indices :
                                    Launch!Mountable(Launch!Sources[i].kind) /\ Launch!Acceptable(i)
      BY <1>3 DEF Launch!Stops
    <2>2. \A i \in Launch!Indices : Launch!Acceptable(i)' <=> Launch!Acceptable(i)
      BY <1>1, ProfileStays DEF Launch!Acceptable
    <2>3. \A kind : Launch!Mountable(kind)' <=> Launch!Mountable(kind)
      BY DEF Launch!Mountable
    <2>4. stage' \in Mounting => stage' = "mount"
      BY <1>3 DEF Mounting
    <2>5. /\ mounted' = Launch!Nothing /\ mounted'.allowed = {} /\ mounted'.degraded = {}
          /\ mounted'.credentials = {} /\ mounted'.helped = {}
      BY <1>1, <1>2 DEF Launch!Nothing
    <2>6. QED
      BY <1>1, <1>3, <2>1, <2>2, <2>3, <2>4, <2>5, ProfileStays DEF MountedWhole, Launch!Nothing
  <1>8. StopsCaused'
    <2>1. SUFFICES ASSUME stage' = "unavailable"
                   PROVE  \E i \in Launch!Indices :
                             \/ IF command = "serve" THEN ~Launch!Mountable(Launch!Sources[i].kind)
                                ELSE Launch!Sources[i].kind \in Unprobed
                             \/ outcome[i] = "failed"
      BY <1>1, ProfileStays DEF StopsCaused, Launch!Mountable
    <2>2. PICK i \in Launch!Indices : \/ ~Launch!Acceptable(i)
                                      \/ /\ command = "serve"
                                         /\ ~Launch!Mountable(Launch!Sources[i].kind)
      BY <1>3, <2>1 DEF Launch!Stops
    <2>3. CASE ~Launch!Acceptable(i)
      <3>1. outcome[i] \in {"unsupported", "failed"}
        BY <1>1, <1>2, <2>3 DEF LaunchInv, OutcomesCaused, Outcomes, Launch!Acceptable
      <3>2. CASE outcome[i] = "unsupported"
        <4>1. ~Launch!Probed(Launch!Sources[i].kind)
          BY <3>2 DEF LaunchInv, OutcomesCaused
        <4>2. \/ Launch!Sources[i].kind \in Unprobed
              \/ command = "serve" /\ ~Launch!Mountable(Launch!Sources[i].kind)
          BY <4>1 DEF Launch!Probed
        <4>3. QED
          BY <4>2, KindAssumption
      <3>3. QED
        BY <3>1, <3>2
    <2>4. QED
      BY <2>2, <2>3
  <1>9. QED
    BY <1>4, <1>5, <1>6, <1>7, <1>8 DEF LaunchInv

\* A step of the mounts: what it adds to the mount is of one origin.
LEMMA LaunchMounts ==
    ASSUME LaunchInv, Launch!Mount
    PROVE  LaunchInv'
  <1>0. /\ stage = "mount"
        /\ UNCHANGED <<command, profile, at, helped, outcome, endpoint, dialled>>
    BY DEF Launch!Mount
  <1>2. DOMAIN mounted = {"allowed", "degraded", "credentials", "helped"}
    BY DEF LaunchInv, LaunchTyped
  <1>7. PICK e \in Launch!ToMount :
          LET allowed == [mounted EXCEPT !.allowed = @ \cup {e}]
              given(value) == [allowed EXCEPT !.credentials = @ \cup {<<e, value>>}]
              ran == mounted.helped \cup {e[1]}
          IN /\ \A f \in Launch!ToMount \ {e} : Launch!Precedes(e, f)
             /\ IF Launch!HeldApart(e[1])
                THEN mounted' = [mounted EXCEPT !.degraded = @ \cup {e}] /\ UNCHANGED stage
                ELSE CASE Launch!Origin(e).secret = "none" -> mounted' = allowed /\ UNCHANGED stage
                       [] Launch!Origin(e).secret = "environment" ->
                            mounted' = given(Launch!EnvironmentValue) /\ UNCHANGED stage
                       [] Launch!Origin(e).secret = "helper" ->
                            \/ /\ \E value \in Values :
                                     mounted' = [given(value) EXCEPT !.helped = ran]
                               /\ UNCHANGED stage
                            \/ mounted' = [mounted EXCEPT !.helped = ran] /\ Launch!Ends("nosecret")
    BY Zenon DEF Launch!Mount
  <1>8. /\ e \in Launch!Endpoints
        /\ Launch!Origin(e).secret \in {"none", "environment", "helper"}
    BY ProfileTyped DEF LaunchInv, LaunchTyped, Launch!ToMount
  <1>1. /\ stage = "mount" /\ stage' \in {"mount", "nosecret"}
        /\ UNCHANGED <<command, profile, at, helped, outcome, endpoint, dialled>>
    BY <1>0, <1>7, <1>8 DEF Launch!Ends
  <1>3. EndpointsGranted' /\ TouchedGranted' /\ endpoint' \in [Launch!Endpoints' ->
                   [pc : {"idle", "lookup", "dial", "up"}, left : Seq(Launch!Address)]]
    BY <1>1, EndpointsStay, TouchedStays
  <1>4. OutcomesCaused'
    BY <1>1, ProfileStays DEF LaunchInv, OutcomesCaused
  <1>5. StopsCaused'
    BY <1>1 DEF StopsCaused
  <1>6. /\ stage' \in Mounting /\ stage' # "serving" /\ command' = "serve"
        /\ \A i \in Launch!Indices' :
              (Launch!Mountable(Launch!Sources[i].kind) /\ Launch!Acceptable(i))'
    BY <1>1, ProfileStays
       DEF LaunchInv, MountedWhole, Mounting, Launch!Mountable, Launch!Acceptable
  <1>9. \/ /\ outcome[e[1]] = "degraded"
           /\ DOMAIN mounted' = DOMAIN mounted /\ mounted'.degraded = mounted.degraded \cup {e}
           /\ mounted'.allowed = mounted.allowed /\ mounted'.credentials = mounted.credentials
           /\ mounted'.helped = mounted.helped
        \/ /\ outcome[e[1]] # "degraded" /\ DOMAIN mounted' = DOMAIN mounted
           /\ mounted'.degraded = mounted.degraded
           /\ mounted'.helped \in {mounted.helped, mounted.helped \cup {e[1]}}
           /\ \/ /\ Launch!Origin(e).secret = "none"
                 /\ mounted'.allowed = mounted.allowed \cup {e}
                 /\ mounted'.credentials = mounted.credentials
              \/ /\ Launch!Origin(e).secret # "none"
                 /\ mounted'.allowed = mounted.allowed \cup {e}
                 /\ \E value : mounted'.credentials = mounted.credentials \cup {<<e, value>>}
              \/ /\ mounted'.allowed = mounted.allowed
                 /\ mounted'.credentials = mounted.credentials
    <2>1. CASE Launch!HeldApart(e[1])
      BY <1>2, <1>7, <2>1 DEF Launch!HeldApart
    <2>2. CASE ~Launch!HeldApart(e[1]) /\ Launch!Origin(e).secret = "none"
      BY <1>2, <1>7, <2>2 DEF Launch!HeldApart
    <2>3. CASE ~Launch!HeldApart(e[1]) /\ Launch!Origin(e).secret = "environment"
      BY <1>2, <1>7, <2>3 DEF Launch!HeldApart
    <2>4. CASE ~Launch!HeldApart(e[1]) /\ Launch!Origin(e).secret = "helper"
      <3> DEFINE given(value) == [[mounted EXCEPT !.allowed = @ \cup {e}]
                                     EXCEPT !.credentials = @ \cup {<<e, value>>}]
                 ran == mounted.helped \cup {e[1]}
      <3>1. \/ \E value \in Values : mounted' = [given(value) EXCEPT !.helped = ran]
            \/ mounted' = [mounted EXCEPT !.helped = ran]
        BY <1>7, <2>4 DEF Launch!Ends
      <3>2. CASE mounted' = [mounted EXCEPT !.helped = ran]
        BY <1>2, <2>4, <3>2 DEF Launch!HeldApart
      <3>3. CASE \E value \in Values : mounted' = [given(value) EXCEPT !.helped = ran]
        BY <1>2, <2>4, <3>3 DEF Launch!HeldApart
      <3>4. QED
        BY <3>1, <3>2, <3>3
    <2>5. QED
      BY <1>8, <2>1, <2>2, <2>3, <2>4
  <1>10. MountedWhole'
    <2>1. mounted'.allowed \subseteq Launch!Endpoints
      BY <1>8, <1>9 DEF LaunchInv, MountedWhole
    <2>2. ASSUME NEW f \in mounted'.allowed
          PROVE  /\ outcome[f[1]] # "degraded"
                 /\ Launch!Origin(f).secret # "none" => \E c \in mounted'.credentials : c[1] = f
      <3>1. CASE f \in mounted.allowed
        BY <1>9, <3>1 DEF LaunchInv, MountedWhole
      <3>2. CASE f \notin mounted.allowed
        <4>1. f = e /\ outcome[e[1]] # "degraded"
          BY <1>9, <2>2, <3>2
        <4>2. Launch!Origin(e).secret # "none" =>
                  \E value : mounted'.credentials = mounted.credentials \cup {<<e, value>>}
          BY <1>9, <2>2, <3>2
        <4>3. \A value : <<e, value>>[1] = e
          OBVIOUS
        <4>4. QED
          BY <4>1, <4>2, <4>3
      <3>3. QED
        BY <3>1, <3>2
    <2>3. \A f \in mounted'.degraded : outcome[f[1]] = "degraded"
      BY <1>9 DEF LaunchInv, MountedWhole
    <2>4. \A c \in mounted'.credentials :
              c[1] \in mounted'.allowed /\ Launch!Origin(c[1]).secret # "none"
      BY <1>9 DEF LaunchInv, MountedWhole
    <2>5. \A i \in mounted'.helped : outcome[i] # "degraded"
      BY <1>9 DEF LaunchInv, MountedWhole
    <2>6. QED
      BY <1>1, <1>6, <2>1, <2>2, <2>3, <2>4, <2>5, ProfileStays DEF MountedWhole
  <1>11. LaunchTyped'
    BY <1>1, <1>2, <1>3, <1>9, ProfileStays DEF LaunchInv, LaunchTyped, LaunchStages
  <1>12. QED
    BY <1>3, <1>4, <1>5, <1>10, <1>11 DEF LaunchInv

\* A launch serves when nothing is left to be mounted.
LEMMA LaunchServes ==
    ASSUME LaunchInv, Launch!Serve
    PROVE  LaunchInv'
  <1>1. /\ stage = "mount" /\ stage' = "serving" /\ Launch!ToMount = {}
        /\ UNCHANGED <<command, profile, at, helped, outcome, endpoint, dialled, mounted>>
    BY DEF Launch!Serve, Launch!Ends
  <1>2. EndpointsGranted' /\ TouchedGranted' /\ endpoint' \in [Launch!Endpoints' ->
                   [pc : {"idle", "lookup", "dial", "up"}, left : Seq(Launch!Address)]]
    BY <1>1, EndpointsStay, TouchedStays
  <1>3. LaunchTyped'
    BY <1>1, <1>2, ProfileStays DEF LaunchInv, LaunchTyped, LaunchStages
  <1>4. OutcomesCaused'
    BY <1>1, ProfileStays DEF LaunchInv, OutcomesCaused
  <1>5. Launch!ToMount' = {}
    BY <1>1, ProfileStays DEF Launch!ToMount, Launch!Mountable
  <1>6. MountedWhole'
    BY <1>1, <1>5, ProfileStays
       DEF LaunchInv, MountedWhole, Mounting, Launch!Mountable, Launch!Acceptable
  <1>7. QED
    BY <1>1, <1>2, <1>3, <1>4, <1>6 DEF LaunchInv, StopsCaused

\* Every step of a launch keeps the invariant.
LEMMA LaunchStep ==
    ASSUME LaunchInv, Launch!LaunchNext
    PROVE  LaunchInv'
  <1>1. CASE \E e \in DOMAIN endpoint : Launch!Lookup(e)
    BY <1>1, LaunchLooksUp
  <1>2. CASE \E e \in DOMAIN endpoint : Launch!Connected(e)
    BY <1>2, LaunchConnects
  <1>3. CASE \E e \in DOMAIN endpoint : Launch!Refused(e)
    BY <1>3, LaunchRefused
  <1>4. QED
    BY <1>1, <1>2, <1>3, LaunchChecks, LaunchSkips, LaunchRunsHelper, LaunchTargets,
       LaunchStartsProbes, LaunchProbesEnd, LaunchJudges, LaunchMounts, LaunchServes
       DEF Launch!LaunchNext

\* A step of another part changes nothing here.
LEMMA LaunchStays ==
    ASSUME LaunchInv, UNCHANGED launchVars
    PROVE  LaunchInv'
  <1>1. UNCHANGED <<command, profile, stage, at, helped, outcome, endpoint, dialled, mounted>>
    BY DEF launchVars
  <1>2. /\ \A i : Launch!Acceptable(i)' <=> Launch!Acceptable(i)
        /\ \A kind : Launch!Mountable(kind)' <=> Launch!Mountable(kind)
        /\ Launch!ToMount' = Launch!ToMount
    BY <1>1, ProfileStays DEF Launch!Acceptable, Launch!Mountable, Launch!ToMount
  <1>3. EndpointsGranted' /\ TouchedGranted' /\ endpoint' \in [Launch!Endpoints' ->
                   [pc : {"idle", "lookup", "dial", "up"}, left : Seq(Launch!Address)]]
    BY <1>1, EndpointsStay, TouchedStays
  <1>4. LaunchTyped'
    BY <1>1, <1>3, ProfileStays DEF LaunchInv, LaunchTyped
  <1>5. OutcomesCaused'
    BY <1>1, ProfileStays DEF LaunchInv, OutcomesCaused
  <1>6. MountedWhole'
    BY <1>1, <1>2, ProfileStays DEF LaunchInv, MountedWhole
  <1>7. StopsCaused'
    BY <1>1, <1>2, ProfileStays DEF LaunchInv, StopsCaused
  <1>8. QED
    BY <1>3, <1>4, <1>5, <1>6, <1>7 DEF LaunchInv

\* What was touched was granted, and what is served is what the probes found.
LEMMA LaunchGranted ==
    ASSUME LaunchInv
    PROVE  Launch!LaunchTouchesGranted /\ Launch!LaunchFollowsProbes
  <1>1. Launch!LaunchTouchesGranted
    <2>1. \A d \in dialled : d.to.private => d.private
      BY DEF LaunchInv, TouchedGranted
    <2>2. command = "serve" =>
              \A i \in helped \cup {d.source : d \in dialled} :
                  Launch!Mountable(Launch!Sources[i].kind)
      BY DEF LaunchInv, TouchedGranted, Launch!Probed
    <2>3. stage \notin {"probing", "targets"} => \A e \in DOMAIN endpoint : endpoint[e].pc = "idle"
      BY DEF LaunchInv, LaunchTyped, EndpointsGranted
    <2>4. QED
      BY <2>1, <2>2, <2>3 DEF Launch!LaunchTouchesGranted
  <1>2. ASSUME stage = "serving", NEW i \in Launch!Indices
        PROVE  LET all == {<<i, o>> : o \in Launch!OriginsOf(i)}
                   secret == {e \in all : Launch!Origin(e).secret # "none"}
                   given == {c[1] : c \in {c \in mounted.credentials : c[1][1] = i}}
               IN \/ /\ outcome[i] = "available"
                     /\ all \subseteq mounted.allowed /\ all \cap mounted.degraded = {}
                     /\ given = secret
                  \/ /\ ~Launch!Sources[i].required /\ all \subseteq mounted.degraded
                     /\ all \cap mounted.allowed = {} /\ given = {} /\ i \notin mounted.helped
    <2> DEFINE all == {<<i, o>> : o \in Launch!OriginsOf(i)}
               secret == {e \in all : Launch!Origin(e).secret # "none"}
               given == {c[1] : c \in {c \in mounted.credentials : c[1][1] = i}}
    <2>1. /\ Launch!Mountable(Launch!Sources[i].kind) /\ Launch!Acceptable(i)
          /\ Launch!ToMount = {}
      BY <1>2 DEF LaunchInv, MountedWhole, Mounting
    <2>2. \A e \in all : e \in Launch!Endpoints /\ e[1] = i
      BY <1>2, ProfileTyped DEF LaunchInv, LaunchTyped
    <2>3. \A e \in all : e \in mounted.allowed \/ e \in mounted.degraded
      BY <2>1, <2>2 DEF Launch!ToMount
    <2>4. \A e \in Launch!Endpoints : e[1] = i => e \in all
      BY ProfileTyped DEF LaunchInv, LaunchTyped
    <2>5. CASE outcome[i] = "degraded"
      <3>1. ~Launch!Sources[i].required
        BY <1>2, <2>5 DEF LaunchInv, OutcomesCaused
      <3>2. all \cap mounted.allowed = {}
        BY <2>2, <2>5 DEF LaunchInv, MountedWhole
      <3>3. given = {}
        BY <2>5 DEF LaunchInv, MountedWhole
      <3>4. i \notin mounted.helped
        BY <2>5 DEF LaunchInv, MountedWhole
      <3>5. QED
        BY <2>3, <3>1, <3>2, <3>3, <3>4
    <2>6. CASE outcome[i] = "available"
      <3>1. all \cap mounted.degraded = {}
        BY <2>2, <2>6 DEF LaunchInv, MountedWhole
      <3>2. given \subseteq secret
        BY <2>4 DEF LaunchInv, MountedWhole
      <3>3. ASSUME NEW e \in secret
            PROVE  e \in given
        <4>1. e \in mounted.allowed /\ Launch!Origin(e).secret # "none" /\ e[1] = i
          BY <2>2, <2>3, <3>1
        <4>2. PICK c \in mounted.credentials : c[1] = e
          BY <4>1 DEF LaunchInv, MountedWhole
        <4>3. QED
          BY <4>1, <4>2
      <3>4. QED
        BY <2>3, <2>6, <3>1, <3>2, <3>3
    <2>7. QED
      BY <2>1, <2>5, <2>6 DEF Launch!Acceptable
  <1>3. Launch!LaunchFollowsProbes
    BY <1>2 DEF LaunchInv, StopsCaused, Launch!LaunchFollowsProbes
  <1>4. QED
    BY <1>1, <1>3

-----------------------------------------------------------------------------
(* Discovery: elements in their order *)

\* The library's operators are the same in every module that has them.
LEMMA EngineCounts ==
    ASSUME NEW S
    PROVE  Engine!Cardinality(S) = Cardinality(S)
  BY DEF Cardinality, Engine!Cardinality

\* A bijection, said in full.
LEMMA Bijects ==
    ASSUME NEW S, NEW T, NEW f
    PROVE  f \in Bijection(S, T) <=>
             /\ f \in [S -> T]
             /\ \A a, b \in S : f[a] = f[b] => a = b
             /\ \A t \in T : \E s \in S : f[s] = t
  BY DEF Bijection, Injection, Surjection, IsInjective

\* Where a sequence lists a set in the order of a relation, that is how the
\* set is ranked.
LEMMA RankedIs ==
    ASSUME NEW n \in Nat, NEW S, NEW R, NEW f \in Bijection(1..n, S),
           \A i, j \in 1..n : <<f[i], f[j]>> \in R <=> i < j
    PROVE  Engine!Ranked(S, R) = f /\ Cardinality(S) = n
  <1> DEFINE below(a) == {b \in S : <<b, a>> \in R}
  <1>1. IsFiniteSet(1..n) /\ Cardinality(1..n) = n
    BY FS_Interval
  <1>2. ExistsBijection(1..n, S)
    BY DEF ExistsBijection
  <1>3. Cardinality(S) = n
    BY <1>2, FS_CountingElements
  <1>4. f \in [1..n -> S] /\ (\A a \in S : \E i \in 1..n : f[i] = a)
        /\ (\A i, j \in 1..n : f[i] = f[j] => i = j)
    BY Bijects
  <1>5. ASSUME NEW i \in 1..n
        PROVE  Cardinality(below(f[i])) = i - 1
    <2> DEFINE g == [j \in 1..(i - 1) |-> f[j]]
    <2>1. g \in Bijection(1..(i - 1), below(f[i]))
      <3>1. \A j \in 1..(i - 1) : j \in 1..n /\ j < i
        OBVIOUS
      <3>2. g \in [1..(i - 1) -> below(f[i])]
        BY <1>4, <3>1
      <3>3. \A j, k \in 1..(i - 1) : g[j] = g[k] => j = k
        BY <1>4, <3>1
      <3>4. \A a \in below(f[i]) : \E j \in 1..(i - 1) : g[j] = a
        <4>1. TAKE a \in below(f[i])
        <4>2. PICK j \in 1..n : f[j] = a
          BY <1>4
        <4>3. j < i
          BY <4>2
        <4>4. j \in 1..(i - 1)
          BY <4>3
        <4>5. QED
          BY <4>2, <4>4
      <3> HIDE DEF g, below
      <3>5. QED
        BY <3>2, <3>3, <3>4, Bijects
    <2> HIDE DEF below, g
    <2>2. ExistsBijection(1..(i - 1), below(f[i])) /\ i - 1 \in Nat
      BY <2>1 DEF ExistsBijection
    <2>3. QED
      BY <2>2, FS_CountingElements
  <1>6. ASSUME NEW i \in 1..n
        PROVE  (CHOOSE a \in S : Engine!Cardinality(below(a)) = i - 1) = f[i]
    <2>1. ASSUME NEW a \in S, Cardinality(below(a)) = i - 1
          PROVE  a = f[i]
      <3>1. PICK j \in 1..n : f[j] = a
        BY <1>4
      <3>2. Cardinality(below(a)) = j - 1
        BY <3>1, <1>5
      <3>3. j = i
        BY <2>1, <3>2
      <3>4. QED
        BY <3>1, <3>3
    <2>2. f[i] \in S /\ Cardinality(below(f[i])) = i - 1
      BY <1>4, <1>5
    <2> HIDE DEF below
    <2>3. QED
      BY <2>1, <2>2, EngineCounts
  <1>7. Engine!Ranked(S, R) = [i \in 1..n |-> CHOOSE a \in S : Engine!Cardinality(below(a)) = i - 1]
    BY <1>3, EngineCounts DEF Engine!Ranked
  <1>8. Engine!Ranked(S, R) = [i \in 1..n |-> f[i]]
    <2> HIDE DEF below
    <2>1. QED
      BY <1>6, <1>7
  <1>9. QED
    BY <1>3, <1>4, <1>8

\* An interval ranks as it counts.
LEMMA RankedInterval ==
    ASSUME NEW a \in Int, NEW b \in Int, a <= b + 1
    PROVE  /\ Engine!Ranked(a..b, {p \in (a..b) \X (a..b) : p[1] < p[2]})
                = [n \in 1..(b - a + 1) |-> a + n - 1]
           /\ Cardinality(a..b) = b - a + 1
  <1> DEFINE n == b - a + 1
             R == {p \in (a..b) \X (a..b) : p[1] < p[2]}
             f == [i \in 1..n |-> a + i - 1]
  <1>1. n \in Nat
    OBVIOUS
  <1>2. \A i \in 1..n : f[i] = a + i - 1 /\ f[i] \in a..b
    OBVIOUS
  <1>3. f \in Bijection(1..n, a..b)
    <2>1. f \in [1..n -> a..b]
      BY <1>2
    <2>2. \A i, j \in 1..n : f[i] = f[j] => i = j
      BY <1>2
    <2>3. \A t \in a..b : \E i \in 1..n : f[i] = t
      <3>1. \A t \in a..b : t - a + 1 \in 1..n /\ f[t - a + 1] = t
        OBVIOUS
      <3>2. QED
        BY <3>1
    <2> HIDE DEF f, n
    <2>4. QED
      BY <2>1, <2>2, <2>3, Bijects
  <1>4. \A i, j \in 1..n : <<f[i], f[j]>> \in R <=> i < j
    <2>1. \A i, j \in 1..n : <<f[i], f[j]>> \in R <=> f[i] < f[j]
      <3> HIDE DEF f, n
      <3>1. QED
        BY <1>2
    <2>2. QED
      BY <1>2, <2>1
  <1> HIDE DEF n, R, f
  <1>5. Engine!Ranked(a..b, R) = f /\ Cardinality(a..b) = n
    BY <1>1, <1>3, <1>4, RankedIs
  <1>6. QED
    BY <1>5 DEF n, R, f

\* A ranked set is a sequence, whatever the order.
LEMMA RankedSeq ==
    ASSUME NEW S, IsFiniteSet(S), NEW R
    PROVE  \E T : Engine!Ranked(S, R) \in Seq(T)
  <1> DEFINE f == Engine!Ranked(S, R)
             T == {f[n] : n \in 1..Cardinality(S)}
  <1>1. Cardinality(S) \in Nat /\ Engine!Cardinality(S) = Cardinality(S)
    BY FS_CardinalityType, EngineCounts
  <1>2. f = [n \in 1..Cardinality(S) |-> f[n]]
    <2> DEFINE e(n) == CHOOSE a \in S : Engine!Cardinality({b \in S : <<b, a>> \in R}) = n - 1
    <2>1. f = [n \in 1..Engine!Cardinality(S) |-> e(n)]
      BY DEF Engine!Ranked
    <2> HIDE DEF e, f
    <2>2. QED
      BY <1>1, <2>1
  <1> HIDE DEF f
  <1>3. f \in [1..Cardinality(S) -> T]
    BY <1>2
  <1>4. f \in Seq(T)
    BY <1>1, <1>3, SeqDef
  <1>5. QED
    BY <1>4 DEF f

\* R puts the elements of S in one order, all of them.
Orders(R, S) ==
    /\ \A a \in S : <<a, a>> \notin R
    /\ \A a, b, c \in S : <<a, b>> \in R /\ <<b, c>> \in R => <<a, c>> \in R
    /\ \A a, b \in S : a = b \/ <<a, b>> \in R \/ <<b, a>> \in R

\* In an order every element has a place of its own.
LEMMA PlacesTaken ==
    ASSUME NEW S, IsFiniteSet(S), NEW R, Orders(R, S), NEW i \in 1..Cardinality(S)
    PROVE  \E a \in S : Cardinality({b \in S : <<b, a>> \in R}) = i - 1
  <1> DEFINE n == Cardinality(S)
             below(a) == {b \in S : <<b, a>> \in R}
             rank == [a \in S |-> Cardinality(below(a)) + 1]
  <1>1. n \in Nat /\ IsFiniteSet(1..n) /\ Cardinality(1..n) = n
    <2>1. n \in Nat
      BY FS_CardinalityType
    <2>2. QED
      BY <2>1, FS_Interval
  <1>2. ASSUME NEW a \in S
        PROVE  IsFiniteSet(below(a)) /\ Cardinality(below(a)) \in Nat /\ Cardinality(below(a)) <= n - 1
    <2>1. below(a) \in SUBSET (S \ {a})
      BY DEF Orders
    <2>2. IsFiniteSet(S \ {a}) /\ Cardinality(S \ {a}) = n - 1
      BY FS_RemoveElement
    <2> HIDE DEF below
    <2>3. QED
      BY <2>1, <2>2, FS_Subset, FS_CardinalityType
  <1>3. ASSUME NEW a \in S, NEW b \in S, <<a, b>> \in R
        PROVE  Cardinality(below(a)) < Cardinality(below(b))
    <2>1. below(a) \in SUBSET below(b) /\ a \in below(b) /\ a \notin below(a)
      BY <1>3 DEF Orders
    <2> HIDE DEF below
    <2>2. Cardinality(below(a)) <= Cardinality(below(b)) /\ Cardinality(below(a)) # Cardinality(below(b))
      BY <1>2, <2>1, FS_Subset
    <2>3. QED
      BY <1>2, <2>2
  <1>4. rank \in [S -> 1..n]
    <2>1. \A a \in S : Cardinality(below(a)) + 1 \in 1..n
      <3> HIDE DEF below
      <3>1. QED
        BY <1>1, <1>2
    <2>2. QED
      BY <2>1
  <1>5. \A a, b \in S : rank[a] = rank[b] => a = b
    <2>1. TAKE a, b \in S
    <2>2. Cardinality(below(a)) \in Nat /\ Cardinality(below(b)) \in Nat
      BY <1>2
    <2>3. HAVE rank[a] = rank[b]
    <2>4. rank[a] = Cardinality(below(a)) + 1 /\ rank[b] = Cardinality(below(b)) + 1
      OBVIOUS
    <2>5. Cardinality(below(a)) = Cardinality(below(b))
      <3>1. PICK x \in Nat, y \in Nat : x = Cardinality(below(a)) /\ y = Cardinality(below(b))
        BY <2>2
      <3> HIDE DEF below, rank
      <3>2. x + 1 = y + 1
        BY <2>3, <2>4, <3>1
      <3>3. x = y
        BY <3>2
      <3>4. QED
        BY <3>1, <3>3
    <2>6. <<a, b>> \notin R /\ <<b, a>> \notin R
      <3> HIDE DEF below, rank
      <3>1. QED
        BY <1>3, <2>2, <2>5
    <2>7. QED
      BY <2>6 DEF Orders
  <1> HIDE DEF rank
  <1>6. rank \in Injection(S, 1..n)
    BY <1>4, <1>5 DEF Injection, IsInjective
  <1>7. rank \in Surjection(S, 1..n)
    BY <1>1, <1>6, FS_Injection
  <1>8. PICK a \in S : rank[a] = i
    BY <1>7 DEF Surjection
  <1>9. rank[a] = Cardinality(below(a)) + 1
    BY DEF rank
  <1>10. Cardinality(below(a)) = i - 1
    <2> HIDE DEF below
    <2>1. QED
      BY <1>2, <1>8, <1>9
  <1>11. QED
    BY <1>10

\* An order on a finite set ranks it: every element once, and in that order.
LEMMA RankedLists ==
    ASSUME NEW S, IsFiniteSet(S), NEW R, Orders(R, S)
    PROVE  /\ Cardinality(S) \in Nat
           /\ Engine!Ranked(S, R) \in Bijection(1..Cardinality(S), S)
           /\ \A i, j \in 1..Cardinality(S) :
                 <<Engine!Ranked(S, R)[i], Engine!Ranked(S, R)[j]>> \in R <=> i < j
  <1> DEFINE n == Cardinality(S)
             below(a) == {b \in S : <<b, a>> \in R}
             place(i) == CHOOSE a \in S : Engine!Cardinality(below(a)) = i - 1
             f == [i \in 1..n |-> place(i)]
  <1>1. n \in Nat
    BY FS_CardinalityType
  <1>2. Engine!Ranked(S, R) = f
    BY EngineCounts DEF Engine!Ranked
  <1>3. ASSUME NEW i \in 1..n
        PROVE  place(i) \in S /\ Cardinality(below(place(i))) = i - 1
    <2>1. \E a \in S : Cardinality(below(a)) = i - 1
      BY PlacesTaken
    <2> HIDE DEF below
    <2>2. \E a \in S : Engine!Cardinality(below(a)) = i - 1
      BY <2>1, EngineCounts
    <2>3. place(i) \in S /\ Engine!Cardinality(below(place(i))) = i - 1
      BY <2>2
    <2>4. QED
      BY <2>3, EngineCounts
  <1>4. ASSUME NEW a \in S, NEW b \in S, <<a, b>> \in R
        PROVE  Cardinality(below(a)) < Cardinality(below(b))
    <2>1. below(a) \in SUBSET below(b) /\ a \in below(b) /\ a \notin below(a)
      BY <1>4 DEF Orders
    <2>2. below(b) \in SUBSET S
      OBVIOUS
    <2> HIDE DEF below
    <2>3. IsFiniteSet(below(b)) /\ IsFiniteSet(below(a))
      BY <2>1, <2>2, FS_Subset
    <2>4. Cardinality(below(a)) <= Cardinality(below(b)) /\ Cardinality(below(a)) # Cardinality(below(b))
      BY <2>1, <2>3, FS_Subset
    <2>5. Cardinality(below(a)) \in Nat /\ Cardinality(below(b)) \in Nat
      BY <2>3, FS_CardinalityType
    <2>6. QED
      BY <2>4, <2>5
  <1> HIDE DEF below, place
  <1>5. \A i \in 1..n : f[i] \in S /\ Cardinality(below(f[i])) = i - 1
    BY <1>3
  <1>6. f \in [1..n -> S]
    BY <1>3
  <1> HIDE DEF f, n
  <1>7. \A i, j \in 1..n : f[i] = f[j] => i = j
    <2>1. TAKE i, j \in 1..n
    <2>2. HAVE f[i] = f[j]
    <2>3. i - 1 = j - 1
      BY <1>5, <2>2
    <2>4. QED
      BY <2>3
  <1>8. \A i, j \in 1..n : <<f[i], f[j]>> \in R => i < j
    <2>1. TAKE i, j \in 1..n
    <2>2. HAVE <<f[i], f[j]>> \in R
    <2>3. Cardinality(below(f[i])) < Cardinality(below(f[j]))
      BY <1>4, <1>5, <2>2
    <2>4. i - 1 < j - 1
      BY <1>5, <2>3
    <2>5. QED
      BY <2>4
  <1>9. ASSUME NEW i \in 1..n, NEW j \in 1..n, i < j
        PROVE  <<f[i], f[j]>> \in R
    <2>1. f[i] # f[j]
      BY <1>7, <1>9
    <2>2. <<f[i], f[j]>> \in R \/ <<f[j], f[i]>> \in R
      BY <1>5, <2>1 DEF Orders
    <2>3. ~(j < i)
      BY <1>9
    <2>4. QED
      BY <1>8, <2>2, <2>3
  <1>10. \A a \in S : \E i \in 1..n : f[i] = a
    <2>1. IsFiniteSet(1..n) /\ Cardinality(1..n) = n
      BY <1>1, FS_Interval
    <2>2. f \in Injection(1..n, S)
      BY <1>6, <1>7 DEF Injection, IsInjective
    <2>3. f \in Surjection(1..n, S)
      BY <2>1, <2>2, FS_Injection DEF n
    <2>4. QED
      BY <2>3 DEF Surjection
  <1>11. f \in Bijection(1..n, S)
    BY <1>6, <1>7, <1>10, Bijects
  <1>12. QED
    BY <1>1, <1>2, <1>8, <1>9, <1>11 DEF n

\* Of the records of one line of a resource there is one that no other is before.
LEMMA LeastExists ==
    ASSUME NEW records \in SUBSET Engine!Record, NEW a \in records
    PROVE  \E b \in Engine!Least(records) : b.ref = a.ref /\ b.line = a.line
  <1> DEFINE same == {b \in records : b.ref = a.ref /\ b.line = a.line}
             columns == {b.text.columns : b \in same}
  <1>1. \A b \in records : b.ref \in Nat /\ b.line \in Nat /\ b.text.columns \in Nat /\ b.text.breaks \in Nat
    BY DEF Engine!Record, Engine!Text
  <1>2. same \in SUBSET records /\ a \in same
    OBVIOUS
  <1>3. PICK w \in columns : \A y \in columns : w <= y
    <2>1. columns \in SUBSET Nat /\ columns # {}
      <3> HIDE DEF same
      <3>1. QED
        BY <1>1, <1>2
    <2> HIDE DEF columns
    <2>2. QED
      BY <2>1, LeastOf
  <1> DEFINE narrow == {b \in same : b.text.columns = w}
             breaks == {b.text.breaks : b \in narrow}
  <1>4. PICK v \in breaks : \A y \in breaks : v <= y
    <2>1. narrow \in SUBSET records /\ narrow # {}
      <3> HIDE DEF same
      <3>1. QED
        BY <1>2, <1>3
    <2>2. breaks \in SUBSET Nat /\ breaks # {}
      <3> HIDE DEF narrow
      <3>1. QED
        BY <1>1, <2>1
    <2> HIDE DEF breaks
    <2>3. QED
      BY <2>2, LeastOf
  <1>5. PICK b \in narrow : b.text.breaks = v
    BY <1>4
  <1>6. b \in records /\ b.ref = a.ref /\ b.line = a.line /\ b.text.columns = w
    BY <1>5
  <1>7. ASSUME NEW d \in records, d.ref = b.ref, d.line = b.line, Engine!Before(d, b)
        PROVE  FALSE
    <2>1. d \in same
      BY <1>6, <1>7
    <2>2. w <= d.text.columns
      <3>1. d.text.columns \in columns
        BY <2>1
      <3> HIDE DEF columns
      <3>2. QED
        BY <1>3, <3>1
    <2>3. Engine!Smaller(d.text, b.text)
      BY <1>1, <1>6, <1>7 DEF Engine!Before
    <2>4. d.text.columns = w /\ d.text.breaks < v
      BY <1>1, <1>5, <1>6, <2>2, <2>3 DEF Engine!Smaller
    <2>5. d.text.breaks \in breaks
      BY <2>1, <2>4
    <2>6. v <= d.text.breaks
      <3> HIDE DEF breaks
      <3>1. QED
        BY <1>4, <2>5
    <2>7. QED
      BY <1>1, <1>5, <1>6, <2>4, <2>6
  <1>8. b \in Engine!Least(records)
    BY <1>6, <1>7 DEF Engine!Least
  <1>9. QED
    BY <1>6, <1>8

\* Of the records that are kept, any two are of different lines.
LEMMA LeastOrdered ==
    ASSUME NEW records \in SUBSET Engine!Record, NEW R,
           \A a, b : <<a, b>> \in R <=>
              a \in Engine!Least(records) /\ b \in Engine!Least(records) /\ Engine!Before(a, b)
    PROVE  Orders(R, Engine!Least(records))
  <1> DEFINE least == Engine!Least(records)
  <1>1. \A a \in least : /\ a.ref \in Nat /\ a.line \in Nat
                         /\ a.text.columns \in Nat /\ a.text.breaks \in Nat
    BY DEF Engine!Least, Engine!Record, Engine!Text
  <1>2. \A a \in least : /\ a = [ref |-> a.ref, line |-> a.line, text |-> a.text]
                         /\ a.text = [columns |-> a.text.columns, breaks |-> a.text.breaks]
    BY DEF Engine!Least, Engine!Record, Engine!Text
  <1>3. \A a, b \in least : a.ref = b.ref /\ a.line = b.line => ~Engine!Before(a, b)
    BY DEF Engine!Least
  <1> HIDE DEF least
  <1>4. \A a \in least : <<a, a>> \notin R
    BY <1>3 DEF least
  <1>5. \A a, b \in least : a.ref = b.ref /\ a.line = b.line => a = b
    <2>1. TAKE a, b \in least
    <2>2. HAVE a.ref = b.ref /\ a.line = b.line
    <2>3. ~Engine!Smaller(a.text, b.text) /\ ~Engine!Smaller(b.text, a.text)
      BY <1>1, <1>3, <2>2 DEF Engine!Before
    <2>4. a.text.columns = b.text.columns /\ a.text.breaks = b.text.breaks
      <3>1. /\ a.text.columns \in Nat /\ a.text.breaks \in Nat
            /\ b.text.columns \in Nat /\ b.text.breaks \in Nat
        BY <1>1
      <3>2. QED
        BY <2>3, <3>1 DEF Engine!Smaller
    <2>5. a.text = b.text
      BY <1>2, <2>4
    <2>6. QED
      BY <1>2, <2>2, <2>5
  <1>6. \A a, b \in least : a = b \/ Engine!Before(a, b) \/ Engine!Before(b, a)
    <2>1. TAKE a, b \in least
    <2>2. \/ a.ref = b.ref /\ a.line = b.line
          \/ Engine!Before(a, b) \/ Engine!Before(b, a)
      BY <1>1 DEF Engine!Before
    <2>3. QED
      BY <1>5, <2>2
  <1>7. \A a, b, d \in least : Engine!Before(a, b) /\ Engine!Before(b, d) => Engine!Before(a, d)
    <2>1. TAKE a, b, d \in least
    <2>2. /\ a.ref \in Nat /\ a.line \in Nat /\ a.text.columns \in Nat /\ a.text.breaks \in Nat
          /\ b.ref \in Nat /\ b.line \in Nat /\ b.text.columns \in Nat /\ b.text.breaks \in Nat
          /\ d.ref \in Nat /\ d.line \in Nat /\ d.text.columns \in Nat /\ d.text.breaks \in Nat
      BY <1>1
    <2>3. Engine!Smaller(a.text, b.text) /\ Engine!Smaller(b.text, d.text)
             => Engine!Smaller(a.text, d.text)
      BY <2>2 DEF Engine!Smaller
    <2>4. QED
      BY <2>2, <2>3 DEF Engine!Before
  <1>8. QED
    BY <1>4, <1>6, <1>7 DEF Orders, least

LEMMA EngineMax ==
    ASSUME NEW N \in Nat, NEW S \in SUBSET (0..N), S # {}
    PROVE  Engine!Max(S) \in S
  BY GreatestIn DEF Engine!Max

LEMMA EngineMin ==
    ASSUME NEW S \in SUBSET Nat, S # {}
    PROVE  Engine!Min(S) \in S
  BY LeastOf DEF Engine!Min

-----------------------------------------------------------------------------
(* Discovery: the lines of a document *)

\* The lines of a kind are the c lines after the first a.
Together(lines, kind, a, c) ==
    /\ Len(lines) \in Nat /\ a \in Nat /\ c \in Nat /\ a + c <= Len(lines)
    /\ \A i \in 1..Len(lines) : lines[i].kind = kind <=> i \in (a + 1)..(a + c)

\* They are what the lines of that kind show.
LEMMA OfTogether ==
    ASSUME NEW lines, NEW kind, NEW a, NEW c, Together(lines, kind, a, c)
    PROVE  Engine!Of(lines, kind) = [i \in 1..c |-> lines[a + i].of]
  <1> DEFINE places == {i \in 1..Len(lines) : lines[i].kind = kind}
             row == Engine!Ranked(places, {p \in places \X places : p[1] < p[2]})
  <1>1. a \in Nat /\ c \in Nat
    BY DEF Together
  <1>2. places = (a + 1)..(a + c)
    BY DEF Together
  <1>3. /\ row = [i \in 1..((a + c) - (a + 1) + 1) |-> (a + 1) + i - 1]
        /\ Engine!Cardinality(places) = (a + c) - (a + 1) + 1
    <2>1. a + 1 \in Int /\ a + c \in Int /\ a + 1 <= a + c + 1
      BY <1>1
    <2> HIDE DEF places
    <2>2. QED
      BY <1>2, <2>1, RankedInterval, EngineCounts
  <1>4. Engine!Cardinality(places) = c /\ \A i \in 1..c : row[i] = a + i
    <2> HIDE DEF places, row
    <2>1. (a + c) - (a + 1) + 1 = c /\ \A i \in 1..c : (a + 1) + i - 1 = a + i
      BY <1>1
    <2>2. QED
      BY <1>3, <2>1
  <1>5. Engine!Of(lines, kind) = [i \in 1..Engine!Cardinality(places) |-> lines[row[i]].of]
    BY DEF Engine!Of
  <1> HIDE DEF places, row
  <1>6. QED
    BY <1>4, <1>5

\* The whole document: the records, then the diagnostics, and where the source
\* has more pages the line that says so.
Documents(records, diagnostics) ==
    LET lines == Engine!Lines(records, diagnostics)
    IN {lines, Append(lines, Engine!Trailer)}

\* A document is laid out so: every record, every diagnostic, and perhaps the
\* line about the source.
Laid(document, records, diagnostics, k, m) ==
    /\ k = Len(records) /\ m = Len(diagnostics)
    /\ \E V : document \in Seq(V)
    /\ Len(document) = k + m \/ (Len(document) = k + m + 1 /\ document[k + m + 1] = Engine!Trailer)
    /\ \A i \in 1..k : document[i] = Engine!RecordLine(records[i])
    /\ \A i \in (k + 1)..(k + m) : document[i] = Engine!DiagnosticLine(diagnostics[i - k])

LEMMA DocumentLines ==
    ASSUME NEW T, NEW records \in Seq(T), NEW U, NEW diagnostics \in Seq(U),
           NEW k \in Nat, k = Len(records), NEW m \in Nat, m = Len(diagnostics),
           NEW document \in Documents(records, diagnostics)
    PROVE  Laid(document, records, diagnostics, k, m)
  <1> DEFINE upper == [i \in 1..Len(records) |-> Engine!RecordLine(records[i])]
             lower == [i \in 1..Len(diagnostics) |-> Engine!DiagnosticLine(diagnostics[i])]
             V == {upper[i] : i \in 1..k} \cup {lower[i] : i \in 1..m} \cup {Engine!Trailer}
             lines == upper \o lower
  <1>1. upper \in Seq(V) /\ lower \in Seq(V) /\ Len(upper) = k /\ Len(lower) = m
    <2>1. upper \in [1..k -> V] /\ lower \in [1..m -> V]
      OBVIOUS
    <2> HIDE DEF upper, lower, V
    <2>2. upper \in Seq(V) /\ lower \in Seq(V)
      <3>1. upper \in Seq(V)
        BY <2>1, SeqDef
      <3>2. lower \in Seq(V)
        BY <2>1, SeqDef
      <3>3. QED
        BY <3>1, <3>2
    <2>3. QED
      BY <2>1, <2>2, LenProperties
  <1>2. Engine!Lines(records, diagnostics) = lines
    BY DEF Engine!Lines
  <1>3. /\ \A i \in 1..k : upper[i] = Engine!RecordLine(records[i])
        /\ \A i \in 1..m : lower[i] = Engine!DiagnosticLine(diagnostics[i])
        /\ Engine!Trailer \in V
    OBVIOUS
  <1> HIDE DEF upper, lower, V
  <1>4. /\ lines \in Seq(V) /\ Len(lines) = k + m
        /\ \A i \in 1..(k + m) : lines[i] = IF i <= k THEN upper[i] ELSE lower[i - k]
    <2>1. /\ lines \in Seq(V) /\ Len(lines) = Len(upper) + Len(lower)
          /\ \A i \in 1..Len(upper) + Len(lower) :
                lines[i] = IF i <= Len(upper) THEN upper[i] ELSE lower[i - Len(upper)]
      BY <1>1, ConcatProperties, Zenon
    <2> HIDE DEF lines
    <2>2. QED
      BY <1>1, <2>1, Zenon
  <1> HIDE DEF lines
  <1>5. /\ document \in Seq(V)
        /\ Len(document) = k + m \/ (Len(document) = k + m + 1 /\ document[k + m + 1] = Engine!Trailer)
        /\ \A i \in 1..(k + m) : document[i] = lines[i]
    <2>1. CASE document = lines
      BY <1>4, <2>1
    <2>2. CASE document = Append(lines, Engine!Trailer)
      <3>1. /\ document \in Seq(V) /\ Len(document) = Len(lines) + 1
            /\ \A i \in 1..Len(lines) : document[i] = lines[i]
            /\ document[Len(lines) + 1] = Engine!Trailer
        <4>1. lines \in Seq(V) /\ Engine!Trailer \in V
          BY <1>3, <1>4
        <4>2. PICK end : end = Engine!Trailer
          OBVIOUS
        <4>3. PICK S : S = V
          OBVIOUS
        <4>4. PICK l : l = lines
          OBVIOUS
        <4>5. l \in Seq(S) /\ end \in S
          BY <4>1, <4>2, <4>3, <4>4, Zenon
        <4>6. /\ Append(l, end) \in Seq(S) /\ Len(Append(l, end)) = Len(l) + 1
              /\ \A i \in 1..Len(l) : Append(l, end)[i] = l[i]
              /\ Append(l, end)[Len(l) + 1] = end
          BY <4>5, AppendProperties
        <4>7. QED
          BY <2>2, <4>2, <4>3, <4>4, <4>6, Zenon
      <3>2. QED
        BY <1>4, <3>1, Zenon
    <2>3. QED
      BY <1>2, <2>1, <2>2 DEF Documents
  <1>6. ASSUME NEW i \in 1..k
        PROVE  document[i] = Engine!RecordLine(records[i])
    <2>1. i \in 1..(k + m) /\ i <= k
      OBVIOUS
    <2>2. QED
      BY <1>3, <1>4, <1>5, <2>1, Zenon
  <1>7. ASSUME NEW i \in (k + 1)..(k + m)
        PROVE  document[i] = Engine!DiagnosticLine(diagnostics[i - k])
    <2>1. i \in 1..(k + m) /\ ~(i <= k) /\ i - k \in 1..m
      OBVIOUS
    <2>2. QED
      BY <1>3, <1>4, <1>5, <2>1
  <1>8. QED
    BY <1>5, <1>6, <1>7 DEF Laid

\* What a line shows, and what kind it is of.
LEMMA LineKinds ==
    ASSUME NEW a
    PROVE  /\ Engine!RecordLine(a).kind = "record" /\ Engine!RecordLine(a).of = a
           /\ Engine!DiagnosticLine(a).kind = "diagnostic" /\ Engine!DiagnosticLine(a).of = a
           /\ Engine!Trailer.kind = "trailer"
  BY DEF Engine!RecordLine, Engine!DiagnosticLine, Engine!Trailer

\* The document has all records and all diagnostics, and read from the line
\* after a record it has the records after it.
LEMMA DocumentWhole ==
    ASSUME NEW T, NEW records \in Seq(T), NEW U, NEW diagnostics \in Seq(U),
           NEW k \in Nat, NEW m \in Nat, NEW document, Laid(document, records, diagnostics, k, m)
    PROVE  /\ Engine!Of(document, "record") = records
           /\ Engine!Of(document, "diagnostic") = diagnostics
           /\ \A line \in 1..Len(records) :
                 Engine!Of(SubSeq(document, line, Len(document)), "record")
                     = SubSeq(records, line, Len(records))
  <1>1. k = Len(records) /\ m = Len(diagnostics)
    BY DEF Laid
  <1>2. records = [i \in 1..k |-> records[i]] /\ diagnostics = [i \in 1..m |-> diagnostics[i]]
    BY <1>1, LenProperties
  <1>3. PICK V : document \in Seq(V)
    BY DEF Laid
  <1>4. PICK n \in Nat : /\ n = Len(document) /\ k <= n /\ k + m <= n
                         /\ n = k + m \/ (n = k + m + 1 /\ document[n] = Engine!Trailer)
    BY DEF Laid
  <1>5. \A i \in 1..k : document[i].kind = "record" /\ document[i].of = records[i]
    BY LineKinds DEF Laid
  <1>6. \A i \in (k + 1)..(k + m) :
           document[i].kind = "diagnostic" /\ document[i].of = diagnostics[i - k]
    BY LineKinds DEF Laid
  <1>7. \A i \in (k + m + 1)..n : document[i].kind = "trailer"
    BY <1>4, LineKinds
  <1>8. \A i \in 1..n : i \in 1..k \/ i \in (k + 1)..(k + m) \/ i \in (k + m + 1)..n
    OBVIOUS
  <1>9. Engine!Of(document, "record") = records
    <2>1. Together(document, "record", 0, k)
      BY <1>4, <1>5, <1>6, <1>7, <1>8 DEF Together
    <2>2. Engine!Of(document, "record") = [i \in 1..k |-> document[0 + i].of]
      BY <2>1, OfTogether
    <2>3. \A i \in 1..k : document[0 + i].of = records[i]
      BY <1>5
    <2>4. QED
      BY <1>2, <2>2, <2>3
  <1>10. Engine!Of(document, "diagnostic") = diagnostics
    <2>1. Together(document, "diagnostic", k, m)
      BY <1>4, <1>5, <1>6, <1>7, <1>8 DEF Together
    <2>2. Engine!Of(document, "diagnostic") = [i \in 1..m |-> document[k + i].of]
      BY <2>1, OfTogether, SMTT(30)
    <2>3. ASSUME NEW i \in 1..m
          PROVE  document[k + i].of = diagnostics[i]
      <3>1. k + i \in (k + 1)..(k + m) /\ k + i - k = i
        OBVIOUS
      <3>2. QED
        BY <1>6, <3>1
    <2>4. QED
      BY <1>2, <2>2, <2>3
  <1>11. ASSUME NEW line \in 1..k
         PROVE  Engine!Of(SubSeq(document, line, n), "record") = SubSeq(records, line, k)
    <2>1. PICK rest : rest = SubSeq(document, line, n)
      OBVIOUS
    <2>2. PICK left \in Nat \ {0} : left = k - line + 1 /\ left <= n - line + 1
      BY <1>4
    <2>3. Len(rest) = n - line + 1 /\ \A i \in 1..(n - line + 1) : rest[i] = document[line + i - 1]
      <3>1. \A i \in line..n : document[i] \in V
        BY <1>3, <1>4, ElementOfSeq
      <3>2. line <= n
        BY <1>4
      <3>3. QED
        BY <2>1, <3>1, <3>2, SubSeqProperties
    <2>4. SubSeq(records, line, k) = [i \in 1..left |-> records[line + i - 1]]
      <3>1. \A i \in line..k : records[i] \in T
        BY <1>1, ElementOfSeq
      <3>2. PICK some : some = SubSeq(records, line, k)
        OBVIOUS
      <3>3. some \in Seq(T) /\ Len(some) = left /\ \A i \in 1..left : some[i] = records[line + i - 1]
        BY <2>2, <3>1, <3>2, SubSeqProperties
      <3>4. some = [i \in 1..left |-> some[i]]
        BY <2>2, <3>3, LenProperties
      <3>5. QED
        BY <3>2, <3>3, <3>4
    <2>5. \A i \in 1..Len(rest) : rest[i].kind = "record" <=> i \in 1..left
      <3>1. TAKE i \in 1..Len(rest)
      <3>2. i \in 1..(n - line + 1)
        BY <2>3
      <3>3. line + i - 1 \in 1..n /\ rest[i] = document[line + i - 1]
        BY <2>3, <3>2
      <3>4. line + i - 1 \in 1..k <=> i \in 1..left
        BY <2>2, <2>3
      <3>5. document[line + i - 1].kind = "record" <=> line + i - 1 \in 1..k
        BY <1>5, <1>6, <1>7, <1>8, <3>3
      <3>6. QED
        BY <3>3, <3>4, <3>5
    <2>6. Engine!Of(rest, "record") = [i \in 1..left |-> rest[0 + i].of]
      <3>1. Len(rest) \in Nat /\ 0 + left <= Len(rest)
        BY <2>2, <2>3
      <3>2. Together(rest, "record", 0, left)
        BY <2>5, <3>1 DEF Together
      <3>3. QED
        BY <3>2, OfTogether
    <2>7. \A i \in 1..left : rest[i].of = records[line + i - 1]
      <3>1. TAKE i \in 1..left
      <3>2. i \in 1..(n - line + 1) /\ line + i - 1 \in 1..k
        BY <2>2
      <3>3. QED
        BY <1>5, <2>3, <3>2
    <2>8. Engine!Of(rest, "record") = [i \in 1..left |-> rest[i].of]
      BY <2>6
    <2>9. QED
      BY <2>1, <2>4, <2>7, <2>8
  <1>12. QED
    BY <1>1, <1>4, <1>9, <1>10, <1>11

-----------------------------------------------------------------------------
(* Discovery: the state in which nothing is lost *)

CallFields == {"pc", "request", "source", "answer", "document", "why"}
AnswerFields == {"records", "diagnostics", "total", "recovery", "line", "next", "after"}
Asked == {"asked", "retain", "store", "answered"}

Found(r) == Engine!Normalized(r.source.records)
Said(r) == Engine!Ordered(r.source.diagnostics)

LastLine(document) == document[Len(document)]

\* The document of a call has all that the source answered, and ends with the
\* line about the source where that has more.
WholeDocument(r, document) ==
    /\ Laid(document, Found(r), Said(r), Len(Found(r)), Len(Said(r)))
    /\ r.source.next => LastLine(document) = Engine!Trailer

\* The answer of a call is cut from what was found: from what was skipped to
\* where the continuation goes on.
CutAt(r, end) ==
    LET k == Len(Found(r))
        start == Engine!Lower(r.request.skip, k)
    IN /\ end \in Nat /\ start <= end /\ end <= k
       /\ r.answer.records = SubSeq(Found(r), start + 1, end)
       /\ r.answer.line = IF end < k THEN end + 1 ELSE 0
Cut(r) == \E end : CutAt(r, end)

SourceFinite(source) ==
    /\ DOMAIN source = {"records", "diagnostics", "next"} /\ source.next \in BOOLEAN
    /\ IsFiniteSet(source.records) /\ IsFiniteSet(source.diagnostics)

\* A call by where it is.
CallKept(r, kept) ==
    /\ DOMAIN r = CallFields /\ DOMAIN r.answer = AnswerFields
    /\ r.pc \in Asked => r.request \in Requests /\ Engine!Refusal(r.request) = "none"
    /\ r.pc \in Asked \ {"asked"} => SourceFinite(r.source)
    /\ r.pc \in {"retain", "store"} => WholeDocument(r, r.document) /\ Cut(r)
    /\ r.pc = "answered" =>
          IF r.answer.recovery = 0
          THEN /\ r.answer.records = Found(r) /\ r.answer.diagnostics = Said(r)
               /\ r.answer.next = r.source.next
          ELSE /\ r.answer.recovery \in 1..Len(kept)
               /\ WholeDocument(r, kept[r.answer.recovery]) /\ Cut(r)
               /\ r.source.next => r.answer.next \/ r.answer.after

DiscoveryInv ==
    /\ DOMAIN call = Calls
    /\ \E T : artifacts \in Seq(T)
    /\ \A c \in Calls : CallKept(call[c], artifacts)

-----------------------------------------------------------------------------
(* Discovery: what an answered call promises *)

\* What is found and said are sequences.
LEMMA FoundSeq ==
    ASSUME NEW r, SourceFinite(r.source)
    PROVE  /\ \E T : Found(r) \in Seq(T)
           /\ \E U : Said(r) \in Seq(U)
           /\ Len(Found(r)) \in Nat /\ Len(Said(r)) \in Nat
  <1>1. IsFiniteSet(Engine!Least(r.source.records))
    <2>1. Engine!Least(r.source.records) \in SUBSET r.source.records
      BY DEF Engine!Least
    <2>2. QED
      BY <2>1, FS_Subset DEF SourceFinite
  <1>2. \E T : Found(r) \in Seq(T)
    BY <1>1, RankedSeq DEF Found, Engine!Normalized
  <1>3. \E U : Said(r) \in Seq(U)
    BY RankedSeq DEF Said, Engine!Ordered, SourceFinite
  <1>4. QED
    BY <1>2, <1>3, LenProperties

\* An answered call has lost nothing.
LEMMA AnsweredWhole ==
    ASSUME DiscoveryInv, NEW c \in Calls, call[c].pc = "answered", call[c].answer.recovery # 0
    PROVE  LET a == call[c].answer
               records == Found(call[c])
               skipped == Engine!Lower(call[c].request.skip, Len(records))
               kept == artifacts[a.recovery]
           IN /\ Engine!Of(kept, "record") = records
              /\ Engine!Of(kept, "diagnostic") = Said(call[c])
              /\ SubSeq(records, 1, skipped) \o a.records
                   \o (IF a.line = 0 THEN <<>>
                       ELSE Engine!Of(SubSeq(kept, a.line, Len(kept)), "record")) = records
  <1> DEFINE r == call[c]
             records == Found(r)
             kept == artifacts[r.answer.recovery]
             skipped == Engine!Lower(r.request.skip, Len(records))
             rest == IF r.answer.line = 0 THEN <<>>
                     ELSE Engine!Of(SubSeq(kept, r.answer.line, Len(kept)), "record")
  <1>1. SourceFinite(r.source) /\ r.request \in Requests /\ WholeDocument(r, kept) /\ Cut(r)
    BY DEF DiscoveryInv, CallKept, Asked
  <1>2. PICK T, U : records \in Seq(T) /\ Said(r) \in Seq(U)
    BY <1>1, FoundSeq
  <1>3. PICK k \in Nat : k = Len(records) /\ Len(Said(r)) \in Nat
    BY <1>1, FoundSeq
  <1> HIDE DEF r, records, kept
  <1>4. /\ Engine!Of(kept, "record") = records
        /\ Engine!Of(kept, "diagnostic") = Said(r)
        /\ \A line \in 1..k :
                 Engine!Of(SubSeq(kept, line, Len(kept)), "record") = SubSeq(records, line, k)
    <2>1. Laid(kept, records, Said(r), k, Len(Said(r)))
      BY <1>1, <1>3 DEF WholeDocument, records
    <2>2. QED
      BY <1>2, <1>3, <2>1, DocumentWhole
  <1>5. PICK end \in Nat :
           /\ skipped <= end /\ end <= k
           /\ r.answer.records = SubSeq(records, skipped + 1, end)
           /\ r.answer.line = IF end < k THEN end + 1 ELSE 0
    BY <1>1, <1>3 DEF Cut, CutAt, records
  <1>6. skipped \in 0..end
    BY <1>1, <1>3, <1>5, SourceAssumption DEF Engine!Lower
  <1> HIDE DEF skipped
  <1>7. SubSeq(records, 1, skipped) \o r.answer.records = SubSeq(records, 1, end)
    <2>1. 1 \in 1..Len(records) + 1 /\ skipped \in 1 - 1..Len(records) /\ end \in skipped..Len(records)
      BY <1>3, <1>5, <1>6
    <2>2. QED
      BY <1>2, <1>5, <2>1, ConcatAdjacentSubSeq
  <1>8. rest = SubSeq(records, end + 1, k)
    <2>1. CASE end < k
      <3>1. end + 1 \in 1..k /\ r.answer.line = end + 1 /\ r.answer.line # 0
        BY <1>5, <2>1
      <3>2. QED
        BY <1>4, <3>1
    <2>2. CASE ~(end < k)
      <3>1. rest = <<>> /\ k < end + 1 /\ k \in Int /\ end + 1 \in Int
        BY <1>5, <2>2
      <3>2. SubSeq(records, end + 1, k) = <<>>
        BY <3>1, SubSeqEmpty
      <3>3. QED
        BY <3>1, <3>2
    <2>3. QED
      BY <2>1, <2>2
  <1> HIDE DEF rest
  <1>9. SubSeq(records, 1, end) \o SubSeq(records, end + 1, k) = records
    <2>1. 1 \in 1..Len(records) + 1 /\ end \in 1 - 1..Len(records) /\ k \in end..Len(records)
      BY <1>3, <1>5
    <2>2. SubSeq(records, 1, end) \o SubSeq(records, end + 1, k) = SubSeq(records, 1, k)
      BY <1>2, <2>1, ConcatAdjacentSubSeq
    <2>3. SubSeq(records, 1, k) = records
      BY <1>2, <1>3, SubSeqFull
    <2>4. QED
      BY <2>2, <2>3
  <1>10. SubSeq(records, 1, skipped) \o r.answer.records \o rest = records
    BY <1>7, <1>8, <1>9
  <1>11. QED
    BY <1>4, <1>10 DEF r, records, kept, skipped, rest

\* What a state promises.
LEMMA DiscoveryPromises ==
    ASSUME DiscoveryInv
    PROVE  Engine!NothingLost /\ Engine!SourceContinues
  <1>1. ASSUME NEW c \in Calls, Engine!Answered(c), call[c].answer.recovery = 0
        PROVE  /\ call[c].answer.records = Found(call[c])
               /\ call[c].answer.diagnostics = Said(call[c])
               /\ call[c].answer.next = call[c].source.next
    BY <1>1 DEF DiscoveryInv, CallKept, Engine!Answered
  <1>2. ASSUME NEW c \in Calls, Engine!Answered(c), call[c].answer.recovery # 0
        PROVE  /\ WholeDocument(call[c], artifacts[call[c].answer.recovery])
               /\ call[c].source.next => call[c].answer.next \/ call[c].answer.after
    BY <1>2 DEF DiscoveryInv, CallKept, Engine!Answered
  <1>3. Engine!NothingLost
    BY <1>1, AnsweredWhole DEF Engine!NothingLost, Found, Said, Engine!Answered
  <1>4. Engine!SourceContinues
    BY <1>1, <1>2 DEF Engine!SourceContinues, WholeDocument, LastLine
  <1>5. QED
    BY <1>3, <1>4

-----------------------------------------------------------------------------
(* Discovery: the steps *)

\* What is retained stays where it is.
LEMMA KeptLonger ==
    ASSUME NEW T, NEW kept \in Seq(T), NEW document, NEW r, CallKept(r, kept)
    PROVE  CallKept(r, Append(kept, document))
  <1>1. kept \in Seq(T \cup {document}) /\ document \in T \cup {document}
    BY SeqMonotonic
  <1>2. /\ Len(kept) \in Nat /\ Len(Append(kept, document)) = Len(kept) + 1
        /\ \A i \in 1..Len(kept) : Append(kept, document)[i] = kept[i]
    BY <1>1, AppendProperties, LenProperties
  <1>3. QED
    BY <1>2 DEF CallKept

\* A call that moves keeps the others as they are.
LEMMA CallMoves ==
    ASSUME DiscoveryInv, NEW c \in Calls, NEW r, call' = [call EXCEPT ![c] = r],
           UNCHANGED artifacts, CallKept(r, artifacts)
    PROVE  DiscoveryInv'
  <1>1. DOMAIN call' = Calls
    BY DEF DiscoveryInv
  <1>2. \A d \in Calls : call'[d] = IF d = c THEN r ELSE call[d]
    BY DEF DiscoveryInv
  <1>3. \A d \in Calls : CallKept(call'[d], artifacts')
    BY <1>2 DEF DiscoveryInv
  <1>4. QED
    BY <1>1, <1>3 DEF DiscoveryInv, CallKept, WholeDocument, Cut, CutAt, Found, Said, SourceFinite

\* A call that fails promises nothing.
LEMMA CallFails ==
    ASSUME DiscoveryInv, NEW c \in Calls, NEW why, Engine!Fail(c, why), UNCHANGED artifacts
    PROVE  DiscoveryInv'
  <1> DEFINE r == [call[c] EXCEPT !.pc = "failed", !.why = why]
  <1>1. DOMAIN call[c] = CallFields /\ DOMAIN call[c].answer = AnswerFields
    BY DEF DiscoveryInv, CallKept
  <1>2. DOMAIN r = CallFields /\ r.answer = call[c].answer /\ r.pc = "failed"
    BY <1>1 DEF CallFields
  <1>3. call' = [call EXCEPT ![c] = r]
    BY DEF Engine!Fail, Engine!Move
  <1> HIDE DEF r
  <1>4. CallKept(r, artifacts)
    BY <1>1, <1>2 DEF CallKept, Asked
  <1>5. QED
    BY <1>3, <1>4, CallMoves

LEMMA DiscoveryAsks ==
    ASSUME DiscoveryInv, NEW c \in Calls, NEW request \in Requests, Engine!Ask(c, request)
    PROVE  DiscoveryInv'
  <1> DEFINE r == [call[c] EXCEPT !.pc = "asked", !.request = request]
  <1>1. UNCHANGED artifacts
    BY DEF Engine!Ask
  <1>2. \/ Engine!Fail(c, Engine!Refusal(request)) \/ Engine!Fail(c, Engine!Alive(c))
        \/ Engine!Refusal(request) = "none" /\ call' = [call EXCEPT ![c] = r]
    BY Zenon DEF Engine!Ask, Engine!Move
  <1>3. DOMAIN call[c] = CallFields /\ DOMAIN call[c].answer = AnswerFields
    BY DEF DiscoveryInv, CallKept
  <1>4. DOMAIN r = CallFields /\ r.answer = call[c].answer /\ r.pc = "asked" /\ r.request = request
    BY <1>3 DEF CallFields
  <1> HIDE DEF r
  <1>5. CASE Engine!Refusal(request) = "none" /\ call' = [call EXCEPT ![c] = r]
    <2>1. CallKept(r, artifacts)
      BY <1>3, <1>4, <1>5 DEF CallKept, Asked
    <2>2. QED
      BY <1>1, <1>5, <2>1, CallMoves
  <1>6. QED
    BY <1>1, <1>2, <1>5, CallFails

\* A run shows no more than it may.
LEMMA RunBounded ==
    ASSUME NEW document, NEW from, NEW most \in Nat, NEW limits, NEW shown
    PROVE  Engine!Run(document, from, most, limits, shown) \in 0..most
  <1> DEFINE fits(n) == Engine!Fit(shown \o SubSeq(document, from + 1, from + n), limits)
             runs == {0} \cup {n \in 1..most : fits(n)}
  <1>1. Engine!Run(document, from, most, limits, shown) = Engine!Max(runs)
    BY DEF Engine!Run
  <1>2. runs \in SUBSET (0..most) /\ runs # {}
    <2> HIDE DEF fits
    <2>1. QED
      OBVIOUS
  <1> HIDE DEF runs
  <1>3. Engine!Max(runs) \in runs
    BY <1>2, EngineMax
  <1>4. QED
    BY <1>1, <1>2, <1>3

\* What a page shows: the records from what is skipped to an end, a
\* continuation at the first that is not shown, and everything when nothing is
\* said to be left out.
Shows(shown, request, records, diagnostics) ==
    /\ shown.omitted \in BOOLEAN
    /\ \E end \in Nat :
          /\ Engine!Lower(request.skip, Len(records)) <= end /\ end <= Len(records)
          /\ shown.records = SubSeq(records, Engine!Lower(request.skip, Len(records)) + 1, end)
          /\ shown.line = IF end < Len(records) THEN end + 1 ELSE 0
    /\ ~shown.omitted => shown.records = records /\ shown.diagnostics = diagnostics

LEMMA PageShows ==
    ASSUME NEW T, NEW records \in Seq(T), NEW U, NEW diagnostics \in Seq(U), NEW document,
           NEW request \in Requests
    PROVE  Shows(Engine!Page(request, records, diagnostics, document), request, records, diagnostics)
  <1> DEFINE limits == Engine!LimitsOf(request)
             k == Len(records)
             m == Len(diagnostics)
             start == Engine!Lower(request.skip, k)
             most == Engine!Lower(k - start, limits.results)
             end == start + (IF request.kind = "glob" THEN most
                             ELSE Engine!Run(document, start, most, limits, <<>>))
             shown == SubSeq(document, start + 1, end)
             said == IF end < k THEN 0
                     ELSE IF request.kind = "glob" THEN m
                     ELSE Engine!Run(document, k, m, limits, shown)
             result == Engine!Page(request, records, diagnostics, document)
  <1>1. k \in Nat /\ m \in Nat /\ request.skip \in Nat
    BY LenProperties, SourceAssumption
  <1>2. limits.results \in Nat
    BY SourceAssumption DEF Engine!LimitsOf, Engine!Lower
  <1>3. /\ result.records = SubSeq(records, start + 1, end)
        /\ result.diagnostics = SubSeq(diagnostics, 1, said)
        /\ result.omitted = (start > 0 \/ end < k \/ said < m)
        /\ result.line = IF end < k THEN end + 1 ELSE 0
    BY DEF Engine!Page
  <1>4. start \in 0..k
    BY <1>1 DEF Engine!Lower
  <1> HIDE DEF limits, k, m, start, result
  <1>5. most \in 0..(k - start)
    BY <1>1, <1>2, <1>4 DEF Engine!Lower
  <1> HIDE DEF most
  <1>6. end \in start..k
    <2>1. most \in Nat
      BY <1>1, <1>4, <1>5
    <2>2. Engine!Run(document, start, most, limits, <<>>) \in 0..most
      BY <2>1, RunBounded
    <2>3. QED
      BY <1>1, <1>4, <1>5, <2>2
  <1> HIDE DEF end, shown
  <1>7. said \in 0..m
    <2>1. Engine!Run(document, k, m, limits, shown) \in 0..m
      BY <1>1, RunBounded
    <2>2. QED
      BY <1>1, <2>1
  <1> HIDE DEF said
  <1>8. ASSUME ~result.omitted
        PROVE  result.records = records /\ result.diagnostics = diagnostics
    <2>1. start = 0 /\ end = k /\ said = m
      <3>1. ~(start > 0) /\ ~(end < k) /\ ~(said < m)
        BY <1>3, <1>8, Zenon
      <3>2. QED
        BY <1>1, <1>4, <1>6, <1>7, <3>1
    <2>2. result.records = SubSeq(records, 1, Len(records))
          /\ result.diagnostics = SubSeq(diagnostics, 1, Len(diagnostics))
      BY <1>3, <2>1 DEF k, m
    <2>3. QED
      BY <2>2, SubSeqFull
  <1>9. end \in Nat /\ start <= end /\ end <= k /\ result.omitted \in BOOLEAN
    BY <1>1, <1>3, <1>4, <1>6
  <1>10. QED
    BY <1>3, <1>8, <1>9 DEF Shows, start, k, result

\* The document that is retained ends as the source does.
LEMMA DocumentEnds ==
    ASSUME NEW r, SourceFinite(r.source),
           LET lines == Engine!Lines(Found(r), Said(r))
           IN r.document = IF r.source.next THEN Append(lines, Engine!Trailer) ELSE lines
    PROVE  WholeDocument(r, r.document)
  <1> DEFINE lines == Engine!Lines(Found(r), Said(r))
  <1>1. PICK T, U : Found(r) \in Seq(T) /\ Said(r) \in Seq(U)
    BY FoundSeq
  <1>2. Len(Found(r)) \in Nat /\ Len(Said(r)) \in Nat
    BY FoundSeq
  <1>3. lines \in Documents(Found(r), Said(r)) /\ r.document \in Documents(Found(r), Said(r))
    BY DEF Documents
  <1>4. /\ Laid(lines, Found(r), Said(r), Len(Found(r)), Len(Said(r)))
        /\ Laid(r.document, Found(r), Said(r), Len(Found(r)), Len(Said(r)))
    BY <1>1, <1>2, <1>3, DocumentLines
  <1> HIDE DEF lines
  <1>5. ASSUME r.source.next
        PROVE  LastLine(r.document) = Engine!Trailer
    <2>1. r.document = Append(lines, Engine!Trailer)
      BY <1>5 DEF lines
    <2>2. PICK V : lines \in Seq(V)
      BY <1>4 DEF Laid
    <2>3. lines \in Seq(V \cup {Engine!Trailer}) /\ Engine!Trailer \in V \cup {Engine!Trailer}
      BY <2>2, SeqMonotonic
    <2>4. Len(r.document) = Len(lines) + 1 /\ r.document[Len(lines) + 1] = Engine!Trailer
      <3>1. PICK end : end = Engine!Trailer
        OBVIOUS
      <3>2. lines \in Seq(V \cup {end}) /\ end \in V \cup {end}
        BY <2>3, <3>1, Zenon
      <3>3. /\ Len(Append(lines, end)) = Len(lines) + 1
            /\ Append(lines, end)[Len(lines) + 1] = end
        BY <3>2, AppendProperties, Zenon
      <3>4. QED
        BY <2>1, <3>1, <3>3, Zenon
    <2>5. QED
      BY <2>4 DEF LastLine
  <1>6. QED
    BY <1>4, <1>5 DEF WholeDocument

LEMMA DiscoverySelects ==
    ASSUME DiscoveryInv, NEW c \in Calls, NEW source \in Upstreams, Engine!Select(c, source)
    PROVE  DiscoveryInv'
  <1> DEFINE s == call[c]
             records == Engine!Normalized(source.records)
             diagnostics == Engine!Ordered(source.diagnostics)
             document == Engine!Lines(records, diagnostics)
             next == source.next /\ s.request.kind = "search"
             shown == Engine!Page(s.request, records, diagnostics, document)
             answer == [Engine!NoAnswer EXCEPT !.records = shown.records,
                            !.diagnostics = shown.diagnostics, !.total = shown.total]
             said == IF shown.omitted THEN [answer EXCEPT !.line = Engine!Continued(shown)]
                     ELSE [answer EXCEPT !.next = next]
             r == [s EXCEPT !.source = [source EXCEPT !.next = next],
                    !.pc = IF shown.omitted THEN "retain" ELSE "answered",
                    !.document = IF next THEN Append(document, Engine!Trailer) ELSE document,
                    !.answer = said]
  <1>1. s.pc = "asked" /\ UNCHANGED artifacts
    BY Zenon DEF Engine!Select
  <1>2. \/ Engine!Fail(c, Engine!Alive(c)) \/ Engine!Fail(c, "limit_exceeded")
        \/ call' = [call EXCEPT ![c] = r]
    BY Zenon DEF Engine!Select, Engine!Move
  <1>3. /\ DOMAIN s = CallFields /\ DOMAIN s.answer = AnswerFields
        /\ s.request \in Requests /\ Engine!Refusal(s.request) = "none"
    BY <1>1 DEF DiscoveryInv, CallKept, Asked
  <1>4. /\ source \in [records : SUBSET Engine!Record, diagnostics : SUBSET Engine!Notice,
                       next : BOOLEAN]
        /\ IsFiniteSet(source.records) /\ IsFiniteSet(source.diagnostics)
    BY SourceAssumption
  <1>5. /\ r.source.records = source.records /\ r.source.diagnostics = source.diagnostics
        /\ r.source.next = next /\ DOMAIN r.source = {"records", "diagnostics", "next"}
        /\ DOMAIN r = CallFields /\ r.answer = said /\ r.request = s.request
        /\ r.pc = IF shown.omitted THEN "retain" ELSE "answered"
        /\ r.document = IF next THEN Append(document, Engine!Trailer) ELSE document
    <2> HIDE DEF said, document, shown, next
    <2>1. QED
      BY <1>3, <1>4 DEF CallFields
  <1>6. /\ DOMAIN said = AnswerFields /\ said.records = shown.records
        /\ said.diagnostics = shown.diagnostics /\ said.recovery = 0
        /\ ~shown.omitted => said.next = next
        /\ shown.omitted => said.line = shown.line
    <2> HIDE DEF shown, next
    <2>1. /\ DOMAIN answer = AnswerFields /\ answer.records = shown.records
          /\ answer.diagnostics = shown.diagnostics /\ answer.recovery = 0
      BY DEF Engine!NoAnswer, AnswerFields
    <2> HIDE DEF answer
    <2>2. QED
      BY <2>1 DEF Engine!Continued, AnswerFields
  <1>7. next \in BOOLEAN
    OBVIOUS
  <1> HIDE DEF said, r, next
  <1>8. SourceFinite(r.source) /\ Found(r) = records /\ Said(r) = diagnostics
    BY <1>4, <1>5, <1>7 DEF SourceFinite, Found, Said
  <1>9. PICK T, U : records \in Seq(T) /\ diagnostics \in Seq(U)
    BY <1>8, FoundSeq
  <1>10. WholeDocument(r, r.document)
    BY <1>5, <1>8, DocumentEnds DEF document
  <1> HIDE DEF records, diagnostics, document
  <1>11. Shows(shown, s.request, records, diagnostics)
    BY <1>3, <1>9, PageShows
  <1> HIDE DEF shown, s
  <1>12. CASE call' = [call EXCEPT ![c] = r]
    <2>1. ASSUME shown.omitted
          PROVE  Cut(r)
      BY <1>5, <1>6, <1>8, <1>11, <2>1 DEF Shows, Cut, CutAt
    <2>2. ASSUME ~shown.omitted
          PROVE  r.answer.records = Found(r) /\ r.answer.diagnostics = Said(r)
      BY <1>5, <1>6, <1>8, <1>11, <2>2 DEF Shows
    <2>3. CASE shown.omitted
      <3>1. r.pc = "retain"
        BY <1>5, <2>3
      <3>2. CallKept(r, artifacts)
        BY <1>3, <1>5, <1>6, <1>8, <1>10, <2>1, <2>3, <3>1 DEF CallKept, Asked
      <3>3. QED
        BY <1>1, <1>12, <3>2, CallMoves
    <2>4. CASE ~shown.omitted
      <3>1. r.pc = "answered"
        BY <1>5, <2>4
      <3>2. CallKept(r, artifacts)
        BY <1>3, <1>5, <1>6, <1>8, <2>2, <2>4, <3>1 DEF CallKept, Asked
      <3>3. QED
        BY <1>1, <1>12, <3>2, CallMoves
    <2>5. QED
      BY <2>3, <2>4
  <1>13. QED
    BY <1>1, <1>2, <1>12, CallFails

LEMMA DiscoveryBeginsRetain ==
    ASSUME DiscoveryInv, NEW c \in Calls, Engine!BeginRetain(c)
    PROVE  DiscoveryInv'
  <1> DEFINE s == call[c]
             r == [call[c] EXCEPT !.pc = "store"]
  <1>1. UNCHANGED artifacts /\ s.pc = "retain"
    BY DEF Engine!BeginRetain
  <1>2. Engine!Fail(c, Engine!Alive(c)) \/ call' = [call EXCEPT ![c] = r]
    BY Zenon DEF Engine!BeginRetain, Engine!Move
  <1>3. CallKept(s, artifacts)
    BY DEF DiscoveryInv
  <1>4. /\ DOMAIN r = CallFields /\ r.answer = s.answer /\ r.pc = "store" /\ r.request = s.request
        /\ r.source = s.source /\ r.document = s.document
    BY <1>3 DEF CallFields, CallKept
  <1> HIDE DEF r, s
  <1>5. CASE call' = [call EXCEPT ![c] = r]
    <2>1. WholeDocument(r, r.document) /\ Cut(r)
      BY <1>1, <1>3, <1>4 DEF CallKept, WholeDocument, Cut, CutAt, Found, Said
    <2>2. CallKept(r, artifacts)
      BY <1>1, <1>3, <1>4, <2>1 DEF CallKept, Asked
    <2>3. QED
      BY <1>1, <1>5, <2>2, CallMoves
  <1>6. QED
    BY <1>1, <1>2, <1>5, CallFails

\* A call's document is retained, or the one that is like it is.
LEMMA DiscoveryRetains ==
    ASSUME DiscoveryInv, NEW c \in Calls, Engine!Retain(c)
    PROVE  DiscoveryInv'
  <1> DEFINE s == call[c]
             like == {i \in 1..Len(artifacts) : artifacts[i] = s.document}
             id == IF like = {} THEN Len(artifacts) + 1 ELSE Engine!Min(like)
             kept == IF like = {} THEN Append(artifacts, s.document) ELSE artifacts
             answer == [Engine!Named(s.answer, s.source.next) EXCEPT !.recovery = id]
             r == [s EXCEPT !.pc = "answered", !.answer = answer]
  <1>1. /\ s.pc = "store"
        /\ \/ (\E why : Engine!Fail(c, why)) /\ UNCHANGED artifacts
           \/ call' = [call EXCEPT ![c] = r] /\ artifacts' = kept
    BY Zenon DEF Engine!Retain, Engine!Move
  <1>2. PICK T : artifacts \in Seq(T)
    BY DEF DiscoveryInv
  <1>3. PICK k \in Nat : k = Len(artifacts)
    BY <1>2, LenProperties
  <1>4. /\ DOMAIN s = CallFields /\ DOMAIN s.answer = AnswerFields
        /\ s.request \in Requests /\ Engine!Refusal(s.request) = "none"
        /\ SourceFinite(s.source) /\ WholeDocument(s, s.document) /\ Cut(s)
    BY <1>1 DEF DiscoveryInv, CallKept, Asked
  <1>5. id \in 1..Len(kept) /\ kept[id] = s.document
    <2>1. CASE like = {}
      <3>1. artifacts \in Seq(T \cup {s.document}) /\ s.document \in T \cup {s.document}
        BY <1>2, SeqMonotonic
      <3>2. Len(kept) = k + 1 /\ kept[k + 1] = s.document
        BY <1>3, <2>1, <3>1, AppendProperties
      <3>3. QED
        BY <1>3, <2>1, <3>2
    <2>2. CASE like # {}
      <3>1. like \in SUBSET Nat
        BY <1>3
      <3>2. Engine!Min(like) \in like
        BY <2>2, <3>1, EngineMin
      <3>3. QED
        BY <2>2, <3>2
    <2>3. QED
      BY <2>1, <2>2
  <1>6. /\ answer.records = s.answer.records /\ answer.line = s.answer.line
        /\ answer.recovery = id /\ DOMAIN answer = AnswerFields
        /\ s.source.next => answer.next \/ answer.after
    BY <1>4 DEF Engine!Named, AnswerFields, SourceFinite
  <1> HIDE DEF like, id, kept, answer
  <1>7. /\ DOMAIN r = CallFields /\ r.answer = answer /\ r.pc = "answered"
        /\ r.request = s.request /\ r.source = s.source
    BY <1>4 DEF CallFields
  <1>8. \A d \in Calls : CallKept(call[d], kept)
    <2>1. TAKE d \in Calls
    <2>2. CallKept(call[d], artifacts)
      BY DEF DiscoveryInv
    <2>3. QED
      BY <1>2, <2>2, KeptLonger DEF kept
  <1>9. \E V : kept \in Seq(V)
    <2>1. artifacts \in Seq(T \cup {s.document}) /\ s.document \in T \cup {s.document}
      BY <1>2, SeqMonotonic
    <2>2. QED
      BY <1>2, <2>1, AppendProperties DEF kept
  <1> HIDE DEF r, s
  <1>10. CallKept(r, kept)
    <2>1. WholeDocument(r, kept[id]) /\ Cut(r)
      BY <1>4, <1>5, <1>6, <1>7 DEF WholeDocument, Cut, CutAt, Found, Said
    <2>2. id # 0
      BY <1>5
    <2>3. QED
      BY <1>4, <1>5, <1>6, <1>7, <2>1, <2>2 DEF CallKept, Asked
  <1>11. CASE call' = [call EXCEPT ![c] = r] /\ artifacts' = kept
    <2>1. DOMAIN call' = Calls
      BY <1>11 DEF DiscoveryInv
    <2>2. \A d \in Calls : call'[d] = IF d = c THEN r ELSE call[d]
      BY <1>11 DEF DiscoveryInv
    <2>3. \A d \in Calls : CallKept(call'[d], artifacts')
      BY <1>8, <1>10, <1>11, <2>2
    <2>4. QED
      BY <1>9, <1>11, <2>1, <2>3 DEF DiscoveryInv, CallKept, WholeDocument, Cut, CutAt, Found, Said, SourceFinite
  <1>12. QED
    BY <1>1, <1>11, CallFails

\* What a step of a call leaves alone keeps what it was.
LEMMA DiscoveryStays ==
    ASSUME DiscoveryInv, UNCHANGED <<call, artifacts>>
    PROVE  DiscoveryInv'
  BY DEF DiscoveryInv, CallKept, WholeDocument, Cut, CutAt, Found, Said, SourceFinite

LEMMA DiscoveryStep ==
    ASSUME DiscoveryInv, Engine!DiscoveryNext
    PROVE  DiscoveryInv'
  <1>1. CASE \E c \in Calls, request \in Requests : Engine!Ask(c, request)
    BY <1>1, DiscoveryAsks
  <1>2. CASE \E c \in Calls, source \in Upstreams : Engine!Select(c, source)
    BY <1>2, DiscoverySelects
  <1>3. CASE \E c \in Calls : Engine!SourceFails(c)
    BY <1>3, CallFails DEF Engine!SourceFails
  <1>4. CASE \E c \in Calls : Engine!BeginRetain(c)
    BY <1>4, DiscoveryBeginsRetain
  <1>5. CASE \E c \in Calls : Engine!Retain(c)
    BY <1>5, DiscoveryRetains
  <1>6. CASE (\E c \in Calls : Engine!Cancel(c)) \/ Engine!Close
    <2>1. UNCHANGED <<call, artifacts>>
      BY <1>6 DEF Engine!Cancel, Engine!Close
    <2>2. QED
      BY <2>1, DiscoveryStays
  <1>7. QED
    BY <1>1, <1>2, <1>3, <1>4, <1>5, <1>6 DEF Engine!DiscoveryNext

LEMMA DiscoveryStarts ==
    ASSUME Engine!DiscoveryInit
    PROVE  DiscoveryInv
  <1>1. call = [c \in Calls |-> Engine!Unasked] /\ artifacts = <<>>
    BY DEF Engine!DiscoveryInit
  <1>2. /\ DOMAIN Engine!Unasked = CallFields /\ DOMAIN Engine!Unasked.answer = AnswerFields
        /\ Engine!Unasked.pc = "new"
    BY DEF Engine!Unasked, Engine!NoAnswer, CallFields, AnswerFields
  <1>3. CallKept(Engine!Unasked, artifacts)
    BY <1>2 DEF CallKept, Asked
  <1>4. artifacts \in Seq({})
    BY <1>1, EmptySeq
  <1>5. QED
    BY <1>1, <1>3, <1>4 DEF DiscoveryInv

-----------------------------------------------------------------------------
(* The four parts together *)

\* The invariants of GitHub, Jira and the launch, each where it is the part.
ReadsInv ==
    /\ focus = "github" => GithubInv /\ CoverageInv
    /\ focus = "jira" => JiraInv /\ RowsInv
    /\ focus = "launch" => LaunchInv
    /\ focus = "discovery" => DiscoveryInv

\* Each part begins in its invariant.
LEMMA ReadsBegin ==
    ASSUME Init
    PROVE  ReadsInv
  <1>1. /\ focus = "github" => Github!Init
        /\ focus = "jira" => Jira!JiraInit
        /\ focus = "launch" => Launch!LaunchInit
        /\ focus = "discovery" => Engine!DiscoveryInit
    BY Zenon DEF Init
  <1>2. QED
    BY <1>1, GithubBeginning, CoverageBeginning, JiraBeginning, RowsBeginning, LaunchBegins,
       DiscoveryStarts
    DEF ReadsInv

\* A step is one of the part the behaviour is, and keeps its invariant.
LEMMA ReadsStep ==
    ASSUME ReadsInv, [Next]_vars
    PROVE  ReadsInv'
  <1>1. CASE focus = "github" /\ Github!Next /\ UNCHANGED focus
    BY <1>1, GithubStep, CoverageStep DEF ReadsInv
  <1>2. CASE focus = "jira" /\ Jira!JiraNext /\ UNCHANGED focus
    BY <1>2, JiraStep, RowsStep DEF ReadsInv
  <1>3. CASE focus = "launch" /\ Launch!LaunchNext /\ UNCHANGED focus
    BY <1>3, LaunchStep DEF ReadsInv
  <1>4. CASE focus = "discovery" /\ Engine!DiscoveryNext /\ UNCHANGED focus
    BY <1>4, DiscoveryStep DEF ReadsInv
  <1>5. CASE focus \in {"walk", "pages"} /\ UNCHANGED focus
    BY <1>5 DEF ReadsInv
  <1>6. CASE UNCHANGED vars
    <2>1. UNCHANGED <<focus, githubVars, jiraVars, launchVars, discoveryVars>>
      BY <1>6, Zenon DEF vars
    <2>2. UNCHANGED <<call, artifacts>>
      BY <2>1 DEF discoveryVars
    <2>3. QED
      BY <2>1, <2>2, GithubStays, CoverageStays, JiraStays, RowsStay, LaunchStays, DiscoveryStays
      DEF ReadsInv
  <1>7. QED
    <2>1. Next \/ UNCHANGED vars
      OBVIOUS
    <2>2. ASSUME Next
          PROVE  \/ focus = "github" /\ Github!Next /\ UNCHANGED focus
                 \/ focus = "jira" /\ Jira!JiraNext /\ UNCHANGED focus
                 \/ focus = "launch" /\ Launch!LaunchNext /\ UNCHANGED focus
                 \/ focus = "discovery" /\ Engine!DiscoveryNext /\ UNCHANGED focus
                 \/ focus \in {"walk", "pages"} /\ UNCHANGED focus
      BY <2>2, Zenon DEF Next
    <2>3. QED
      BY <2>1, <2>2, <1>1, <1>2, <1>3, <1>4, <1>5, <1>6

\* So the invariant holds in every state of every behaviour.
LEMMA ReadsInvariance == Spec => []ReadsInv
  BY ReadsBegin, ReadsStep, PTL DEF Spec

-----------------------------------------------------------------------------
(* The theorems *)

\* Nothing a read of GitHub is served from the cache, and nothing the cache holds,
\* is older than the newest change that was confirmed before, whatever reads,
\* mutations, evictions and answers that come late interleave; and a page of Jira
\* is served as upstream last confirmed it (github/fetch.rs; core/session.rs,
\* cache_put_if_generation; jira/transport.rs).
THEOREM ServedCurrentAlways == Spec => []ServedCurrent
  <1>1. ReadsInv => ServedCurrent
    BY GithubCurrent, JiraAtHome DEF ReadsInv, ServedCurrent
  <1>2. QED
    BY <1>1, ReadsInvariance, PTL

\* What GitHub's readers are told of the coverage of what they are served is so.
\* A listing, facts or plain, whose bodies are of one version of the upstream's
\* list is complete only with all that follows where it began, and leaves off
\* where its continuation goes on; no record of it is repeated, but in the files
\* of a diff that changes meanwhile; a number opens the row that has it, and is
\* missing only when no row has; and the budget that stopped a read is enough for
\* the page its continuation names.  A plain listing is held to it as long as
\* upstream sends no page round again (github/facts/collection.rs, read;
\* github/fetch.rs, collection; github/mod.rs, DiffFile).
THEOREM CoverageHonestAlways == Spec => []CoverageHonest
  <1>1. ReadsInv => CoverageHonest
    BY CoverageFollows DEF ReadsInv, CoverageHonest
  <1>2. QED
    BY <1>1, ReadsInvariance, PTL

\* A Continuation Token is sent only to the origin that gave it and for the
\* collection it was given for, however mounts change and whichever reader brings
\* the selector (atlassian/jira/cursor.rs, browse.rs).
THEOREM TokensStayHomeAlways == Spec => []TokensStayHome
  <1>1. ReadsInv => TokensStayHome
    BY JiraAtHome DEF ReadsInv, TokensStayHome
  <1>2. QED
    BY <1>1, ReadsInvariance, PTL

\* What a read of a collection of Jira answers is the rows from where it began to
\* where its continuation goes on, no more than a read may have, whatever sizes of
\* pages upstream settles on and however reads, edits of the records, evictions and
\* servers interleave; also when upstream sends a record or a position the read has
\* had, more than was asked for, or nothing, unless the read took a page from the
\* cache that is odd only beside the rows of another (jira/browse.rs, jira/query.rs,
\* the assembly of pages; jira/transport.rs, fetch_cached).
THEOREM RowsExactAlways == Spec => []RowsExact
  <1>1. ReadsInv => RowsExact
    BY RowsFollow DEF ReadsInv, RowsExact
  <1>2. QED
    BY <1>1, ReadsInvariance, PTL

\* A launch connects to a private address only under a grant, and neither connects
\* nor runs a helper for a kind it cannot mount, whatever names resolve to and
\* however the probes interleave (profile/check.rs, probe_targets; probe.rs,
\* connect_policed).
THEOREM LaunchTouchesGrantedAlways == Spec => []LaunchTouchesGranted
  <1>1. ReadsInv => LaunchTouchesGranted
    BY LaunchGranted DEF ReadsInv, LaunchTouchesGranted
  <1>2. QED
    BY <1>1, ReadsInvariance, PTL

\* What is served is what the probes found: every source is mounted whole, or is
\* optional, did not answer and is held apart without a credential; and a launch
\* that stops as unavailable has a source that is the cause (launch.rs,
\* from_checked_profile).
THEOREM LaunchFollowsProbesAlways == Spec => []LaunchFollowsProbes
  <1>1. ReadsInv => LaunchFollowsProbes
    BY LaunchGranted DEF ReadsInv, LaunchFollowsProbes
  <1>2. QED
    BY <1>1, ReadsInvariance, PTL

\* What the answer to a search or a glob leaves out is in the document it names,
\* in its place and once, for every source, request and limit, whatever calls do
\* meanwhile; and a source that has more pages is said to have more, beside the
\* document or instead of it (discovery.rs, select_search_page, select_glob_page,
\* retain_omitted).
THEOREM NothingLostAlways == Spec => []NothingLost
  <1>1. ReadsInv => NothingLost
    BY DiscoveryPromises DEF ReadsInv, NothingLost
  <1>2. QED
    BY <1>1, ReadsInvariance, PTL

\* A document lists one record for each line of a resource, one that no other of
\* that line is before, in the order of resources and lines (discovery.rs,
\* normalize_search_records, normalize_glob_entries).
THEOREM DocumentsOrdered ==
    ASSUME NEW records \in SUBSET Engine!Record, IsFiniteSet(records)
    PROVE  LET list == Engine!Normalized(records)
           IN /\ list \in Seq(records)
              /\ \A i, j \in 1..Len(list) : i < j =>
                    \/ list[i].ref < list[j].ref
                    \/ list[i].ref = list[j].ref /\ list[i].line < list[j].line
              /\ \A a \in records : \E i \in 1..Len(list) :
                    list[i].ref = a.ref /\ list[i].line = a.line /\ ~Engine!Before(a, list[i])
  <1> DEFINE least == Engine!Least(records)
             R == {p \in least \X least : Engine!Before(p[1], p[2])}
             list == Engine!Ranked(least, R)
             n == Cardinality(least)
  <1>1. Engine!Normalized(records) = list
    BY DEF Engine!Normalized
  <1>2. least \in SUBSET records /\ IsFiniteSet(least)
    <2>1. least \in SUBSET records
      BY DEF Engine!Least
    <2>2. QED
      BY <2>1, FS_Subset
  <1>3. Orders(R, least)
    <2>1. \A a, b : <<a, b>> \in R <=> a \in least /\ b \in least /\ Engine!Before(a, b)
      OBVIOUS
    <2> HIDE DEF R
    <2>2. QED
      BY <2>1, LeastOrdered
  <1>4. /\ n \in Nat /\ list \in Bijection(1..n, least)
        /\ \A i, j \in 1..n : <<list[i], list[j]>> \in R <=> i < j
    <2> HIDE DEF R, least
    <2>1. QED
      BY <1>2, <1>3, RankedLists
  <1> HIDE DEF list, n
  <1>5. /\ list \in [1..n -> least] /\ \A a \in least : \E i \in 1..n : list[i] = a
    BY <1>4, Bijects
  <1>6. list \in Seq(records) /\ Len(list) = n
    <2>1. list \in [1..n -> records]
      BY <1>2, <1>5
    <2>2. list \in Seq(records)
      BY <1>4, <2>1, SeqDef
    <2>3. QED
      BY <1>4, <2>1, <2>2, LenProperties
  <1>7. \A a \in records : a.ref \in Nat /\ a.line \in Nat
    BY DEF Engine!Record
  <1>8. ASSUME NEW i \in 1..n, NEW j \in 1..n, i < j
        PROVE  \/ list[i].ref < list[j].ref
               \/ list[i].ref = list[j].ref /\ list[i].line < list[j].line
    <2>1. list[i] \in least /\ list[j] \in least /\ Engine!Before(list[i], list[j])
      <3>1. <<list[i], list[j]>> \in R
        BY <1>4, <1>8
      <3>2. QED
        BY <3>1
    <2>2. ~(list[i].ref = list[j].ref /\ list[i].line = list[j].line)
      BY <2>1 DEF Engine!Least
    <2>3. QED
      BY <2>1, <2>2 DEF Engine!Before
  <1>9. ASSUME NEW a \in records
        PROVE  \E i \in 1..n : list[i].ref = a.ref /\ list[i].line = a.line /\ ~Engine!Before(a, list[i])
    <2>1. PICK b \in least : b.ref = a.ref /\ b.line = a.line
      BY LeastExists
    <2>2. ~Engine!Before(a, b)
      BY <2>1 DEF Engine!Least
    <2>3. PICK i \in 1..n : list[i] = b
      BY <1>5, <2>1
    <2>4. QED
      BY <2>1, <2>2, <2>3
  <1>10. QED
    BY <1>1, <1>6, <1>8, <1>9
=============================================================================
