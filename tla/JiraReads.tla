------------------------------ MODULE JiraReads ------------------------------
(***************************************************************************)
(* The Jira source: atlassian/jira.rs, jira/transport.rs, jira/browse.rs,  *)
(* jira/query.rs and jira/cursor.rs, with the checks of wire/collections.  *)
(* A read fetches one record or the pages of a collection, each page       *)
(* through the session's cache, under one budget of attempts, and answers  *)
(* whole or not at all, with a selector for what is left.  Selectors live  *)
(* with the client: they outlast the server and its mounts.                *)
(*                                                                         *)
(* A record of a collection is its number in the order upstream gives it;  *)
(* Order gives its stable id.  `edition` counts the edits of the text of   *)
(* the records.                                                            *)
(***************************************************************************)
EXTENDS Integers, Sequences, FiniteSets, Functions, TLC

CONSTANTS
    Readers,        \* concurrent reads
    Sites,          \* Site Mounts
    Origins,        \* origins a Site Mount may be bound to
    Targets,        \* [site, kind, parent]; kind issue, alias, projects, issues or query
    Order,          \* the stable ids of a collection, in upstream's order
    Native,         \* BrowseLimits.native
    MaxRecords,     \* BrowseLimits.records
    Attempts,       \* BrowseLimits.attempts
    Unrepresentable,\* positions whose token does not fit a reference
    MaxEditions, MaxFaults, MaxReads    \* bounds of the model

VARIABLES
    mount,          \* the origin each Site Mount is bound to
    edition,        \* edits of the records upstream
    cache,          \* the session's cached responses: [key, page, edition]
    read,           \* the reads
    selectors,      \* the continuations clients hold
    faults, reads   \* what the bounds have left

jiraVars == <<mount, edition, cache, read, selectors, faults, reads>>

NoOrigin == "unmounted"
End == -1
NoToken == [origin |-> NoOrigin, target |-> [kind |-> "none"], at |-> End]
NoPage == [rows |-> <<>>, next |-> End, max |-> 0]
NoEntry == [page |-> NoPage, edition |-> 0]

\* Where the first page of a collection begins, and what a record or the parent
\* of a collection is fetched as.
Start == 0
Single == -2

Idle == [pc |-> "idle", target |-> CHOOSE t \in Targets : TRUE, begun |-> Start, at |-> Start,
         token |-> NoToken, native |-> Native, asked |-> 1, rows |-> <<>>, visited |-> {},
         left |-> Attempts, retry |-> TRUE, cached |-> NoEntry, response |-> NoPage,
         said |-> 0, used |-> {}, misled |-> FALSE, next |-> End, why |-> "none"]

JiraInit ==
    /\ mount \in [Sites -> Origins] /\ edition = 1 /\ cache = {}
    /\ read = [r \in Readers |-> Idle]
    /\ selectors = {} /\ faults = MaxFaults /\ reads = MaxReads

-----------------------------------------------------------------------------
(* Selectors *)

\* Mutant: a cursor is known by the collection alone.
OwnedByName(selector, target) == selector.owner = target

\* CursorOwner::decode: the cursor names this collection and the origin its
\* Site Mount is bound to now.
Owned(selector, target) == selector.owner = target /\ selector.origin = mount[target.site]

\* CursorOwner::validate_continuation.
Represents(target, at) == target.kind = "projects" \/ at \notin Unrepresentable

\* CursorOwner::continuation; the offset of a page of projects.
Continuation(target, at) ==
    [owner |-> target, origin |-> mount[target.site],
     token |-> [origin |-> mount[target.site], target |-> target, at |-> at]]

-----------------------------------------------------------------------------
(* A read *)

Move(r, state) == read' = [read EXCEPT ![r] = state]
Fail(r, why) == Move(r, [Idle EXCEPT !.pc = "failed", !.why = why])

Direct(target) == target.kind \in {"issue", "alias"}
Cacheable(target) == target.kind \notin {"alias", "query"}
Key(state) == [origin |-> mount[state.target.site], target |-> state.target,
               at |-> state.at, asked |-> state.asked]

Lower(a, b) == IF a < b THEN a ELSE b

\* The page a read fetches next, at `at`; a position that is not the first is
\* asked for by its token.
Fetching(state, at, token) ==
    [state EXCEPT !.pc = "lookup", !.at = at, !.token = token,
        !.cached = NoEntry, !.response = NoPage, !.said = 0,
        !.asked = Lower(state.native, MaxRecords - Len(state.rows))]

\* read_resource, read_browse, up to the first fetch: a cursor of another owner
\* fails before anything is sent.
Begin(r, target, selector) ==
    LET opened == [Idle EXCEPT !.target = target]
        resumed == IF selector = NoToken THEN opened
                   ELSE [opened EXCEPT !.begun = selector.token.at, !.at = selector.token.at,
                                       !.token = selector.token]
    IN
    /\ read[r].pc \in {"idle", "answered", "failed"} /\ reads > 0
    /\ reads' = reads - 1
    /\ IF mount[target.site] = NoOrigin THEN Fail(r, "permission_denied")
       ELSE IF Direct(target) THEN Move(r, [opened EXCEPT !.pc = "lookup", !.at = Single])
       ELSE IF selector # NoToken /\ target.kind # "projects" /\ ~Owned(selector, target)
       THEN Fail(r, "invalid_reference")
       ELSE IF target.parent THEN Move(r, [resumed EXCEPT !.pc = "parent"])
       ELSE Move(r, Fetching(resumed, resumed.at, resumed.token))
    /\ UNCHANGED <<mount, edition, cache, selectors, faults>>

\* fetch_cached: the entry is taken before the request is made.  The parent of
\* a collection is fetched without the cursor.
Lookup(r) ==
    LET state == read[r]
        found == {entry \in cache : entry.key = Key(state)}
        entry == IF state.pc = "lookup" /\ Cacheable(state.target) /\ found # {}
                 THEN LET e == CHOOSE e \in found : TRUE IN [page |-> e.page, edition |-> e.edition]
                 ELSE NoEntry
    IN
    /\ state.pc \in {"lookup", "parent"}
    /\ Move(r, [state EXCEPT !.cached = entry,
                             !.pc = IF state.pc = "parent" THEN "ask_parent" ELSE "ask"])
    /\ UNCHANGED <<mount, edition, cache, selectors, faults, reads>>

\* JiraRead::fetch, HttpReadBudget: a request that fails once may be repeated
\* once in a read, and each attempt is charged.
Charged(state, tries) ==
    [state EXCEPT !.left = IF Direct(state.target) THEN @ ELSE @ - tries, !.retry = @ /\ tries = 1]
Affords(state, tries) == (Direct(state.target) \/ tries <= state.left) /\ (tries = 2 => state.retry)

\* What upstream should answer for a page, and what it should not: an empty
\* page is only odd.
Honest(state) ==
    IF state.at = Single THEN {[NoPage EXCEPT !.rows = <<Order[1]>>]}
    ELSE {LET n == Lower(most, Len(Order) - state.at)
          IN [rows |-> SubSeq(Order, state.at + 1, state.at + n), max |-> IF told THEN most ELSE 0,
              next |-> IF state.at + n < Len(Order) THEN state.at + n ELSE End] :
              most \in 1..state.asked, told \in BOOLEAN}
Lies(state) ==
    IF state.at = Single THEN {[NoPage EXCEPT !.rows = <<0>>]}
    ELSE LET after == IF state.at + 1 < Len(Order) THEN state.at + 1 ELSE End
             one == [rows |-> SubSeq(Order, state.at + 1, state.at + 1), next |-> after, max |-> 1]
         IN {[one EXCEPT !.rows = SubSeq(Order, state.at + 1, Len(Order)), !.next = End],
             [one EXCEPT !.max = state.asked + 1], [one EXCEPT !.rows = <<>>, !.next = state.at]}
            \cup {[one EXCEPT !.rows = <<row>>] : row \in Range(state.rows)}
            \cup {[one EXCEPT !.next = at] : at \in state.visited}
            \cup (IF state.target.parent THEN {[one EXCEPT !.rows = <<0>>]} ELSE {})

\* Upstream answers with a page, or with 304 when the page is still the one it
\* gave.
Respond(r, tries) ==
    LET state == Charged(read[r], tries) IN
    /\ read[r].pc = "ask" /\ Affords(read[r], tries)
    /\ \/ /\ state.cached # NoEntry /\ state.cached.edition = edition
          /\ Move(r, [state EXCEPT !.pc = "revalidated", !.said = edition])
          /\ UNCHANGED faults
       \/ /\ \E page \in Honest(state) :
                Move(r, [state EXCEPT !.pc = "responded", !.response = page, !.said = edition])
          /\ UNCHANGED faults
       \/ /\ faults > 0 /\ faults' = faults - 1
          /\ \E page \in Lies(state) :
                Move(r, [state EXCEPT !.pc = "responded", !.response = page, !.said = edition])
    /\ UNCHANGED <<mount, edition, cache, selectors, reads>>

\* The parent of a collection is read, and is the project that was asked for.
RespondParent(r, tries) ==
    /\ read[r].pc = "ask_parent" /\ Affords(read[r], tries)
    /\ LET state == Charged(read[r], tries) IN Move(r, Fetching(state, state.at, state.token))
    /\ UNCHANGED <<mount, edition, cache, selectors, faults, reads>>

\* An error of the request, of its status or of its media, an attempt too many,
\* and the deadline of the read: it fails whole.
Break(r) ==
    /\ read[r].pc \in {"parent", "ask_parent", "lookup", "ask", "responded", "revalidated"}
    /\ faults > 0 /\ faults' = faults - 1
    /\ Fail(r, "source_unavailable")
    /\ UNCHANGED <<mount, edition, cache, selectors, reads>>
Exhaust(r) ==
    /\ read[r].pc \in {"ask", "ask_parent"} /\ ~Affords(read[r], 1)
    /\ Fail(r, "limit_exceeded")
    /\ UNCHANGED <<mount, edition, cache, selectors, faults, reads>>

-----------------------------------------------------------------------------
(* A page *)

\* Mutant: duplicates are looked for in the page alone.
RepeatedInPage(state, page) == ~IsInjective(page.rows)

\* decode_project_page, decode_issue_page, and the identities of the read.
Repeated(state, page) == ~IsInjective(state.rows \o page.rows)

\* decode_issue, decode_project_page, decode_issue_page, read_projects,
\* read_issues, read_query: what a read refuses.
Refused(state, page) ==
    \/ state.target.kind = "issue" /\ page.rows # <<Order[1]>>
    \/ ~Direct(state.target) /\ Len(page.rows) > state.asked
    \/ /\ state.target.kind = "projects" \/ (state.target.kind = "query" /\ page.max # 0)
       /\ page.max \notin 1..state.asked \/ Len(page.rows) > page.max
    \/ state.target.kind = "projects" /\ page.next # End /\ page.next <= state.at
    \/ state.target.parent /\ 0 \in Range(page.rows)
    \/ Repeated(state, page)
    \/ ~Direct(state.target) /\ state.target.kind # "projects" /\ page.next \in state.visited
    \/ page.next # End /\ ~Represents(state.target, page.next)

\* The page size upstream has settled on.
Settled(state, page) ==
    IF state.target.kind \in {"projects", "query"} /\ page.max # 0
    THEN Lower(state.native, page.max) ELSE state.native

\* A read is answered in upstream's order if it is a query, else by stable id.
Arranged(target, rows) ==
    IF target.kind = "query" THEN rows ELSE SortSeq(rows, LAMBDA a, b : a < b)

Answer(r, state, rows, next) ==
    /\ Move(r, [Idle EXCEPT !.pc = "answered", !.target = state.target, !.begun = state.begun,
                            !.rows = Arranged(state.target, rows), !.next = next, !.used = state.used,
                            !.misled = state.misled])
    /\ selectors' = IF next = End THEN selectors
                    ELSE selectors \cup {Continuation(state.target, next)}

\* The loop of read_projects, read_issues and read_query, after a page.
Take(r, state, page) ==
    LET rows == state.rows \o page.rows
        sent == IF state.token = NoToken THEN state.visited ELSE state.visited \cup {state.token.at}
        taken == [state EXCEPT !.rows = rows, !.visited = sent, !.native = Settled(state, page)]
    IN IF Refused([state EXCEPT !.visited = sent], page)
       THEN Fail(r, "source_unavailable") /\ UNCHANGED selectors
       ELSE IF Direct(state.target) \/ page.next = End
       THEN Answer(r, taken, rows, End)
       ELSE IF Len(rows) = MaxRecords \/ state.left = 0
       THEN Answer(r, taken, rows, page.next)
       ELSE /\ Move(r, Fetching(taken, page.next, Continuation(state.target, page.next).token))
            /\ UNCHANGED selectors

\* 304: the entry the request was made with.  A page is kept before the read
\* that fetched it refuses it, so what is odd only beside the other pages of that
\* read is taken by another: `misled` observes that.
Kept(state) == state.cached

Revalidate(r) ==
    LET state == read[r]
        page == Kept(state).page
    IN
    /\ state.pc = "revalidated"
    /\ Take(r, [state EXCEPT !.used = @ \cup {<<Kept(state).edition, state.said>>},
                             !.misled = IF page \in Honest(state) \cup Lies(state) THEN @ ELSE TRUE],
               page)
    /\ UNCHANGED <<mount, edition, cache, faults, reads>>

\* A response is cached if it carries a validator and the cache has room for
\* it; else what was cached for it goes.
Store(r, kept) ==
    LET state == read[r]
        others == {entry \in cache : entry.key # Key(state)}
    IN
    /\ state.pc = "responded"
    /\ cache' = IF ~Cacheable(state.target) THEN cache
                ELSE IF kept THEN others \cup {[key |-> Key(state), page |-> state.response,
                                                edition |-> state.said]}
                ELSE others
    /\ Take(r, [state EXCEPT !.used = @ \cup {<<state.said, state.said>>}], state.response)
    /\ UNCHANGED <<mount, edition, faults, reads>>

-----------------------------------------------------------------------------
(* Upstream, the session's cache and the server *)

Edit ==
    /\ edition < MaxEditions
    /\ edition' = edition + 1
    /\ UNCHANGED <<mount, cache, read, selectors, faults, reads>>

Evict(entry) ==
    /\ cache' = cache \ {entry}
    /\ UNCHANGED <<mount, edition, read, selectors, faults, reads>>

\* Another server, with another profile: its session is new.
Remount ==
    /\ faults > 0 /\ faults' = faults - 1
    /\ mount' \in [Sites -> Origins \cup {NoOrigin}]
    /\ cache' = {} /\ read' = [r \in Readers |-> Idle]
    /\ UNCHANGED <<edition, selectors, reads>>

JiraNext ==
    \/ \E r \in Readers, target \in Targets : Begin(r, target, NoToken)
    \/ \E r \in Readers, target \in Targets, selector \in selectors :
          ~Direct(target) /\ (target.kind = "projects") = (selector.owner.kind = "projects")
          /\ Begin(r, target, selector)
    \/ \E r \in Readers : Lookup(r)
    \/ \E r \in Readers, tries \in 1..2 : Respond(r, tries)
    \/ \E r \in Readers, tries \in 1..2 : RespondParent(r, tries)
    \/ \E r \in Readers : Break(r)
    \/ \E r \in Readers : Exhaust(r)
    \/ \E r \in Readers : Revalidate(r)
    \/ \E r \in Readers, kept \in BOOLEAN : Store(r, kept)
    \/ Edit
    \/ \E entry \in cache : Evict(entry)
    \/ Remount

JiraSpec == JiraInit /\ [][JiraNext]_jiraVars

-----------------------------------------------------------------------------
(* Correctness *)

\* What upstream's token opens is what it was given for: no request carries a
\* token that another collection or another origin gave, also when the client
\* resumes under a server whose mounts have changed (cursor.rs: ownership is a
\* routing constraint; browse.rs: a rebound mount must receive no egress).
TokensStayHome ==
    \A r \in Readers : read[r].pc = "ask" /\ read[r].token # NoToken
                       /\ read[r].target.kind # "projects" =>
        /\ read[r].token.origin = mount[read[r].target.site]
        /\ read[r].token.target = read[r].target

\* An answer is exactly the records from where the read began to where its
\* continuation goes on, each once, and to the last one without a continuation,
\* whatever page sizes upstream chooses and whatever it repeats or contradicts,
\* unless the read took a page from the cache that is odd only to another
\* (browse.rs, query.rs: the assembly of pages).
RowsExact ==
    \A r \in Readers :
        read[r].pc = "answered" /\ ~Direct(read[r].target) /\ ~read[r].misled =>
        LET end == IF read[r].next = End THEN Len(Order) ELSE read[r].next
            rows == SubSeq(Order, read[r].begun + 1, end)
        IN read[r].rows = Arranged(read[r].target, rows) /\ Len(rows) <= MaxRecords

\* A page is what upstream had when it answered for it, also when the text
\* comes from the cache and other reads replace the entry meanwhile
\* (transport.rs, fetch_cached).
PagesCurrent ==
    \A r \in Readers : \A pair \in read[r].used : pair[1] = pair[2]
=============================================================================
