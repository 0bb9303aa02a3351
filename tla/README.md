# ResourceFS: TLA+ models, checks and proofs

ResourceFS (`src/`) is a local MCP server written in Rust.  A client reads, searches and
changes *resources* through path references: workspace files, `local://` scratch,
`artifact://` recovery storage, HTTPS pages, GitHub and Jira objects.  One connection is one
*Path Session*.  This directory holds TLA+ modules of the parts of it that keep state, run
concurrently or decide under budgets and failures, the TLC configurations that check them on small
instances, and proofs, checked by TLAPS, that the main safety properties hold for every value of the
constants.

Paths below are relative to `src/crates/`; `core`, `sources`, `mcp` stand for
`resourcefs-core/src`, `resourcefs-sources/src`, `resourcefs-mcp/src`.

To run: `tlc -config MCSession.cfg MCSession` checks one run (`PROJECT.json` pairs
every configuration with its module), `tlapm PathSessionProofs.tla` checks one module's proofs.

## 1. Inventory

### The system's parts

| Part | State it keeps | Operations | Talks to |
| --- | --- | --- | --- |
| Path Session ledger, `core/session.rs` | one tokio mutex `admission` around artifacts, digest index, scratch, cache, snapshots, reserved bytes, journal, object ids; an atomic `active` | `retain`, `scratch_put/load/remove/rename`, `cache_get/put/remove/remove_namespace`, `record_seen`, `reserve_seen`/`publish_seen`/`cancel_seen`, `begin_mutation`, `invalidate` | storage, awaited with the mutex held |
| Operation guard and journal, `core/session.rs` | per call: active, committing, completed or cancelled; per operation id: binding and attempt | `begin_commit`, `finish_commit`, `cancel`; `begin_mutation`, lease `finish`, lease drop | every engine |
| Mutation engine, `core/mutation.rs` | none between calls | `write`, `edit` (with `MV` and `REM`) | locks, session, adapters |
| Mutation locks, `core/mutation.rs` | registry of weak references to tokio mutexes | `acquire` of a set of keys | |
| Filesystem mutation, `sources/filesystem_mutation.rs` | the directory | create, replace, move, remove: check, stage, rename or unlink | other programs |
| GitHub mutations, `sources/github/mutation.rs` | upstream objects | create comments and pull requests, change fields | the network; answers are lost |
| Session storage, `sources/session_storage.rs` | one directory per session: lease file (flock), objects, live and disconnected markers | `create`, `begin_io`, `write_atomic`, `remove`, heartbeat, `mark_disconnected`, `finish_disconnect`, `cleanup_sessions` | cleanups of other server processes |
| Root authority, `sources/filesystem.rs`, `mcp/server.rs` | `authority` (RwLock): active, refreshing or disabled, with an epoch and generation; identity history; pending flag | `begin_client_root_refresh`, acquisition, completion, failure, timer; `root_view`, `validate_read_delivery`, `mutation_authority_guard` | the client, which answers late or never |
| Reads and pages, `core/read.rs`, `core/resource.rs` | none | select, page, retain what does not fit, record the displayed lines | session |
| Hashline patches, `core/mutation.rs` | none | parse, conflicts, apply, seen ranges and their remapping | |
| Discovery, `core/discovery.rs`, walks of `sources/filesystem.rs` | none; a walk holds a stack of directories, the final paths it visited, its budgets | `search`, `glob`: normalise, order, page, retain the rest; `walk_workspace` with links and ignore rules | adapters, session; other programs change the tree |
| GitHub reads and facts, `sources/github/` | session cache entries with etags and namespace generations | conditional fetch, bounded collections, rows, records, source files, continuations | HTTP, session cache, mutations of the same session |
| HTTP substrate, `sources/http/`, `sources/https.rs` | a read budget per acquisition | fetch with redirects, one retry, Retry-After, ceilings; raw and reader-mode documents | the network |
| Jira, `sources/atlassian/` | session cache entries; continuations are bound to collection and origin | browse, query, pages | HTTP, session cache |
| Process runner, `sources/process/` | permits, process groups | `run` with deadline, ceilings and cleanup | helpers |
| Server dispatch, `mcp/server.rs` | one cancellation entry per request id; roots turn | tool calls, notifications, end of the connection | everything above |
| Logging, `mcp/logging.rs` | a bounded queue with a counter of dropped events, the current file and its rotated family | the tracing bridge, the drain, `write`, `rotate` | every component emits |
| Launch, `mcp/launch.rs`, `mcp/profile/`, `sources/probe.rs` | fixed after launch | static check, secrets, probes, verdict, mounts | helpers, the network |
| Configuration, catalog, secrets, rendering | fixed after launch, or none | conversion, layout | |

`PROJECT.json` lists every part with its sources and says what of it is modelled.  The parts meet
in three places: the session (all of them retain into it or cache in it), the mutation engine
(every adapter's changes go through its locks and its journal), and the HTTP substrate (every
network source fetches through it).

### What is hard here, and what makes each part right

*Ledger.*  A call holds the mutex across a storage write; a snapshot change is computed in one
locked section and applied, as an absolute counter, in a later one; cached bytes yield to
authoritative ones; writes fail; the session ends under waiting calls.  Right means: the bytes
charged are the bytes held, neither ceiling is ever passed, an id names one object, an artifact
reference stays readable with its bytes, equal bytes are one artifact even when digests collide,
reservations are given back, displayed lines are not forgotten.

*Mutations.*  Several calls interleave at every await, any of them is cancelled or dropped at any
of them, other programs write to the same files, and remote answers are lost.  Right means: the
caller can believe the answer; an operation id creates at most one remote object, whatever is
retried; a creation or move never replaces a file that turned up meanwhile; snapshots cover only
content that existed; calls with crossing lock sets all finish.

*Locks.*  Entries are weak, pruned and made anew while others wait on the mutex they stood for.
Right means: it behaves as one exclusive lock per key.

*Storage.*  Servers clean up each other's directories and crash anywhere.  Right means: storage in
use is not touched, retained storage is kept for its time, what is dead is collected.

*Text.*  Positions are lines of an older version, ranges move under edits, pages end inside lines,
selections overlap, texts end without a terminator.  Right means: an edit does to the rows what it
says, only lines a caller knows are editable and all of them are, and pages together are the text.

*Root authority.*  Roots change while calls run and while the answer to an earlier question is
still on its way; the client may never answer; a timer fires late.  Right means: withdrawn roots
serve nobody, an identifier does not change its meaning, the authority is not lost without a cause,
and every call is answered.

*Reads of remote collections.*  Pages are fetched one by one while upstream changes, mutations
of the same session invalidate the cache, budgets end the read anywhere, upstream repeats or
contradicts itself, and continuations outlive servers.  Right means: nothing older than a confirmed
mutation is served or cached, a listing that says it is complete is, and a continuation goes on where
the page left off, at the origin that gave it.

*HTTP.*  Attempts, one retry, waits, redirects, deadline and cancellation of one operation
interleave.  Right means: every connection is one the operator granted, a credential stays at its
origin, a budget covers what was sent, a mutation is sent once, a cut body never passes for a whole
document, and every fetch ends.

*Walks and answers of searches.*  Links lead anywhere, ignore rules nest, the tree changes while it
is walked, limits cut the records and the page.  Right means: what is reported is admitted, what is
left out is admitted to, and what a page omits is in the document it names.

*Processes, calls, log, launch.*  Exit, pipes, deadline and cancellation of a command race; calls may
share an id; a rotation fails half way; helpers and probes fail one by one.  Right means: no process
group outlives its run, every call returns, cancellation reaches those it was meant for and no other,
the files of the log are its end in order, a launch touches only what it was granted and serves what
its probes found.

The `hazards` of `PROJECT.json` give each of these its line and the properties that watch it.

## 2. Plan

Done, in this order.  Every safety property was checked with TLC first; what is proved of it as well is
in section 5:

1. `PathSession`: the ledger everything else charges.
2. `MutationEngine`, `MutationContract`, and `MutationLocks` with `ExclusiveLocks`.
3. `SessionStore`: storage shared by server processes.
4. `RootAuthority`: the authority under which calls run.
5. `TextPages` and `Hashlines`: the text algorithms of reads and edits, against a row-wise reference.
6. `HttpSubstrate` and `HttpsSource`; above the substrate, `GithubReads` and `JiraReads`.
7. `WorkspaceWalk` and `Discovery`: what a search or glob finds, and what it answers.
8. `CommandRunner`, `RequestCancellations`, `DiagnosticLog`, `Startup`.

To come: a row-wise reference for GitHub's aggregate of a pull request (several collections under one
budget); `PathSession` composed with the roots (snapshots of removed roots); `scratch_load` outside
the lock.

Worth proving next: the part of `CoverageSound` that is true of every text, for which the folds of the
library over ranges and edits, and its sort, would first have to be reasoned about without induction
over data (section 5).

## 3. Modules

### `Weights`, `PathSession`, `SerialSession`, `MCPathSession`, `MCSession`

`Weights` has finite maps and the total of their values: a key with the value n stands for n units, and
the total is the number of units, so that what putting, replacing and removing a key does to it
follows from the library's theorems about finite sets (the first section of `PathSessionProofs`; what
the log needs of it is in `ServicesProofs`).  All accounting rests on it.

`PathSession` is the ledger.  A call that does not suspend under the lock is one action, from its
pre-lock check to its last assignment.  `retain` and `scratch_put` are begin steps that put the
suspended call into `admission`, and the steps with which the storage answers
(`RetainPublish`, `RetainAbandon`, `ScratchPutPublish`, `ScratchPutFailed`).  While `admission` is
not `Free` nothing else moves, except `invalidate`, which takes no lock.  `reserve_seen` stores the
update it computed in `reservations`; `PublishSeen` applies that update, `ReleaseSeen` is
`cancel_seen` or the task spawned by the drop.

| TLA+ | code |
| --- | --- |
| `admission` | the mutex and what the holder has in its locals |
| `used_bytes`, `snapshot_bytes`, `reserved_snapshot_bytes`, `next_object_id` | fields of `SessionState` |
| `records` | `digest_index` and the artifact sizes |
| `scratch`, `cache`, `snapshots`, `mutation_operations` | the maps of the same names |
| `older` | the order of `last_used` stamps |
| `disk` | the objects in storage |
| `late` | calls that passed the pre-lock check of `active` |

Contents are model values with a size and a digest that may collide; a Version Tag is the content;
merged ranges are the sets of lines they cover, costing one `RangeBytes` per run of lines.

`SerialSession` adds one observer, `overlapped`: whether a snapshot was ever changed between a
reservation and its end.  What the ledger promises only to calls that do not overlap is stated as
`~overlapped => ...` (`SerialLedger`, `SerialLinesKept`).  `MCSession` extends it with two instances of
`PathSession`, a session of artifacts, scratch, cache and journal, or one of artifacts, cache and
snapshots, so that one run checks what is promised to all and to serial calls.

### `MutationEngine`, `MutationContract`, `MCMutation`

One call per `Call`, with the engine's stages as `pc`: locking, load, destination, reserve,
journal, begin, check, write, publish.  Every await of the code is a boundary between two actions
and every action before `begin_commit` can be preceded by `Cancel` or `Drop`.  `Check` and `Write`
are the adapter's: between them another program may write (`External`), and the write is the
rename the code does, with or without `RENAME_NOREPLACE`.  Remote requests (`field`, `post`) write
upstream and may lose the answer.  `journal` is the session's map of attempts with their owner.
`shown` is the set of (resource, content) pairs some caller was shown; `had` records what a resource
ever contained, `effective` which calls took effect: both only observe.

`DebugAssertions` says whether the build evaluates `debug_assert!`: the code calls
`operation.finish_commit()` inside one (mutation.rs 1522, 1699, 1761, 1841), so release builds never
make that transition.  `MCMutation` has both builds: two calls of every kind on two files with
debug assertions, three remote posts without.  Calls are alike, so they are submitted in the order
of their names.

`MutationContract` is what a caller is promised: compare and write in one step or nothing, one
creation per operation id, an answer that says which.  Another program that writes between the check
and the rename breaks it, as the code cannot prevent; `disturbed` observes that, and the contract is
asked of every step before it.  `WindowClean` says what is true of a call in that window until then.

### `MutationLocks`, `ExclusiveLocks`

The registry: `entries` maps a key to a mutex identity that may be dead, `acquire` prunes dead
entries, upgrades live ones, makes new mutexes, and locks them in key order.  `ExclusiveLocks` is
one holder per key; the refinement maps a key's holder to the call whose guard is on the registry's
mutex.  `MutationEngine` uses locks at that abstract level, which this refinement justifies.

### `SessionStore`, `MCSessionStore`

Per server process: its phase, its directory's entries, marker times, the flock holder, a call inside
`begin_io`, and the state of the cleanup it runs at start (which directory it has in hand, at which
step).  Removal takes one entry at a time, as `remove_dir_all` does, after the lease was given up.

### `RootAuthority`, `MCRootAuthority`

`declared` is how often the client has changed its roots, `known` the last change the server has
handled.  `authority` is the enum of `filesystem.rs`; `timers` and `late` are the acquisition
deadlines still running and passed; `pending`, `seen` and `turn` are the server's refresh flag, its
knowledge that the client has roots, and the async mutex that makes calls take turns.  Reads keep
the generation they started from and validate at delivery; mutations enter and leave the guard for
resolve, load and commit, on the blocking pool, which nobody cancels.

### `TextPages`, `Hashlines`

`TextPages` has the pure algorithms of a read as operators: line boundaries, the projection a line
selector makes (`select_utf8`), the page that fits the limits (`page_prefix_len`), the lines of it
that count as displayed (`displayed_prefix`), the union of seen ranges, and the continuation of a
page through its artifact.  A text is a sequence of tokens: characters of one byte, `"lf"` and
`"crlf"`; positions count tokens, and only the byte limit of a page knows a `"crlf"` is two.

`Hashlines` puts them to use on one text resource: `Read` takes a page and records what it shows,
`Follow` reads the next page of the artifact, `Edit` applies a patch of one or two hunks to the
current version: conflicts, seen lines, byte edits with their terminators, the (unstable) sort, the
splice, and the remapped ranges recorded for the new version.

| TLA+ | code |
| --- | --- |
| `snapshots[v].ranges`, `.eof` | the seen ranges and displayed end under a Version Tag |
| `ByteEdit`, `Precedes`, `Apply` | `build_byte_edit`, the sort key, the splice loop of `apply_patch` |
| `RemapSeen`, `AppendShifted`, `PushMerged` | `remap_seen_ranges` and its helpers |
| `Continuation`, `Resume` | the `N-` and `page:N` references of `read.rs`, `artifact.rs` |

Three variables only observe: `known` (`learned` in `MCReads`), the characters of lines that were shown in full or authored;
`expected`, the rows that a client which edits rows instead of bytes would now have (`RowsAfter`,
the reference); `atEofClash`, whether a patch met the end-of-text cases of finding 4.  The texts
give every line characters of its own, so `known` identifies lines.

### `HttpSubstrate`, `HttpsSource`, `MCHttp`

One logical operation: up to `MaxFetches` fetches that share a deadline and perhaps a budget.  The
code between two awaits is one action.

| TLA+ | code |
| --- | --- |
| `pc`, `request`, `retry`, `hops` | where `execute` and its callers are, the request and its copy for the one retry, the URLs of the attempt with its redirects |
| `budget` | `ReadBudget`: attempts, bytes, the retry that is spent once for all fetches |
| `connection` | what was authorized for this attempt: URL, address, credential |
| `Classify`, `Authorizes` | the address classes and origin rules of `core/http_policy.rs` |
| `time`, `waiting`, `cancelled` | the deadline, a retry's wait, the caller's operation |

`sends`, `replays` and `fetches` only count.  `HttpsSource` adds what is made of a response: the
document under `:raw` or in reader mode, and the refusals in the order in which they are tested.

### `GithubReads`

Six kinds of reads (comments, the listing of a diff, one of its rows, a facts collection under
limits, one of its records, a source file through the trees on its path) beside mutations of the same
session and edits by strangers.  Upstream is a list of records in versions; a body is the parent, a
page or an object of one version; the validator of a body is its version.  `Guard`, `Capture`,
`Lookup`, `Exchange`, `Settle`, `Finish` and `Final` are the stretches between two awaits: `generation` is captured
before the request leaves and compared when its answer is stored (`cache_put_if_generation`).  A facts
read ends by a budget of attempts, bytes or length, at the record ceiling, by an error or a
contradiction, and rolls back the last page when the answer or its continuation does not fit.
`settled`, `floor` and `read` only observe: the newest confirmed mutation, what a read may not be
older than, and the versions of the bodies it used.  A read keeps of every page its key and how many
records there were with it (`pages`), since a roll-back gives back whole pages.

### `JiraReads`

Records and collections of Jira over the session's cache, each page with its own request, all
under one budget of attempts.  `selectors` are the continuations clients hold: they survive
`Remount`, which gives the site mounts other origins, as another launch with another profile does.
What a page may say (repeat, be short, claim another total, give no token or one it gave before) is
enumerated in `Respond`; `Take` has the checks the code makes of it.  `misled` only observes: a read
took from the cache a page that upstream could not have sent it, because only the other pages of
the read that fetched it show what is odd about it.

### `WorkspaceWalk`

`search_workspace` and `glob_workspace` down to `walk_workspace`.  A tree maps paths to nodes: files
of lines, directories with the rules of their `.gitignore`, links, and entries that lead out.  The
state of a walk is the code's stack of directories with their matchers, the names that are left of the
directory at hand, taken in byte order, the set of final paths visited, the matchers remembered, the
records, the diagnostics and the budgets.  `base` is where the scope really is, once links are followed.  `Change` switches or removes a
subtree between two steps.  `first` keeps the tree the walk began with.  Soundness and completeness
compare the answer with definitions over the tree (`Asked`, `Visible`) that do not walk.

### `Discovery`

`search` and `glob` of `core/discovery.rs`: the limits a request lowers, the one order of records and
diagnostics, the page, the document with its trailer, its retention in the session (which may refuse,
or be closed, or the call be cancelled), and the answer.  A text is counted in columns and bytes.

### `CommandRunner`, `RequestCancellations`, `DiagnosticLog`, `Services`, `MCServices`

`CommandRunner`: a run waits for a permit, spawns a process group, and races output limit, completion, cancellation,
deadline and exit in the order the biased `select!` polls them; then it signals the group,
waits out two grace periods, kills and reaps.  The child and the rest of its group take steps of
their own, immune ones ignore signals, and a pipe may be held open by a process that left the group.

`RequestCancellations`: the map from a request id to a count and a watch channel, the handler's
biased race with it, and the lease that gives the count back.  A mutation that has committed is
waited for.

`DiagnosticLog`: events enter a bounded queue or are counted as dropped, the drain reports the count
before what comes after, and every record goes through the mutex of the sink, which rotates by one
rename after another.  `WriteFails` skips the rest of a write, `Crash` loses what is in memory.

`Services` puts one of them, or `MutationLocks`, in motion: they share no state.  `MCServices` gives it
values.

### `Startup`, `Reads`, `MCReads`

`Startup` is a launch from a profile, or the check commands: static check, secrets (read from the environment, by a
helper, or deferred), probe targets, concurrent probes with a deadline, the verdict, the mounts in
the compiled order, each resolving its credentials.

`Reads` composes the six parts that read: a behaviour is one of `GithubReads`, `JiraReads`,
`WorkspaceWalk`, `Discovery`, `Hashlines` and `Startup` (the constant `Parts`), with the assumptions on
their constants and the properties of all of them in one place; `MCReads` gives it lists, trees, texts
and profiles.  They share no state in the code but the session's, which `PathSession`
models; a joint product would add interleavings without a new pair of steps that depend on
each other.

## 4. Runs

All passing runs explore their whole state space; the numbers are distinct states.

| Run | Instance | Shows |
| --- | --- | --- |
| `session` (347,000) | 2 contents with one digest, 2 scratch names, 2 cache keys, 1 operation id, ceilings 4, 2 and 3; or 2 mutations over 2 snapshots of up to 3 lines | every byte is charged once, ids are distinct, equal bytes are one artifact, artifacts never change, reservations end; without overlap also the exact counter, the quota and the lines kept |
| `session_accounting_race` | 2 snapshots, 2 mutations | **violated**: finding 1 |
| `session_seen_refused` | snapshots and a cache | **violated**: finding 2 |
| `mutation_calls` (759,000) | 2 calls out of 8 requests on 2 files, 1 foreign write; or 3 out of 4 posts over 2 operation ids; cancel, drop and disconnect anywhere | truthful answers, one object per id, exclusive reservations, no clobbering, final outcomes, every call answered; the contract is refined where no other program writes between a check and its rename |
| `services` (225,000) | 3 calls, 2 keys, 4 mutex identities; 2 commands, 1 permit; 3 calls under one request id, one a mutation; 3 log files of one record, queue of 1, 1 fault | locks are exclusive and granted; permits outlast process groups and no group outlasts its run unsaid; the log stays in order; cancellation for cause; every call returns |
| `session_store` (366,000) | 2 servers (one retains nothing) and what a third left behind, 2 ticks | live storage kept, retention honoured, start and stop end |
| `session_store_left` | the same | **violated**: finding 3 |
| `root_authority` (570,000) | 1 read, 1 mutation, 3 sets of client roots | fresh roots, stable identifiers, answers although the client is silent |
| `reads` (2,535,000) | one of six parts, see below | cached and served bodies are current, coverage is honest, tokens stay at home, rows are exact, walks are sound and complete, nothing is lost from an answer, pages and patches are faithful to the rows, a launch touches what it was granted and follows its probes |
| `hashlines_at_end` | the part `pages` | **violated**: finding 4 |
| `ignored_directories` | the part `walk`, one tree | **violated**: finding 5 |
| `http` (618,000) | 8 URLs over 5 origins, 5 resolver answers, 3 budgets, 2 fetches, 1 redirect, deadline 2 | connections and credentials stay where they were granted, the budget covers what was sent, mutations are sent once, cut documents are refused, every fetch ends |

Why these bounds are enough for the interesting cases:

- *Ledger*: two contents, one digest and two names are what a collision, a replacement and a rename
  need; ceilings of 4 bytes with sizes 1 and 2 make every refusal and every eviction reachable;
  three object ids let an id be taken, freed and not reused.  `MaxObjectId` cuts off further
  retains, `MaxLate` the calls that were waiting when the session ended.
- *Mutations*: every property relates at most two calls, or a call and a repeat of it; the third
  post is there so that two repeats can race.  `MaxChanges` bounds foreign writes; one is enough to
  fall into each check-to-rename window.
- *Services*: three calls over two keys give the case of a waiter on a mutex whose entry was pruned
  and made anew.  Two commands give the waiter for the permit, with one group that signals do not
  end.  Three calls under one id give the first end while a second needs the entry and a third
  comes later.  Three files give a rotation of two renames and a removal; `MaxEvents`, `MaxRecords` and
  `MaxFaults` stop the log.
- *Storage*: two cleaners race over one directory while one of them is also its owner.  The third
  directory covers the ways a process can leave one: before its markers, while live, after a
  disconnect.  `MaxTime` 2 lets a retention of 1 be too short, just reached and over.
- *Roots*: the three versions are a replacement of the launch roots, their restoration by an empty
  set, and a set whose identifier collides with a launch root of another URI (refused by
  `identity_history`).  A client that changes its roots for ever could hold a call back for ever,
  as in the code; `Versions` bounds that.
- *GitHub*: six records on pages of two are three pages: a listing can lose its first, its middle
  or its last.  One heavy record makes a byte budget end inside a listing; the limits end one
  read by attempts and the other by length; row 7 lies beyond the end until an edit appends it,
  2 and 3 are on either side of a page's edge; a second version and one fault make contradictory pages.  One reader
  and one mutator suffice, since readers meet only in the cache, which `Evict` and the reader's
  earlier read fill and empty in every way.
- *Jira*: three records on native pages of two, a ceiling of two: a page, a cut and a continuation; two origins
  and a remount; ids in an order other than upstream's, since projects are sorted.
- *Walk*: one tree has links to a hidden directory, to an ignored file and to the root (a cycle), and
  nested rules that take back the outer ones; the other has rules that cannot be read, a binary
  line, an entry that leads out, and more lines than may be reported.  Eight entries exhaust the
  budget in one of them.
- *Discovery*: two calls over a session with room for one document; the requests lie on both sides
  of each limit.
- *Pages*: one text ends in a terminator, one is open with a blank line in it, one mixes
  terminators, one is empty; one has a line of two characters, so that a page can end inside a line.
  Three lines and two hunks give every pair of hunk kinds before, at, between, inside and after each
  other; two patches of one hunk give an edit of the result of an edit, without reading again.
  `MaxHunks` bounds the hunks; no page is read after the last of them, and a page is followed to
  its end before the next edit.  Nothing else writes to the text here (`MutationEngine` has that).
- *Launch*: profiles of two sources with every kind of secret, required or not, a kind without an
  adapter and one without a probe.
- *HTTP*: the addresses lie at the edges of the special-purpose blocks on both sides, one of them
  IPv4 inside IPv6; an origin shares its host with one that has another grant, so that a path decides;
  a budget of two attempts is spent by one retry, and its bytes fall inside a chunk.

`CHECK_DEADLOCK FALSE` is set where the system may stop: all calls answered, all servers gone,
all bounds used.  `reads` uses the symmetry of Jira's two readers, under which its properties (none
of them about liveness) do not change.

### Fairness

- `PathSession`: the storage returns (`WF`), and a call waiting for the mutex gets it (`SF`, because
  the lock is free again and again but not always: tokio's mutex is FIFO).
- `MutationEngine`: the executor polls a call that can go on and blocking work returns (`WF`); locks
  are handed over in FIFO order (`SF`).  Nothing makes a client cancel.
- `MutationLocks`: the same.
- `SessionStore`: a process that has begun to start or stop goes on, a storage call returns.  Nothing
  makes a client disconnect, and a crash is never owed.
- `RootAuthority`: clocks run, the blocking pool finishes, a call goes on when it can.  The client's
  answer has no fairness: it may stay away.
- `CommandRunner`: the runtime polls a run that can go on, and its deadline passes (`WF`).  Nothing
  is owed by processes or pipes.
- `RequestCancellations`: a handler is polled, and what a committed mutation waits for ends (which
  `CallsAnswered` of `MutationEngine` shows).  Other work may hang for ever.
- `HttpSubstrate`: time passes, and the operation takes the steps that are its own; upstream owes
  nothing, and at the deadline a pending attempt fails.

The parts of `reads` have only safety properties; a read is a finite sequence of fetches, and that
a fetch ends is `FetchesEnd`.

## 5. Proofs

Each `*Proofs` module extends its component and proves `Spec => []Inv` by an inductive invariant, each of
whose parts TLC found to hold on small instances.  The assumptions are the named `ASSUME`s of the
modules, which TLC evaluates for the instances of the runs:

- sizes and ceilings are naturals, what is counted is finite, `None` is outside the sets it marks;
- a set of roots has distinct identifiers (`WorkspaceRootSet::new`);
- an address is four octets or eight segments (`AddressAssumption`), credentials have different names
  (`CredentialAssumption`: a name stands for a position in the configured list), and counts, delays and
  chunks are numbers (`HttpAssumption`);
- what GitHub lists first has no record twice, and the numbers asked for are on pages
  that a listing of its records can have (`ListingAssumption`);
- a collection of Jira has a record, records are numbered, and limits are numbers (`RecordAssumption`);
- a tree has its root, directories above what is in them, and rules that keep or not and are for
  directories only or not; a query has a scope and controls that are on or off (`TreeAssumption`);
- what a source answers with is finite, and requests and limits count in numbers (`SourceAssumption`);
- texts are sequences, a selector names lines from 1 on, and the body of a PUT has one row or more, none
  with a line break in it (`TextAssumption`; `HashlinePatch::parse` refuses a PUT without rows, and a row is a
  line of the patch);
- a profile's origins are records of their two fields (`LaunchAssumption`), and no kind of source
  without a probe can be mounted (`KindAssumption`, the registry's table).

Nothing is assumed of how long a list is, how many calls there are, or what the network says.

- `PathSessionProofs`.  `ObjectAccounting` and both ceilings are not inductive: a suspended `retain`
  has tested and computed, and writes its result when the storage answers.  `PendingCharged` and
  `PendingPlaced` say what it computed is still what the ledger says, and `ArtifactsStored` ties
  `disk` to the index.  They hold because no step moves the ledger while `admission` is taken; the
  proof shows that for each action.
- `MutationEngineProofs`.  `IInv` adds to the properties: calls past `acquire` hold their locks
  (`LocksHeld`), cancellation is masked from `begin_commit` (`CommitMasked`), which calls can be where
  (`Staged`), an effect stands before its answer (`EffectsPlaced`), and the journal agrees with what
  was posted (`JournalSound`, `AttemptsOwned`).  At-most-once creation follows for any number of
  calls and repeats.
  `EngineImplements` is the refinement of `MutationContract`: beside `IInv` it needs `WindowClean`, which
  says that what a call checked is still so when it writes, until another program gets in between;
  then every action of the engine is one of the contract's or none, and after the disturbance nothing is
  asked.
- `PathSessionProofs` has `SerialInv` besides: until something overlaps, what a reservation prepared
  is what `publish_seen` would compute (`ReservationsPrepared`), and so the absolute counter is exact.
  The step that needs work is that the ranges of a union of lines are no more than those of its parts
  (`RangesJoin`), whatever the lines.
- `ServicesProofs` has an invariant for each service; a step of one leaves the others' alone.
  *Locks*: `Agreement` (sharing a key means sharing the mutex) gives mutual exclusion and the
  refinement of `ExclusiveLocks`.  *Executor*: a permit is out exactly between admission and return, and
  what is left of a process group has its command's permit (`PermitsOut`, `TreesKept`).  *Log*:
  `GapsInv` counts every lost event once, as said, carried by the drain, silent or still in the counter
  (`Conserved`), and `Place` says where each file of the family begins in what was written, in the
  middle of a rotation too; from it `FamilyIsTail` follows for any number of files.
  *Cancellations*: an entry counts the calls in flight under its id (`Counted`), a channel belongs to one
  entry (`ChannelsOwned`, `SubscribedToEntry`), and who was flagged was meant (`FlaggedForAll`).
- `HttpProofs`.  The classes of `classify_v4` and `classify_v6` are proved to have the special-purpose
  blocks in them for every address, bare or inside an IPv6 one, by arithmetic.  `ConnectionAdmitted`
  and `HopsKept` carry what was authorized from the check to the connection, `AttemptsCounted`,
  `BudgetKept` and `Unsent` tie the ledger to the wire.  The credential of a URL is the first of the
  list that owns it; that there is a first comes from well-founded induction (`LeastOf`).
- `ReadsProofs`, currency.  `Shaped`, `Arrived` and `UsedCurrent` say of a read what it may have seen:
  no generation and no floor that is still to come, and, while the generation it captured is in
  force, nothing older than a confirmed mutation.  So what it stores is current, and what has become
  old in its hands is not stored.
- `ReadsProofs`, coverage.  `CoverageInv` follows a read through its pages: the kinds and keys it can be at
  (`Kinded`), the body in hand is that of a version or one that comes round again (`Given`), a
  listing has used up whole pages of the one version it read (`Portion`, `PagesListed`), a stop says
  where it is (`StopHonest`), and a byte budget that was spent on a page would do for it afresh
  (`Budgeted`, `PageFits`).  It speaks of every version a read may have met, since which it was is known
  only when all pages agree.  A roll-back takes the greatest number of pages that fits (`GreatestOf`).
  That no page beyond the last is asked for is a pigeonhole: a list has no record twice.
- `ReadsProofs`, Jira: selectors belong to a collection (`SelectorsOwned`), and a token in a read's hand
  to its site's origin, which a remount changes only between reads (`TokenAtHome`).  `RowsInv`: whatever
  upstream says, a read and a selector are only where a page may begin (`Located`, `EveryPagePaged`); a
  read has the rows from where it began to where it is and has been nowhere beyond (`Gapless`), and
  asks for no more than it may still have (`Exact`).  The step that needs work is `PageExact`: a page that is
  not refused is a slice of the collection, however odd.  Launch: an endpoint
  is touched at its stage and under its grant (`EndpointsGranted`, `TouchedGranted`), an outcome has its
  cause (`OutcomesCaused`), and what is mounted is whole (`MountedWhole`).
- `ReadsProofs`, discovery.  `DiscoveryInv` says that the document of a call, while it is stored and after, has all
  that the source answered (`WholeDocument`), and that the answer is cut from what was found, up to
  where its continuation goes on (`Cut`).  `Ranked` puts an element after as many as are before it;
  that this lists every element once and in order is `RankedLists`, by the injection of a finite set into its
  ranks.  So a document has the least record of every line (`DocumentsOrdered`).
- `WorkspaceProofs` has texts and walks; what it needs of numbers and orders is proved there again, so that
  neither module carries the other.
  *Pages*: `PagesInv` says that what was delivered is what comes before the place where the next page
  goes on, an offset, or a line where a line break comes before it.  `LineAfterBreak` finds the
  place that belongs to a line's number again.
  *Edits*: `EditsInv`, that the text has the rows expected of it, is inductive once it is known what one patch
  does (`PatchMakes`).  A text is *sealed* where a row may follow it as a line of its own, and *open* in the
  middle of a line; the rows of texts that are joined are those of the one and then the other where the
  first is sealed (`RowsJoined`).  `Reached` carries this through an edited text piece by piece: up to a
  hunk, its body, the lines between, and the rest (`LinesAdded`, `EditAdds`, `PiecesRows`); every way to put a
  separator into a body is one case of `BodyAdded`.  On the other side `RowsAfter` goes through the places
  before, at and after every row; what the places of a hunk and those between hunks come to
  (`HunkStep`, `Between`) is the same sequence of rows.  The orders of a patch enter only in `OrderIs`: an
  edit that ends where the other begins comes first.  What `EofClash` leaves out is used in `HunksApart` and
  `FineHunk`, and nowhere else.
  *Walk*: `WalkInv` relates a worker to the tree as it was when the query began.  What the filters
  remember of a directory is what git says of it (`Remembers`, `Ideal`), whichever way the walk came
  to it, and what is on the stack is a visible directory with the matchers it is due (`Agenda`).
  Completeness is `Owed`: for every prefix of a wanted path that was seen, the path is told of, or a
  longer prefix waits, on the stack or as a name of the directory at hand.  A link that was followed
  before puts a prefix among the seen and its directory on the stack in one step, which is why nothing
  is lost to the second visit that is skipped.  The walk tests a name first as if it were a file; where
  no rule keeps directories only, what is ignored as a file is ignored as a directory
  (`IgnoredAnyway`), and that is where the hypothesis of `WalkComplete` is needed: without it
  `ignored_directories` has the counterexample.
- Where the model recurses over a path or a list (`InitialFilter`, `FinalStates`, `Visible`, the joined
  lines of a page) the proofs need that the recursive function exists and what its values are.
  `Recursion` proves the first for every such function, and the least place where two of them would differ
  (`LeastOf`) the second; neither needs an induction rule.
- `SessionStoreProofs` splits the invariant into what leases, directory listings, creation,
  markers and a cleanup's choice imply for each other (`Leases`, `Listed`, `Made`, `Stamps`,
  `Chosen`, `OverdueKept`), for any number of servers and any retention.
- `RootAuthorityProofs` uses `Epochs` (who may still act for an epoch), `Handlers`, `AnswersFresh`
  (an answer on its way for the current epoch is not older than what is known), `Targets` and
  `Histories`.

| Theorem | States, for every value of the constants | Run |
| --- | --- | --- |
| `LedgerIsSound`, `Immutable` | `LedgerSound`, `ArtifactsImmutable` | `session` |
| `SerialLedgerExact`, `SerialLinesStay` | `SerialLedger`, `SerialLinesKept` | `session` |
| `Truthful`, `AtMostOnce`, `HoldingsKept`, `ClobbersNothing`, `OutcomesAreFinal` | `AnswersTruthful`, `CreatedAtMostOnce`, `HoldingsSound`, `NeverClobbers`, `OutcomesFinal` | `mutation_calls` |
| `EngineImplements` | `ImplementsContract` | `mutation_calls` |
| `LocksImplement` | `ImplementsLocks` | `services` |
| `TreesAccountedAlways`, `LogInOrderAlways`, `CancelledForCauseAlways` | `TreesAccounted`, `LogInOrder`, `CancelledForCause` | `services` |
| `SessionStorageKept` | `StorageKept` | `session_store` |
| `HoldsAuthority`, `ServesRootsInForce` | `AuthoritySound`, `ServedInForce` | `root_authority` |
| `ConnectsWhereGrantedAlways`, `CredentialsStayHomeAlways`, `LedgerCoversAlways`, `DocumentsWholeAlways`, `MutationsSentOnceAlways` | `ConnectsWhereGranted`, `CredentialsStayHome`, `LedgerCovers`, `DocumentsWhole`, `MutationsSentOnce` | `http` |
| `ServedCurrentAlways`, `CoverageHonestAlways` | `ServedCurrent`, `CoverageHonest` | `reads` |
| `TokensStayHomeAlways`, `RowsExactAlways` | `TokensStayHome`, `RowsExact` | `reads` |
| `NothingLostAlways`, `WalkExactAlways` | `NothingLost`, `WalkExact` | `reads` |
| `PagesLoseNothingAlways`, `EditsFaithfulAlways` | `PagesLoseNothing`, `EditsFaithful` | `reads` |
| `DocumentsOrdered` | a document has one record for each line, the best, in order | |
| `LaunchTouchesGrantedAlways`, `LaunchFollowsProbesAlways` | `LaunchTouchesGranted`, `LaunchFollowsProbes` | `reads` |

Two things the proof of `CoverageHonest` brought to light, both now in the model and in the property's
words: a listing of a diff that changes while it is read can name a file twice, since nothing looks for
a file that comes round again on a later page of another version; and a continuation for a spent
byte budget is good for a read with the same limits, not with smaller ones.  The proof of `RowsExact`
brought to light a third: what a read of Jira refuses is in the cache all the same (below, under Jira).
The instance of `reads` is too small for a read to be misled in this way; with pages of one record and
a third read in its bounds TLC finds one, and the theorem is about every number of reads.

Only model-checked:

- liveness (`ReservationsResolve`, `CallsAnswered`, `LocksGranted`, `StartsAndStops`, `CallsReturn`,
  `FetchesEnd`): TLAPS has no proofs about `ENABLED` and fairness here;
- `CoverageSound`: what was displayed of a page, and how it is carried over an edit, are computed by folds
  of the library over ranges and edits, and by its sort; what a fold computes for every sequence needs an
  induction over the sequence, and the library's induction theorems take an operator as a parameter,
  which the provers here cannot instantiate.  Its part `CoverageKept` tells lines apart by their
  characters, and so is meant for texts whose lines differ, as those of the run do.

## 6. Findings

1. *Snapshot accounting drifts* (`session_accounting_race`).  `reserve_seen` computes an absolute
   `next_snapshot_bytes`, `publish_seen` assigns it.  A read that records a snapshot in between is
   charged and then forgotten by the counter (or counted twice), so the session ceiling no longer
   covers what the session holds.  The same absolute update makes two related promises depend on
   serial use: the quota (in `SerialLedger`) and `SerialLinesKept` hold in `session` until calls
   overlap, and the bare properties do not hold after that: a read of the same version between the
   two steps loses the lines it displayed.
2. *A page is refused while the cache could yield* (`session_seen_refused`): `record_seen` and
   `reserve_seen` do not evict, though the comment on the cache says authoritative objects are never
   refused before it yields.
3. *Storage nobody collects* (`session_store_left`): a directory left without lease or marker, by a
   crash while it was being made or removed, survives every cleanup.
4. *Rows lost at an open end* (`hashlines_at_end`).  A body put at the end of a text without a final
   terminator stays unterminated itself, so a blank last row is no line at all: `PUT >$` with a
   lone `+` leaves an empty text empty, while the receipt says its line 1 was displayed.  Two
   related cases, which `EofClash` names and `EditsRowwise` leaves out: `CUT` of an open last line
   with `PUT >N` after it keeps the separator of the line that is gone, and `PUT >N` of the last
   line beside `PUT >$` is not recognised as one gap, so the (unstable) sort decides their order.
5. *Directories are matched as files* (`ignored_directories`).  `walk_workspace` asks the matchers
   about a name before it knows its kind, always as a file.  Under the rules `*`, `!*/`, `!x` every
   directory is dropped, and with it the `x` below it that the rules keep, without a diagnostic.
   `WalkComplete` is asked of trees without such a rule.

Observed and not stated as runs:

- session and roots: `debug_assert!(operation.finish_commit())` has a side effect that release builds
  drop; the removed roots a refresh reports are ignored (`server.rs` 495), so snapshots of removed
  roots are not invalidated as DESIGN.md item 5 says, and roots are derived again at the next call
  rather than at the notification; after an acquisition fails the authority stays disabled until the
  next notification; a refresh that finds the same URI keeps the old directory handle;
- storage: two cleanups over one directory can fail a start with "not found"; the retention that
  counts is that of the server that cleans up; a directory sync that fails after the rename deletes
  a scratch resource's previous content as well (`session_storage.rs` 405, against the comment at
  `session.rs` 1142);
- calls: requests that share an id share a cancellation;
- HTTPS: in reader mode and search the status is classified after the refusals for truncation, a
  type other than HTML and text that is not UTF-8 (`http/mod.rs` 1111 to 1132), so a 404 may answer
  "unsupported projection", against `.rfs-g2z9/spec.md:121`; a `:raw` read does not say that its
  body was cut; a degraded origin is refused for the first URL of an attempt and not for the hops of
  a redirect;
- processes: a reader whose task is joined by the race is joined again in the cleanup
  (`process/mod.rs` 512 and 803 to 811; `JoinTwice`), which panics, against `.rfs-r9m6/design.md:100`;
- log: at level `error` the report of dropped events is filtered like any warning, so the gap is silent
  (`logging.rs`, about 519);
- GitHub: a mutation whose outcome is unknown does not invalidate the cached reads; plain listings do
  not notice a page that comes round again when their page limit ends them, so a diff may list a row
  twice under two numbers (`CoverageHonest` asks the plain listings only while upstream is
  not at fault);
- Jira: `fetch_cached` puts a page into the cache before the read decodes and checks it
  (`jira/transport.rs` 267), so a page that one read refuses because it repeats a record that read has
  is revalidated and taken by another read that begins at the same position (`misled`);
- discovery: the trailer that names the source's continuation may push the retained document over
  `MAX_ARTIFACT_BYTES`;
- launch: the mounts run the credential helpers a second time, while the redactor knows only the
  values of the first (`.rfs-r9m6/plan.md:240`), and a second failure ends the launch even for an
  optional source (`launch.rs` 60 to 64, against `docs/operating.md:109`).

## 7. Not modelled

- Rendering, configuration adapters, fuzz targets and scripts: stateless conversions, layout and
  development tooling, with table-driven tests.
- Parsers and encodings: references and selectors, the hashline document, JSON, HTML, multi-byte
  characters, the decoding of records, field-by-field validation of a profile.  The models begin
  where the values are parsed.
- The platform below a step: path containment and permissions of one open, directory sync,
  TLS and DNS below the request, process creation, Windows job objects.
- The second scan of a file that detects a change while it is read; numbered rendering.
- GitHub search, the aggregate of a pull request's several collections and the checks of
  identities; rendering of Jira records.
- Scrubbing secrets from text and wiping memory; tool schemas and resource templates.
- Three hazards have no property yet: the failed sync (`session_storage.rs` 405), `scratch_load`
  outside the lock (`session.rs` 1084), and snapshots of removed roots (`server.rs` 495).
