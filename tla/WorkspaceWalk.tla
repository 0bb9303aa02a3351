---------------------------- MODULE WorkspaceWalk ----------------------------
(***************************************************************************)
(* The workspace side of search and glob: filesystem.rs, search_workspace, *)
(* glob_workspace and walk_workspace.                                      *)
(*                                                                         *)
(* A tree maps paths to nodes.  A path is a sequence of names, and a walk  *)
(* opens what a path names NOW: a link leads to the path of its target,    *)
(* the FINAL path, under which everything is filtered, remembered and      *)
(* reported.  While a worker walks, the tree changes under it: links are   *)
(* switched and subtrees removed.  The matcher of a .gitignore is its list *)
(* of rules over names; the last rule that matches decides, in the nearest *)
(* directory that has one.  One step takes one directory from the stack or *)
(* one name from the directory at hand.                                    *)
(***************************************************************************)
EXTENDS Integers, Sequences, FiniteSets, SequencesExt, FiniteSetsExt

CONSTANTS
    Trees,          \* the trees a workspace may have at first
    Names,          \* the names of the trees, in byte order
    Hidden,         \* those that begin with a dot
    Queries,        \* the searches and globs that may be asked
    MaxEntries,     \* MAX_WORKSPACE_DISCOVERY_ENTRIES
    MaxRecords,     \* MAX_WORKSPACE_DISCOVERY_RECORDS
    MaxChanges      \* bound: changes of the tree

VARIABLES
    first,      \* the tree when the query began (history)
    tree,       \* the tree as it is
    changes,    \* changes so far
    query,      \* the query
    inForce,    \* the root is still the one of the active view
    live,       \* the operation has not been cancelled
    walk        \* the worker

walkVars == <<first, tree, changes, query, inForce, live, walk>>

-----------------------------------------------------------------------------
(* Opening *)

\* open_workspace_entry: what is under a path, by its final path.
Opened(path) ==
    LET node == tree[path]
        at == IF node.kind = "link" THEN node.target ELSE path
    IN IF path \notin DOMAIN tree THEN [kind |-> "not_found", at |-> path]
       ELSE IF node.kind = "escape" THEN [kind |-> "permission_denied", at |-> path]
       ELSE IF at \notin DOMAIN tree THEN [kind |-> "not_found", at |-> path]
       ELSE [kind |-> tree[at].kind, at |-> at]

IsOpen(entry) == entry.kind \in {"dir", "file"}

-----------------------------------------------------------------------------
(* Filters *)

Matches(rule, path, isDirectory) ==
    /\ rule.name \in {"*", Last(path)}
    /\ rule.directories => isDirectory

\* ignored_by_stack: the rule lists of the directories from the root down.
Ignored(stack, path, isDirectory) ==
    LET deciding(rules) == {j \in 1..Len(rules) : Matches(rules[j], path, isDirectory)}
        lists == {i \in 1..Len(stack) : deciding(stack[i]) # {}}
    IN /\ lists # {}
       /\ LET rules == stack[Max(lists)] IN ~rules[Max(deciding(rules))].keep

\* load_gitignore: a file that cannot be read or compiled leaves the stack of
\* the parent, with a diagnostic.
Loaded(t, directory, stack) ==
    IF directory \notin DOMAIN t THEN stack
    ELSE IF t[directory].readable /\ t[directory].rules # <<>>
    THEN Append(stack, t[directory].rules) ELSE stack

Unreadable(directories) ==
    {[at |-> d, why |-> "gitignore"] : d \in {d \in directories \cap DOMAIN tree : ~tree[d].readable}}

Filtered == [filtered |-> TRUE, stack |-> <<>>]
Ready(stack) == [filtered |-> FALSE, stack |-> stack]

Excluded(q, stack, path, isDirectory) ==
    \/ ~q.hidden /\ Last(path) \in Hidden
    \/ q.gitignore /\ Ignored(stack, path, isDirectory)

Entered(q, directory, stack) == IF q.gitignore THEN Loaded(tree, directory, stack) ELSE <<>>

Prefix(path, n) == SubSeq(path, 1, n)

\* initial_ignore_stack: along the path of the scope, which an exact search
\* target bypasses.
InitialFilter(q, entry) ==
    LET path == entry.at
        state[n \in 0..Len(path)] ==
            IF n = 0 THEN Ready(Entered(q, <<>>, <<>>))
            ELSE LET above == state[n - 1]
                     isDirectory == n < Len(path) \/ entry.kind = "dir"
                 IN IF above.filtered THEN above
                    ELSE IF q.kind = "glob" /\ Excluded(q, above.stack, Prefix(path, n), isDirectory)
                    THEN Filtered
                    ELSE IF isDirectory THEN Ready(Entered(q, Prefix(path, n), above.stack)) ELSE above
    IN state[Len(path)]

\* final_entry_ignore_stack: the directories on the final path of an entry,
\* from the cache where they are in it, and for a file its own name.
FinalStates(q, directory, cache) ==
    LET state[n \in 0..Len(directory)] ==
            LET here == Prefix(directory, n)
                above == state[n - 1]
            IN IF here \in DOMAIN cache THEN cache[here]
               ELSE IF above.filtered \/ Excluded(q, above.stack, here, TRUE) THEN Filtered
               ELSE Ready(Entered(q, here, above.stack))
    IN state

FinalFilter(q, entry, cache) ==
    LET directory == IF entry.kind = "dir" THEN entry.at ELSE Front(entry.at)
        states == FinalStates(q, directory, cache)
        last == states[Len(directory)]
        fresh == {Prefix(directory, n) : n \in 0..Len(directory)} \ DOMAIN cache
    IN [state |-> IF /\ ~last.filtered /\ entry.kind = "file"
                     /\ Excluded(q, last.stack, entry.at, FALSE)
                  THEN Filtered ELSE last,
        cache |-> [d \in DOMAIN cache \cup fresh |->
                      IF d \in fresh THEN states[Len(d)] ELSE cache[d]],
        loaded |-> IF q.gitignore THEN {d \in fresh : ~states[Len(d)].filtered} ELSE {}]

-----------------------------------------------------------------------------
(* Visits *)

\* The glob's matcher over the final path; its scope is the fixed prefix.
GlobMatches(q, path) == IF q.exact THEN path = q.scope
                        ELSE IsStrictPrefix(q.scope, path)

\* Where the query starts: a glob that ignores case has no fixed prefix.
Start(q) == IF q.kind = "glob" /\ ~q.fixed THEN <<>> ELSE q.scope

Hits(lines) == {i \in 1..Len(lines) : lines[i] = "hit"}

\* search_open_file: the hits, or the error, of one file, line by line; what it
\* charged before a line that is not UTF-8 stays charged.
Searched(node, spent) ==
    LET bad == {i \in DOMAIN node.lines : node.lines[i] = "binary"}
        hits == {i \in Hits(node.lines) : \A j \in bad : i < j}
        charged == spent + Cardinality(hits)
    IN [error |-> IF charged > MaxRecords THEN "exhausted"
                  ELSE IF bad # {} THEN "binary" ELSE "none",
        hits |-> hits, spent |-> charged]

Diagnosed(w, at, why) == [w EXCEPT !.diagnostics = @ \cup {[at |-> at, why |-> why]}]

Failed(w, why) == [w EXCEPT !.phase = "failed", !.why = why]

\* Mutant: a spent budget is one more diagnostic.
VisitOn(q, w, entry) ==
    LET file == Searched(tree[entry.at], w.spent) IN
    IF q.kind = "glob"
    THEN IF GlobMatches(q, entry.at) THEN [w EXCEPT !.found = @ \cup {entry.at}] ELSE w
    ELSE IF entry.kind = "dir" THEN w
    ELSE IF file.error # "none" THEN Diagnosed(w, entry.at, file.error)
    ELSE [w EXCEPT !.found = @ \cup {entry.at}, !.spent = file.spent,
                   !.records = @ \cup {<<entry.at, i>> : i \in file.hits}]

\* The visitors of search_workspace and glob_workspace: a file that cannot be
\* searched is a diagnostic, a spent budget the end.
Visit(q, w, entry) ==
    LET file == Searched(tree[entry.at], w.spent)
        charged == [w EXCEPT !.spent = file.spent]
    IN
    IF q.kind = "glob"
    THEN IF ~GlobMatches(q, entry.at) THEN w
         ELSE IF Cardinality(w.found) = MaxRecords THEN Failed(w, "limit_exceeded")
         ELSE [w EXCEPT !.found = @ \cup {entry.at}]
    ELSE IF entry.kind = "dir" THEN w
    ELSE CASE file.error = "exhausted" -> Failed(w, "limit_exceeded")
           [] file.error = "binary" -> Diagnosed(charged, entry.at, "binary")
           [] OTHER -> [charged EXCEPT !.found = @ \cup {entry.at},
                                       !.records = @ \cup {<<entry.at, i>> : i \in file.hits}]

-----------------------------------------------------------------------------
(* The worker *)

NoFrame == [path |-> <<>>, stack |-> <<>>, names |-> {}]

\* The names of a directory are taken in byte order.
Earliest(names) == Names[Min({i \in DOMAIN Names : Names[i] \in names})]

Worker(phase) ==
    [phase |-> phase, why |-> "none", base |-> <<>>, pending |-> <<>>, frame |-> NoFrame,
     seen |-> {}, cache |-> <<>>, found |-> {}, records |-> {}, spent |-> 0,
     diagnostics |-> {}, entries |-> 0]

WalkInit ==
    /\ tree \in Trees /\ first = tree /\ changes = 0
    /\ query \in Queries
    /\ inForce = TRUE /\ live = TRUE
    /\ walk = Worker("begin")

\* search_workspace and glob_workspace up to the walk.
Open ==
    LET entry == Opened(Start(query))
        filter == InitialFilter(query, entry)
        w == [walk EXCEPT !.base = entry.at, !.diagnostics =
                 IF query.gitignore /\ (query.kind = "glob" \/ entry.kind = "dir")
                 THEN Unreadable({Prefix(entry.at, n) : n \in 0..Len(entry.at)}) ELSE {}]
        root == Ready(Entered(query, <<>>, <<>>))
        visited == IF entry.kind = "dir" /\ (query.kind = "search" \/ entry.at = <<>>)
                   THEN w ELSE Visit(query, w, entry)
    IN
    /\ walk.phase = "begin" /\ live
    /\ walk' = IF ~IsOpen(entry)
               THEN IF query.kind = "glob" /\ entry.kind = "not_found"
                    THEN [walk EXCEPT !.phase = "walked"] ELSE Failed(walk, entry.kind)
               ELSE IF filter.filtered THEN [w EXCEPT !.phase = "walked"]
               ELSE IF visited.phase = "failed" THEN visited
               ELSE IF entry.kind = "file"
               THEN IF query.kind = "search" /\ visited.found = {}
                    THEN Failed(visited, "binary") ELSE [visited EXCEPT !.phase = "walked"]
               ELSE [visited EXCEPT !.phase = "pop", !.seen = {entry.at},
                        !.cache = [d \in {<<>>, entry.at} |-> IF d = entry.at THEN filter ELSE root],
                        !.pending = <<[path |-> entry.at, stack |-> filter.stack]>>]
    /\ UNCHANGED <<first, tree, changes, query, inForce, live>>

\* The next directory of the stack: it is opened again and its names listed.  The
\* first one is listed by the handle the walk was opened with, which comes to the
\* same: its path leads over no link, and a removed directory cannot be listed.
Pop ==
    LET frame == Last(walk.pending)
        entry == Opened(frame.path)
        names == {n \in Range(Names) : Append(entry.at, n) \in DOMAIN tree}
        w == [walk EXCEPT !.pending = Front(@)]
    IN
    /\ walk.phase = "pop" /\ live /\ walk.pending # <<>>
    /\ walk' = IF entry.kind = "file" THEN Diagnosed(w, entry.at, "source_unavailable")
               ELSE IF ~IsOpen(entry) THEN Diagnosed(w, frame.path, entry.kind)
               ELSE IF walk.entries + Cardinality(names) > MaxEntries THEN Failed(w, "limit_exceeded")
               ELSE [w EXCEPT !.phase = "names", !.entries = @ + Cardinality(names),
                        !.frame = [path |-> frame.path, stack |-> frame.stack, names |-> names]]
    /\ UNCHANGED <<first, tree, changes, query, inForce, live>>

\* An entry that passed the filters: visited once under its final path, and a
\* directory put on the stack.
Reached(w, entry, state) ==
    LET visited == Visit(query, [w EXCEPT !.seen = @ \cup {entry.at}], entry) IN
    IF entry.at \in w.seen THEN w
    ELSE IF entry.kind = "file" \/ visited.phase = "failed" THEN visited
    ELSE [visited EXCEPT !.pending = Append(@, [path |-> entry.at, stack |-> state.stack])]

\* The next name of the directory at hand.
Name ==
    LET name == Earliest(walk.frame.names)
        path == Append(walk.frame.path, name)
        stack == walk.frame.stack
        entry == Opened(path)
        isDirectory == entry.kind = "dir"
        filter == FinalFilter(query, entry, walk.cache)
        w == [walk EXCEPT !.frame.names = @ \ {name}]
        filtered == [w EXCEPT !.cache = filter.cache, !.diagnostics = @ \cup Unreadable(filter.loaded)]
    IN
    /\ walk.phase = "names" /\ live /\ walk.frame.names # {}
    /\ walk' = IF Excluded(query, stack, path, FALSE) THEN w
               ELSE IF ~IsOpen(entry) THEN Diagnosed(w, path, entry.kind)
               ELSE IF query.gitignore /\ Ignored(stack, path, isDirectory) THEN w
               ELSE IF filter.state.filtered THEN filtered
               ELSE Reached(filtered, entry, filter.state)
    /\ UNCHANGED <<first, tree, changes, query, inForce, live>>

NamesEnd ==
    /\ walk.phase = "names" /\ walk.frame.names = {}
    /\ walk' = [walk EXCEPT !.phase = "pop", !.frame = NoFrame]
    /\ UNCHANGED <<first, tree, changes, query, inForce, live>>

WalkEnds ==
    /\ walk.phase = "pop" /\ walk.pending = <<>> /\ live
    /\ walk' = [walk EXCEPT !.phase = "walked"]
    /\ UNCHANGED <<first, tree, changes, query, inForce, live>>

\* ensure_workspace_discovery_live, at every step of the worker.
Stopped ==
    /\ walk.phase \in {"begin", "pop", "names", "walked"} /\ ~live
    /\ walk' = Failed(walk, "cancelled")
    /\ UNCHANGED <<first, tree, changes, query, inForce, live>>

\* FilesystemSource::search and glob after the worker: the view must still have
\* the root (validate_read_delivery).
DeliverWalk ==
    /\ walk.phase = "walked" /\ live
    /\ walk' = IF inForce THEN [walk EXCEPT !.phase = "delivered"]
               ELSE Failed(walk, "source_unavailable")
    /\ UNCHANGED <<first, tree, changes, query, inForce, live>>

-----------------------------------------------------------------------------
(* What happens around the worker *)

CancelWalk ==
    /\ live /\ walk.phase \notin {"delivered", "failed"}
    /\ live' = FALSE
    /\ UNCHANGED <<first, tree, changes, query, inForce, walk>>

\* A refresh of the client's roots drops or replaces the root.
Replace ==
    /\ inForce /\ walk.phase = "walked"
    /\ inForce' = FALSE
    /\ UNCHANGED <<first, tree, changes, query, live, walk>>

\* A link is switched to another target, or a subtree is removed.
Change ==
    /\ changes < MaxChanges /\ walk.phase \notin {"delivered", "failed"}
    /\ changes' = changes + 1
    /\ \/ \E link \in {p \in DOMAIN tree : tree[p].kind = "link"},
             target \in {p \in DOMAIN tree : tree[p].kind \in {"dir", "file"}} :
             tree' = [tree EXCEPT ![link].target = target]
       \/ \E gone \in DOMAIN tree \ {<<>>} :
             tree' = [p \in {p \in DOMAIN tree : ~IsPrefix(gone, p)} |-> tree[p]]
    /\ UNCHANGED <<first, query, inForce, live, walk>>

WalkNext == Open \/ Pop \/ Name \/ NamesEnd \/ WalkEnds \/ Stopped \/ DeliverWalk
            \/ CancelWalk \/ Replace \/ Change

WalkSpec == WalkInit /\ [][WalkNext]_walkVars

-----------------------------------------------------------------------------
(* Correctness *)

\* What git says of a path of a tree, below where an exact search target really
\* is: no directory on the way, and not the path itself, is hidden or ignored by
\* the .gitignore files above it.
Visible(t, q, base, path) ==
    LET stack[n \in 0..Len(path)] ==
            IF n = 0 THEN Loaded(t, <<>>, <<>>) ELSE Loaded(t, Prefix(path, n), stack[n - 1])
        exempt == IF q.kind = "search" /\ IsPrefix(base, path) THEN Len(base) ELSE 0
    IN \A n \in exempt + 1..Len(path) :
          /\ q.hidden \/ path[n] \notin Hidden
          /\ q.gitignore =>
                ~Ignored(stack[n - 1], Prefix(path, n), n < Len(path) \/ t[path].kind = "dir")

\* The entries a query asks for.
Asked(q, t, base, path) ==
    /\ path # <<>>
    /\ IF q.kind = "glob" THEN t[path].kind \in {"dir", "file"} /\ GlobMatches(q, path)
       ELSE t[path].kind = "file" /\ IsPrefix(base, path)

\* Links show nothing that is not visible where it really is: whatever route a
\* walk took, and however links were switched meanwhile, an entry it found is a
\* file or directory of the workspace that the filters admit under its final
\* path (walk_workspace, final_entry_ignore_stack).
WalkSound ==
    \A path \in walk.found :
        /\ path \in DOMAIN first /\ first[path].kind \in {"dir", "file"}
        /\ Visible(first, query, walk.base, path)

KeepsNoDirectories(t) ==
    \A d \in DOMAIN t : \A rule \in Range(t[d].rules) : ~(rule.keep /\ rule.directories)

\* A file's matching lines, or why there are none.
Reported(path) ==
    \/ path \in walk.found /\ (query.kind = "search" =>
          {<<path, i>> : i \in Hits(first[path].lines)} \subseteq walk.records)
    \/ [at |-> path, why |-> "binary"] \in walk.diagnostics

\* The entries that are asked for and that the filters admit.
Expected(path) ==
    Asked(query, tree, walk.base, path) /\ Visible(first, query, walk.base, path)

\* What an answer leaves out, it says it leaves out: unless the query failed as
\* a whole, every entry that was asked for, is visible and was there all the
\* time was found, whatever was cached, seen by another route, switched or
\* removed meanwhile, and a file's matching lines are all reported or the file
\* has a diagnostic of its own.  A spent budget never shortens an answer.
WalkComplete ==
    walk.phase = "delivered" /\ KeepsNoDirectories(first) =>
        \A path \in DOMAIN tree : Expected(path) => Reported(path)

\* The filters agree with git for negations too: a directory that a rule such
\* as "!*/" keeps is walked (.rfs-vl0u/evidence.md, P3).
KeptDirectoriesWalked ==
    walk.phase = "delivered" => \A path \in DOMAIN tree : Expected(path) => Reported(path)
=============================================================================
