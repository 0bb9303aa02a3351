-------------------------------- MODULE Reads --------------------------------
(***************************************************************************)
(* Six parts that share no state: the collections of GitHub, the mounts of  *)
(* Jira, the walk of a workspace, the documents of searches and globs, the  *)
(* pages of a text and the patches made from them, and the launch that      *)
(* mounts the sources.  A behaviour is one of them; the variables of the    *)
(* others are Absent.                                                       *)
(***************************************************************************)
EXTENDS Integers, Sequences, FiniteSets

CONSTANTS
    Parts,          \* the parts a behaviour may be
    \* GithubReads
    Readers, Mutators, PageSize, First, Fresh, Heavy, Numbers, Limits, MaxRecords, MaxPages,
    Unrepresentable, MaxVersions, MaxFaults, MaxReads,
    \* JiraReads
    JiraReaders, Sites, Origins, Targets, Order, Native, JiraRecords, Attempts,
    NoCursor, MaxEditions, JiraFaults, JiraReadings,
    \* WorkspaceWalk
    Names, Hidden, Queries, Trees, MaxChanges, MaxEntries, WalkRecords,
    \* Discovery
    Calls, Requests, Upstreams, ServerLimits, MaxResults, MaxDocument, Quota,
    \* Hashlines
    Texts, Selectors, PageLimits, Bodies, MaxTextBytes, MaxHunks,
    \* Startup
    Profiles, Kinds, Networked, Unprobed, Answers, Values, MaxSources

VARIABLES focus,
    versions, faults, cache, generation, settled, reader, mutator,
    mount, edition, pages, read, selectors, failures, reads,
    first, tree, changes, query, inForce, live, walk,
    call, cancelled, open, artifacts,
    text, snapshots, page, hunks, learned, expected, atEofClash,
    command, profile, environment, stage, at, known, helped, outcome, endpoint, dialled, mounted

githubVars == <<versions, faults, cache, generation, settled, reader, mutator>>
jiraVars == <<mount, edition, pages, read, selectors, failures, reads>>
walkVars == <<first, tree, changes, query, inForce, live, walk>>
discoveryVars == <<call, cancelled, open, artifacts>>
pageVars == <<text, snapshots, page, hunks, learned, expected, atEofClash>>
launchVars == <<command, profile, environment, stage, at, known, helped, outcome, endpoint,
                dialled, mounted>>
vars == <<focus, githubVars, jiraVars, walkVars, discoveryVars, pageVars, launchVars>>

-----------------------------------------------------------------------------
(* The parts *)

Github == INSTANCE GithubReads

Jira == INSTANCE JiraReads
    WITH Readers <- JiraReaders, MaxRecords <- JiraRecords, Unrepresentable <- NoCursor,
         MaxFaults <- JiraFaults, MaxReads <- JiraReadings,
         cache <- pages, faults <- failures

Walk == INSTANCE WorkspaceWalk WITH MaxRecords <- WalkRecords

Engine == INSTANCE Discovery WITH Sources <- Upstreams

Pages == INSTANCE Hashlines WITH Limits <- PageLimits, known <- learned

Launch == INSTANCE Startup

\* A listing names a record once, the limits are numbers (facts.rs, Limits),
\* and the files asked for are on pages that a listing can have.
ASSUME ListingAssumption ==
    /\ First \in Seq(Github!Range(First)) /\ Github!IsInjective(First)
    /\ Fresh \in Seq(Github!Range(Fresh))
    /\ PageSize \in Nat \ {0} /\ MaxPages \in Nat \ {0}
    /\ Numbers \subseteq 1..(Github!LastKey * PageSize)
    /\ Limits \subseteq [attempts : Nat, bytes : Nat, length : Nat]

\* A collection of Jira has records, and its limits are numbers (jira.rs,
\* BrowseLimits).
ASSUME RecordAssumption ==
    Order \in Seq(Nat) /\ Order # <<>> /\ Native \in Nat /\ JiraRecords \in Nat

\* What the paths of a workspace name: directories are above what is in them, and
\* a rule keeps or not, and is for directories only or not (filesystem.rs,
\* open_workspace_entry, load_gitignore; a query's scope and controls,
\* DiscoveryControls).
ASSUME TreeAssumption ==
    LET Path == Seq(Walk!Range(Names))
    IN  /\ Names \in Path
        /\ \A t \in Trees :
              /\ DOMAIN t \subseteq Path /\ <<>> \in DOMAIN t /\ t[<<>>].kind = "dir"
              /\ \A p \in DOMAIN t :
                    /\ t[p] \in [kind : {"dir", "file", "link", "escape"}, target : Path,
                                 readable : BOOLEAN, lines : Seq(STRING),
                                 rules : Seq([name : STRING, keep : BOOLEAN, directories : BOOLEAN])]
                    /\ p # <<>> => /\ Walk!Front(p) \in DOMAIN t
                                   /\ t[Walk!Front(p)].kind = "dir"
        /\ \A q \in Queries :
              /\ q.kind \in {"search", "glob"} /\ q.scope \in Path
              /\ q.exact \in BOOLEAN /\ q.fixed \in BOOLEAN
              /\ q.hidden \in BOOLEAN /\ q.gitignore \in BOOLEAN

\* What a source answers is finite, and a request and the limits count in
\* numbers (discovery.rs, SearchRequest, GlobTarget, validate_result_limit).
ASSUME SourceAssumption ==
    /\ Upstreams \subseteq [records : SUBSET Engine!Record, diagnostics : SUBSET Engine!Notice,
                            next : BOOLEAN]
    /\ \A s \in Upstreams : IsFiniteSet(s.records) /\ IsFiniteSet(s.diagnostics)
    /\ \A r \in Requests : r.skip \in Nat /\ r.results \in Nat
    /\ ServerLimits.results \in Nat /\ MaxResults \in Nat

\* Texts are sequences, a selector names lines from 1 on (selector.rs, LineRange),
\* and the body of PUT has rows, each a line of the patch without its terminator
\* (mutation.rs, HashlinePatch::parse).
ASSUME TextAssumption ==
    /\ \A s \in Texts : s \in Seq(Pages!ToSet(s))
    /\ \A ranges \in Selectors :
          /\ ranges \in Seq(Pages!ToSet(ranges))
          /\ Pages!ToSet(ranges) \subseteq [start : Nat \ {0}, end : Nat]
    /\ \A body \in Bodies :
          /\ body \in Seq(Pages!ToSet(body)) /\ body # <<>>
          /\ \A row \in Pages!ToSet(body) :
                /\ row \in Seq(Pages!ToSet(row))
                /\ Pages!ToSet(row) \cap Pages!Newlines = {}

\* What a profile holds (profile/model.rs, StaticSource) and what a name
\* resolves to (probe.rs, connect_policed).
ASSUME LaunchAssumption ==
    /\ \A p \in Profiles :
          /\ Len(p.sources) \in Nat
          /\ \A i \in 1..Len(p.sources) : \A o \in 1..Len(p.sources[i].origins) :
                p.sources[i].origins[o] \in
                    [private : BOOLEAN, secret : {"none", "environment", "helper"}]
    /\ Answers \subseteq Seq(Launch!Address)

\* Every kind of source that is compiled in has a probe (launch.rs,
\* COMPILED_PROFILE_SOURCE_KINDS; profile/check.rs, probe_target).
ASSUME KindAssumption == \A kind \in Unprobed : ~Launch!Mountable(kind)

-----------------------------------------------------------------------------
(* One of them *)

Absent == "absent"
NoGithub ==
    /\ versions = Absent /\ faults = Absent /\ cache = Absent /\ generation = Absent
    /\ settled = Absent /\ reader = Absent /\ mutator = Absent
NoJira ==
    /\ mount = Absent /\ edition = Absent /\ pages = Absent /\ read = Absent
    /\ selectors = Absent /\ failures = Absent /\ reads = Absent
NoWalk ==
    /\ first = Absent /\ tree = Absent /\ changes = Absent /\ query = Absent
    /\ inForce = Absent /\ live = Absent /\ walk = Absent
NoEngine ==
    /\ call = Absent /\ cancelled = Absent /\ open = Absent /\ artifacts = Absent
NoPages ==
    /\ text = Absent /\ snapshots = Absent /\ page = Absent /\ hunks = Absent
    /\ learned = Absent /\ expected = Absent /\ atEofClash = Absent
NoLaunch ==
    /\ command = Absent /\ profile = Absent /\ environment = Absent /\ stage = Absent
    /\ at = Absent /\ known = Absent /\ helped = Absent /\ outcome = Absent
    /\ endpoint = Absent /\ dialled = Absent /\ mounted = Absent

Init ==
    /\ focus \in Parts
    /\ IF focus = "github"    THEN Github!Init          ELSE NoGithub
    /\ IF focus = "jira"      THEN Jira!JiraInit        ELSE NoJira
    /\ IF focus = "walk"      THEN Walk!WalkInit        ELSE NoWalk
    /\ IF focus = "discovery" THEN Engine!DiscoveryInit ELSE NoEngine
    /\ IF focus = "pages"     THEN Pages!Init           ELSE NoPages
    /\ IF focus = "launch"    THEN Launch!LaunchInit    ELSE NoLaunch

Next ==
    \/ /\ focus = "github" /\ Github!Next
       /\ UNCHANGED <<focus, jiraVars, walkVars, discoveryVars, pageVars, launchVars>>
    \/ /\ focus = "jira" /\ Jira!JiraNext
       /\ UNCHANGED <<focus, githubVars, walkVars, discoveryVars, pageVars, launchVars>>
    \/ /\ focus = "walk" /\ Walk!WalkNext
       /\ UNCHANGED <<focus, githubVars, jiraVars, discoveryVars, pageVars, launchVars>>
    \/ /\ focus = "discovery" /\ Engine!DiscoveryNext
       /\ UNCHANGED <<focus, githubVars, jiraVars, walkVars, pageVars, launchVars>>
    \/ /\ focus = "pages" /\ Pages!Next
       /\ UNCHANGED <<focus, githubVars, jiraVars, walkVars, discoveryVars, launchVars>>
    \/ /\ focus = "launch" /\ Launch!LaunchNext
       /\ UNCHANGED <<focus, githubVars, jiraVars, walkVars, discoveryVars, pageVars>>

Spec == Init /\ [][Next]_vars

(***************************************************************************)
(* The properties the six modules state.                                  *)
(***************************************************************************)
\* What a read is served, and what the cache holds, is as new as the newest
\* change that was confirmed before (github/fetch.rs; core/session.rs,
\* cache_put_if_generation), and as upstream last confirmed it
\* (jira/transport.rs).
ServedCurrent ==
    /\ focus = "github" => Github!ServedCurrent /\ Github!CacheCurrent
    /\ focus = "jira" => Jira!PagesCurrent

\* What a collection says of its own coverage is so, whatever budget stopped it,
\* and its continuation can be asked for (github/facts/collection.rs).
CoverageHonest ==
    focus = "github" =>
        Github!CoverageHonest /\ Github!NumbersOpenRows /\ Github!ResumesFit

\* A Continuation Token is sent to the origin it came from
\* (atlassian/jira/cursor.rs).
TokensStayHome == focus = "jira" => Jira!TokensStayHome

\* The pages of a collection name every record once (jira/browse.rs, query.rs).
RowsExact == focus = "jira" => Jira!RowsExact

\* A walk reports only what its filters admit, and all of it unless it says
\* that something was left out (filesystem.rs, walk_workspace).
WalkExact == focus = "walk" => Walk!WalkSound /\ Walk!WalkComplete

\* A directory that only a directory rule keeps is walked (filesystem.rs,
\* ignored_by_stack).
KeptDirectoriesWalked == focus = "walk" => Walk!KeptDirectoriesWalked

\* What an answer leaves out is in the document it names, and a source that has
\* more is said to have more (discovery.rs, retain_omitted).
NothingLost == focus = "discovery" => Engine!NothingLost /\ Engine!SourceContinues

\* The lines a caller may edit are those it was shown or wrote, all of them and
\* no other (resource.rs, displayed_prefix; session.rs, merge_seen; mutation.rs,
\* remap_seen).
CoverageSound ==
    focus = "pages" => Pages!TypeOK /\ Pages!CoverageJustified /\ Pages!CoverageKept

\* A patch does to the rows what its hunks say, in whatever order they are
\* listed (mutation.rs, apply_patch and build_body), and brings in no terminator the text did not
\* use.
EditsFaithful ==
    /\ [](focus = "pages" => Pages!EditsRowwise)
    /\ [][focus = "pages" => Pages!TerminatorsLocal]_vars

\* Blank rows at the end of a text are written like others.
RowsAsAuthored == focus = "pages" => Pages!RowsAsAuthored

\* Following the continuations of a page shows all of it, once (read.rs).
PagesLoseNothing == focus = "pages" => Pages!PagesLoseNothing

\* A launch connects and runs helpers only as far as it was granted
\* (profile/check.rs, probe_targets; probe.rs, connect_policed).
LaunchTouchesGranted == focus = "launch" => Launch!LaunchTouchesGranted

\* What is served is what the probes found (launch.rs, from_checked_profile).
LaunchFollowsProbes == focus = "launch" => Launch!LaunchFollowsProbes
=============================================================================
