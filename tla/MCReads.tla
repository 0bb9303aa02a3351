------------------------------- MODULE MCReads -------------------------------
(* Small instances of the six parts of Reads. *)
EXTENDS Reads, TLC

CONSTANTS x, y              \* the reads of Jira

-----------------------------------------------------------------------------
(* The trees and the queries of the walk *)

WalkNode(kind) ==
    [kind |-> kind, target |-> <<>>, readable |-> TRUE, rules |-> <<>>, lines |-> <<>>]
Dir(rules) == [WalkNode("dir") EXCEPT !.rules = rules]
File(lines) == [WalkNode("file") EXCEPT !.lines = lines]
Link(target) == [WalkNode("link") EXCEPT !.target = target]
Rule(name, keep, directories) == [name |-> name, keep |-> keep, directories |-> directories]

\* Links to hidden and ignored entries and a cycle; the nested file of rules
\* keeps what the outer one ignores.
Linked ==
    (<<>> :> Dir(<<Rule("x", FALSE, FALSE), Rule("b", FALSE, TRUE)>>)) @@
    (<<".h">> :> Dir(<<>>)) @@ (<<".h", "f">> :> File(<<"hit">>)) @@
    (<<"a">> :> Dir(<<Rule("x", TRUE, FALSE)>>)) @@ (<<"a", "x">> :> File(<<"hit", "miss", "hit">>)) @@
    (<<"a", "l">> :> Link(<<>>)) @@ (<<"k">> :> Link(<<"x">>)) @@
    (<<"l">> :> Link(<<".h">>)) @@ (<<"x">> :> File(<<"hit">>))

\* Rules that cannot be read, a file that is not text, a link that leaves the
\* workspace, more lines than may be reported.
Broken ==
    (<<>> :> [Dir(<<Rule("x", FALSE, FALSE)>>) EXCEPT !.readable = FALSE]) @@
    (<<"a">> :> Dir(<<Rule("*", FALSE, FALSE), Rule("x", TRUE, FALSE)>>)) @@
    (<<"a", "x">> :> File(<<"hit", "hit", "hit">>)) @@ (<<"a", "f">> :> File(<<"hit">>)) @@
    (<<"b">> :> File(<<"hit", "binary">>)) @@ (<<"e">> :> WalkNode("escape")) @@
    (<<"x">> :> File(<<"hit">>))

\* Everything is ignored but directories and x.
Inverted ==
    (<<>> :> Dir(<<Rule("*", FALSE, FALSE), Rule("*", TRUE, TRUE), Rule("x", TRUE, FALSE)>>)) @@
    (<<"a">> :> Dir(<<>>)) @@ (<<"a", "x">> :> File(<<"hit">>)) @@ (<<"a", "b">> :> File(<<"hit">>))

MCTrees == {Linked, Broken}
MCInverted == {Inverted}

Search(scope) == [kind |-> "search", scope |-> scope, exact |-> FALSE, fixed |-> TRUE]
Glob(scope, exact, fixed) == [kind |-> "glob", scope |-> scope, exact |-> exact, fixed |-> fixed]

MCQueries ==
    {[kind |-> q.kind, scope |-> q.scope, exact |-> q.exact, fixed |-> q.fixed,
      hidden |-> hidden, gitignore |-> gitignore] :
        q \in {Search(<<>>), Search(<<"a">>), Search(<<".h">>), Search(<<"l">>), Search(<<"x">>),
               Search(<<"b">>),
               Glob(<<>>, FALSE, TRUE), Glob(<<"a">>, FALSE, TRUE), Glob(<<"a">>, FALSE, FALSE),
               Glob(<<"a", "x">>, TRUE, TRUE), Glob(<<"l">>, TRUE, TRUE)},
        hidden \in BOOLEAN, gitignore \in BOOLEAN}

-----------------------------------------------------------------------------
(* The sources and the requests of searches and globs *)

Text(columns, breaks) == [columns |-> columns, breaks |-> breaks]
Hit(ref, line, words) == [ref |-> ref, line |-> line, text |-> words]
Notice(ref, words) == [ref |-> ref, text |-> words]
Source(records, diagnostics, next) == [records |-> records, diagnostics |-> diagnostics, next |-> next]

\* A line seen twice, a line break inside a text, a long line, what does not
\* fit the session, a source that has more pages.
Hits == {Hit(1, 1, Text(2, 1)), Hit(1, 1, Text(3, 0)), Hit(1, 4, Text(1, 0)),
         Hit(2, 2, Text(2, 0)), Hit(3, 1, Text(7, 0))}
MCSources ==
    {Source(Hits, {Notice(1, Text(1, 1)), Notice(2, Text(2, 0))}, TRUE),
     Source(Hits, {}, FALSE), Source({}, {Notice(2, Text(2, 0))}, TRUE),
     Source({Hit(1, 1, Text(2, 1)), Hit(2, 2, Text(2, 0))}, {}, TRUE),
     Source({Hit(r, 1, Text(7, 0)) : r \in 1..4}, {}, TRUE)}

Request(kind, pattern, skip, results, bytes, lines) ==
    [kind |-> kind, pattern |-> pattern, skip |-> skip, results |-> results, bytes |-> bytes,
     lines |-> lines, columns |-> 6]
MCRequests ==
    {Request("search", "plain", span[1], span[2], 40, 9) :
        span \in {<<0, 5>>, <<0, 3>>, <<1, 1>>, <<1, 3>>, <<9, 5>>}}
    \cup {Request("glob", "plain", span[1], span[2], 40, 9) : span \in {<<0, 1>>, <<1, 5>>, <<0, 6>>}}
    \cup {Request("search", "plain", 0, 5, 11, 9), Request("search", "plain", 0, 5, 40, 2)}
    \cup {Request("search", pattern, 0, 5, 40, 9) : pattern \in {"empty", "long", "catalog"}}
    \cup {Request("search", "plain", 0, 0, 40, 9)}

-----------------------------------------------------------------------------
(* The texts, the selectors and the patches of a text resource *)

\* Terminated, with a line of two characters; blank in the middle and open at
\* the end; mixed and open; empty.
SomeTexts ==
    {<<"a", "lf", "b", "B", "lf">>,
     <<"a", "lf", "lf", "c">>,
     <<"a", "crlf", "b", "lf", "c">>,
     <<>>}

Lines(from, to) == [start |-> from, end |-> to]

\* One line, a tail (to 0, the end), two ranges out of order, two that overlap.
SomeSelectors ==
    {<<Lines(1, 1)>>, <<Lines(2, 0)>>,
     <<Lines(3, 3), Lines(1, 1)>>, <<Lines(1, 2), Lines(2, 9)>>}

SomeLimits ==
    {[bytes |-> 99, lines |-> 99, columns |-> 99],
     [bytes |-> 3, lines |-> 99, columns |-> 99],
     [bytes |-> 99, lines |-> 1, columns |-> 99],
     [bytes |-> 99, lines |-> 99, columns |-> 1]}

\* A row, a blank row, a row and a blank row.
SomeBodies == {<< <<"x">> >>, << <<>> >>, << <<"x">>, <<>> >>}

-----------------------------------------------------------------------------
(* The profiles of the launch *)

Origin(private, secret) == [private |-> private, secret |-> secret]
Configured(id, kind, required, origins) ==
    [id |-> id, kind |-> kind, required |-> required, origins |-> origins]
Profile(sources) == [valid |-> TRUE, sources |-> sources]

\* Sources of both kinds, optional and not; a kind that is not mounted; a kind
\* that is not probed; a profile that is not valid.
MCProfiles ==
    {Profile(<<Configured("a", "github", required, <<Origin(FALSE, "helper")>>),
               Configured("b", "https", ~required,
                          <<Origin(FALSE, "none"), Origin(TRUE, "helper")>>)>>) : required \in BOOLEAN}
    \cup {Profile(<<Configured("a", "https", FALSE, <<Origin(FALSE, "environment")>>),
                    Configured("b", kind, FALSE, origins)>>) :
             <<kind, origins>> \in {<<"documents", <<Origin(FALSE, "helper")>>>>, <<"ssh", <<Origin(FALSE, "helper")>>>>,
                                   <<"https", <<Origin(FALSE, "none")>>>>,
                                   <<"github", <<Origin(FALSE, "environment")>>>>}}
    \cup {[Profile(<<>>) EXCEPT !.valid = FALSE]}

Address(private, up) == [private |-> private, up |-> up]
MCAnswers ==
    {<<>>, <<Address(FALSE, TRUE)>>, <<Address(TRUE, TRUE)>>,
     <<Address(FALSE, FALSE), Address(TRUE, TRUE)>>, <<Address(FALSE, FALSE), Address(FALSE, TRUE)>>}

-----------------------------------------------------------------------------
(* The reads of GitHub and of Jira *)

Limit(attempts, bytes, length) == [attempts |-> attempts, bytes |-> bytes, length |-> length]
MCFirst == <<"a", "b", "c", "d", "e", "f">>
MCFresh == <<"g">>
MCLimits == {Limit(5, 5, 9), Limit(3, 20, 5)}

Target(site, kind, parent) == [site |-> site, kind |-> kind, parent |-> parent]
MCTargets == {Target("s", "issue", FALSE), Target("s", "alias", FALSE),
              Target("s", "projects", FALSE), Target("s", "issues", TRUE),
              Target("s", "query", FALSE)}
MCOrder == <<2, 1, 3>>
MCSymmetry == Permutations({x, y})

-----------------------------------------------------------------------------
(* What the other parts are given *)

MCNames == <<".h", "a", "b", "e", "f", "k", "l", "x">>
MCServerLimits == [results |-> 4, bytes |-> 20, lines |-> 5, columns |-> 6]
MCKinds == <<"https", "github">>
=============================================================================
