------------------------------ MODULE Hashlines ------------------------------
(***************************************************************************)
(* One text resource, read in pages and edited by hashline patches         *)
(* (mutation.rs): which patches are accepted, what they make of the text,  *)
(* and which lines of the result the caller may edit without reading       *)
(* again.  A patch names lines of the version it was written against; all  *)
(* its hunks apply to that version at once.                                *)
(*                                                                         *)
(* A hunk is a record: kind "replace" (PUT N.=M), "cut" (CUT N.=M),        *)
(* "before" (PUT <N), "after" (PUT >N) or "tail" (PUT >$), the lines start *)
(* and end, and the body, a sequence of rows.                              *)
(***************************************************************************)
EXTENDS TextPages

CONSTANTS
    Texts,        \* the texts the resource may start as
    Selectors,    \* the line selectors a client uses
    Limits,       \* the page limits a client uses
    Bodies,       \* the bodies of PUT
    MaxTextBytes, \* MAX_ARTIFACT_BYTES
    MaxHunks      \* bound: hunks applied, over all patches

VARIABLES
    text,      \* what the resource holds
    snapshots, \* version -> the ranges and the end of text a caller was shown
    page,      \* the page shown last: its artifact, what was delivered, what is next
    hunks,     \* hunks applied so far
    known,     \* history: characters of lines shown in full or authored
    expected,  \* history: the rows a row-wise interpreter would have made
    atEofClash \* history: a patch met one of the cases of EofClash

vars == <<text, snapshots, page, hunks, known, expected, atEofClash>>

Characters(row) == ToSet(row) \ Newlines

Unseen == [ranges |-> <<>>, eof |-> FALSE]

Snapshot(version) ==
    IF version \in DOMAIN snapshots THEN snapshots[version] ELSE Unseen

\* Record what was shown of a version, joined with what was shown before.
Record(version, ranges, eof) ==
    snapshots' = [v \in DOMAIN snapshots \cup {version} |->
        IF v = version
        THEN [ranges |-> MergeSeen(Snapshot(v).ranges, ranges),
              eof |-> Snapshot(v).eof \/ eof]
        ELSE snapshots[v]]

-----------------------------------------------------------------------------
(* The text a patch is applied to. *)

Style(line) == IF EndsWithNewline(line) THEN {Last(line)} ELSE {}

\* The last terminator of a text; of a text without one, that of line feeds.
LastStyle(s) ==
    IF Terminators(s) = 0 THEN "lf" ELSE s[SelectLastInSeq(s, LAMBDA t : t \in Newlines)]

LineStyle(s, n) ==
    IF Style(LineTokens(s, n)) = {} THEN LastStyle(s) ELSE Last(LineTokens(s, n))

\* Rows put before line n are terminated like the line before it.
AdjacentStyle(s, n) == LineStyle(s, IF n > 1 THEN n - 1 ELSE n)

\* Mutant: no terminator between an open last line and what is put after it.
BuildBodyFused(body, style, leading, terminate) ==
    LET row(k) == IF k < Len(body) \/ terminate THEN Append(body[k], style) ELSE body[k]
    IN  FlattenSeq([k \in DOMAIN body |-> row(k)])

BuildBody(body, style, leading, terminate) ==
    LET row(k) == IF k < Len(body) \/ terminate THEN Append(body[k], style) ELSE body[k]
    IN  (IF leading THEN <<style>> ELSE <<>>)
        \o FlattenSeq([k \in DOMAIN body |-> row(k)])

-----------------------------------------------------------------------------
(* Which patches are refused. *)

Ranged == {"replace", "cut"}

\* The gap between lines that an insertion names; the tail is a gap of its own.
TailGap == "tail"
Gap(h) == CASE h.kind = "before" -> h.start - 1
            [] h.kind = "after" -> h.start
            [] h.kind = "tail" -> TailGap

Conflict(g, h) ==
    \/ g.kind \in Ranged /\ h.kind \in Ranged /\ g.start <= h.end /\ h.start <= g.end
    \/ {g.kind, h.kind} = {"tail"}
    \/ /\ {g.kind, h.kind} \subseteq {"before", "after"}
       /\ Gap(g) = Gap(h)

Conflicting(patch) == \E i, j \in DOMAIN patch : i # j /\ Conflict(patch[i], patch[j])

RangeSeen(snapshot, first, last) ==
    \E k \in DOMAIN snapshot.ranges :
        snapshot.ranges[k].start <= first /\ last <= snapshot.ranges[k].end

\* Only lines that exist and were shown, and a tail that was shown, are named.
Shown(s, snapshot, h) ==
    IF h.kind = "tail"
    THEN snapshot.eof
    ELSE h.end <= LineCount(s) /\ RangeSeen(snapshot, h.start, h.end)

-----------------------------------------------------------------------------
(* What a patch does. *)

ByteEdit(s, h) ==
    LET n == LineCount(s)
        open == s # <<>> /\ ~EndsWithNewline(s)
        gap == IF h.kind = "before" THEN h.start
               ELSE IF h.kind = "after" THEN h.start + 1 ELSE n + 1
        replacement ==
            CASE h.kind = "replace" ->
                     BuildBody(h.body, LineStyle(s, h.start), FALSE,
                               h.end < n \/ EndsWithNewline(s))
              [] h.kind = "cut" -> <<>>
              [] h.kind = "before" ->
                     BuildBody(h.body, AdjacentStyle(s, h.start), FALSE, TRUE)
              [] h.kind = "after" ->
                     LET atEnd == h.start = n /\ ~EndsWithNewline(s)
                     IN  BuildBody(h.body, LineStyle(s, h.start), atEnd, ~atEnd)
              [] h.kind = "tail" ->
                     BuildBody(h.body, LastStyle(s), open, EndsWithNewline(s))
        first == IF h.kind \in Ranged THEN h.start ELSE gap
        after == IF h.kind \in Ranged THEN h.end + 1 ELSE gap
    IN  [start_line |-> first, end_line |-> after,
         from |-> LineOffset(s, first), to |-> LineOffset(s, after),
         replacement |-> replacement, rows |-> Len(h.body)]

\* Edits are applied by their first line, insertions before a range that starts
\* there.  The sort is unstable: edits with equal keys come in either order.
Precedes(e, f) ==
    \/ e.start_line < f.start_line
    \/ /\ e.start_line = f.start_line
       /\ \/ e.end_line = e.start_line /\ f.end_line # f.start_line
          \/ /\ (e.end_line = e.start_line) = (f.end_line = f.start_line)
             /\ e.end_line <= f.end_line

Orders(edits) ==
    {[k \in DOMAIN edits |-> edits[order[k]]] :
        order \in {p \in [DOMAIN edits -> DOMAIN edits] :
            /\ \A j, k \in DOMAIN edits : p[j] = p[k] => j = k
            /\ \A j, k \in DOMAIN edits : j < k => Precedes(edits[p[j]], edits[p[k]])}}

\* No edit starts inside the one before it.
Disjoint(edits) ==
    \A k \in DOMAIN edits : k > 1 =>
        /\ edits[k - 1].to <= edits[k].from
        /\ edits[k - 1].end_line <= edits[k].start_line

Apply(s, edits) ==
    LET done(k) == IF k = 0 THEN 0 ELSE edits[k].to
    IN  FlattenSeq([k \in DOMAIN edits |->
            SubSeq(s, done(k - 1) + 1, edits[k].from) \o edits[k].replacement])
        \o SubSeq(s, done(Len(edits)) + 1, Len(s))

-----------------------------------------------------------------------------
(* Which lines of the result were shown before, or authored. *)

\* The seen part of the lines from .. until - 1, which now begin at line to.
AppendShifted(output, seen, from, until, to) ==
    LET Shift(ranges, r) ==
            LET first == IF r.start > from THEN r.start ELSE from
                last == IF r.end < until - 1 THEN r.end ELSE until - 1
            IN  IF first > last THEN ranges
                ELSE PushMerged(ranges, [start |-> to + (first - from),
                                         end |-> to + (last - from)])
    IN  FoldLeft(Shift, output, seen)

RemapSeen(seen, total, edits) ==
    LET Step(st, e) ==
            LET kept == AppendShifted(st.output, seen, st.original, e.start_line, st.cursor)
                cursor == st.cursor + (e.start_line - st.original)
            IN  [output |-> IF e.rows = 0 THEN kept
                            ELSE PushMerged(kept, [start |-> cursor,
                                                   end |-> cursor + e.rows - 1]),
                 original |-> e.end_line,
                 cursor |-> cursor + e.rows]
        end == FoldLeft(Step, [output |-> <<>>, original |-> 1, cursor |-> 1], edits)
    IN  AppendShifted(end.output, seen, end.original, total + 1, end.cursor)

RemapEof(eof, total, edits) ==
    eof \/ \E k \in DOMAIN edits : edits[k].end_line = total + 1

-----------------------------------------------------------------------------
(* The reference: rows instead of bytes, and no positions to carry along.  *)

RowsAfter(rows, patch) ==
    LET n == Len(rows)
        gap(h) == IF h.kind = "tail" THEN n ELSE Gap(h)
        inserted(i) == FlattenSeq([k \in DOMAIN patch |->
            IF patch[k].kind \notin Ranged /\ gap(patch[k]) = i - 1
            THEN patch[k].body ELSE <<>>])
        ranged(i) == {k \in DOMAIN patch :
            patch[k].kind \in Ranged /\ i \in patch[k].start .. patch[k].end}
        kept(i) == IF i > n THEN <<>>
                   ELSE IF ranged(i) = {} THEN <<rows[i]>>
                   ELSE LET h == patch[CHOOSE k \in ranged(i) : TRUE]
                        IN  IF i = h.start THEN h.body ELSE <<>>
    IN  FlattenSeq([i \in 1 .. n + 1 |-> inserted(i) \o kept(i)])

\* Where bytes and rows part: two insertions at the end of the text (after its
\* last line and at its tail are not recognised as one gap); and in a text that
\* does not end with a terminator, an insertion after a last line that is cut,
\* and a blank row at the very end.
EofClash(s, patch) ==
    LET n == LineCount(s)
        appends == {k \in DOMAIN patch : \/ patch[k].kind = "tail"
                                         \/ patch[k].kind = "after" /\ patch[k].start = n}
        last == {k \in DOMAIN patch : patch[k].kind \in Ranged /\ patch[k].end = n}
    IN  \/ Cardinality(appends) > 1
        \/ /\ ~EndsWithNewline(s)
           /\ \/ appends # {} /\ \E k \in last : patch[k].kind = "cut"
              \/ \E k \in appends \cup last :
                     patch[k].body # <<>> /\ Last(patch[k].body) = <<>>

-----------------------------------------------------------------------------

NoPage == [artifact |-> <<>>, delivered |-> <<>>, next |-> AtEnd]

Init ==
    /\ text \in Texts
    /\ snapshots = <<>>
    /\ page = NoPage
    /\ hunks = 0
    /\ known = {}
    /\ expected = Rows(text)
    /\ atEofClash = FALSE

\* The lines of the text whose last token is on the page, however it got there.
LinesOnPage(projection, ranges, prefix) ==
    LET Ended(span, before) ==
            {n \in span.start .. span.end :
                before + (LineOffset(text, n + 1) - span.from) <= prefix}
    IN  UNION {Ended(SelectedSpan(text, ranges[k]), projection.spans[k].output_start) :
                 k \in DOMAIN ranges}

\* ReadEngine::read of the resource: a page, the rest of it retained.  Bound: the
\* client reads only while patches may follow (hunks < MaxHunks).
Read(ranges, limits) ==
    /\ hunks < MaxHunks
    /\ Selectable(text, ranges)
    /\ \E projection \in {Project(text, ranges)} :
       \E prefix \in {PagePrefix(projection.content, limits)} :
       \E shown \in {Displayed(projection, prefix)} :
        /\ Readable(projection.content, prefix)
        /\ IF prefix = Len(projection.content) \/ shown.ranges # <<>> \/ shown.eof
           THEN Record(text, shown.ranges, shown.eof)
           ELSE UNCHANGED snapshots
        /\ page' = [artifact |-> projection.content,
                    delivered |-> SubSeq(projection.content, 1, prefix),
                    next |-> Continuation(projection.content, 0, 1, prefix)]
        /\ known' = known \cup UNION {Characters(LineTokens(text, n)) :
                                        n \in LinesOnPage(projection, ranges, prefix)}
        /\ UNCHANGED <<text, hunks, expected, atEofClash>>

\* ReadEngine::read of the continuation reference: pages of the artifact never
\* count as lines of the resource.
Follow(limits) ==
    /\ page.next # AtEnd
    /\ \E rest \in {Resume(page.artifact, page.next)} :
       \E prefix \in {PagePrefix(rest.content, limits)} :
        /\ Readable(rest.content, prefix)
        /\ page' = [page EXCEPT
               !.delivered = @ \o SubSeq(rest.content, 1, prefix),
               !.next = Continuation(rest.content, rest.offset, rest.line, prefix)]
        /\ UNCHANGED <<text, snapshots, hunks, known, expected, atEofClash>>

\* Bounds: the client follows a page to its end before it edits, and applies
\* MaxHunks hunks in all.
MayEdit(size) ==
    /\ page.next = AtEnd
    /\ hunks + size <= MaxHunks
    /\ text \in DOMAIN snapshots

\* MutationEngine::edit of a patch for the current version, each hunk of which
\* is Allowed.
Edit(patch) ==
    LET snapshot == Snapshot(text)
        total == LineCount(text)
    IN  /\ ~Conflicting(patch)
        /\ \E edits \in Orders([k \in DOMAIN patch |-> ByteEdit(text, patch[k])]) :
             \E result \in {Apply(text, edits)} :
               /\ Disjoint(edits)
               /\ Bytes(result) <= MaxTextBytes
               /\ text' = result
               /\ Record(result, RemapSeen(snapshot.ranges, total, edits),
                         RemapEof(snapshot.eof, total, edits))
        /\ hunks' = hunks + Len(patch)
        /\ known' = known \cup UNION {UNION {Characters(row) : row \in ToSet(patch[k].body)} :
                                        k \in DOMAIN patch}
        /\ expected' = RowsAfter(expected, patch)
        /\ atEofClash' = (atEofClash \/ EofClash(text, patch))
        /\ page' = NoPage

Hunk ==
    LET lines == 1 .. LineCount(text)
    IN  [kind : {"replace"}, start : lines, end : lines, body : Bodies]
        \cup [kind : {"cut"}, start : lines, end : lines, body : {<<>>}]
        \cup (UNION {[kind : {"before", "after"}, start : {n}, end : {n}, body : Bodies] :
                       n \in lines})
        \cup [kind : {"tail"}, start : {0}, end : {0}, body : Bodies]

\* The hunks that name lines of the text in order, all of them shown.
Allowed == {h \in Hunk : h.start <= h.end /\ Shown(text, Snapshot(text), h)}

Next ==
    \/ \E ranges \in Selectors \cup {Whole(text)}, limits \in Limits : Read(ranges, limits)
    \/ \E limits \in Limits : Follow(limits)
    \/ MayEdit(1) /\ \E h \in Allowed : Edit(<<h>>)
    \/ MayEdit(2) /\ \E g, h \in Allowed : Edit(<<g, h>>)

Spec == Init /\ [][Next]_vars

-----------------------------------------------------------------------------
(* Properties. *)

\* Seen ranges ascend and never touch: touching ranges would refuse a hunk that
\* spans them although all its lines were shown.
TypeOK ==
    /\ text \in Seq((UNION {ToSet(s) : s \in Texts}) \cup Newlines \cup known)
    /\ page.next.kind \in {"end", "line", "page"}
    /\ hunks \in 0 .. MaxHunks
    /\ atEofClash \in BOOLEAN
    /\ \A v \in DOMAIN snapshots :
         /\ snapshots[v].eof \in BOOLEAN
         /\ LET ranges == snapshots[v].ranges
            IN  \A k \in DOMAIN ranges :
                  /\ 1 <= ranges[k].start /\ ranges[k].start <= ranges[k].end
                  /\ k > 1 => ranges[k - 1].end + 1 < ranges[k].start

\* No line becomes editable that was neither shown in full nor written by the
\* caller: not by a page that ends inside it, not by a remap (design C1, C7).
CoverageJustified ==
    \A v \in DOMAIN snapshots : \A n \in 1 .. LineCount(v) :
        RangeSeen(snapshots[v], n, n) => Characters(LineTokens(v, n)) \subseteq known

\* And none is lost: lines that were shown or written can be edited together,
\* after any edits, without reading again.
CoverageKept ==
    ~atEofClash =>
      \A first, last \in 1 .. LineCount(text) :
        (first <= last /\ \A n \in first .. last :
            LET row == Characters(LineTokens(text, n)) IN row # {} /\ row \subseteq known)
        => RangeSeen(Snapshot(text), first, last)

\* An accepted patch does to the rows what each of its hunks says of the
\* original rows, in whatever order the hunks are listed: offsets, separators
\* and the sort never fuse, drop, misplace or repeat a row.
EditsRowwise == ~atEofClash => Rows(text) = expected

\* The same, at the end of the text as well.
RowsAsAuthored == Rows(text) = expected

\* An edit brings no terminator into a text that its text did not use, and line
\* feeds into a text that had none.
TerminatorsLocal ==
    LET used(s) == ToSet(s) \cap Newlines
    IN  text' # text => used(text') \subseteq IF used(text) = {} THEN {"lf"} ELSE used(text)

\* Following continuations delivers the artifact in order, each token once, and
\* stops at its end and not before, whatever limits each page is read with.
PagesLoseNothing ==
    /\ IsPrefix(page.delivered, page.artifact)
    /\ page.next = AtEnd <=> page.delivered = page.artifact
=============================================================================
