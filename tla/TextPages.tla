------------------------------ MODULE TextPages ------------------------------
(***************************************************************************)
(* What a read shows of a text: the lines a selector names (selector.rs),  *)
(* the page that fits the limits (read.rs page_prefix_len), the lines of   *)
(* it that count as displayed (resource.rs displayed_prefix), and how the  *)
(* next page is reached through the retained artifact (read.rs,            *)
(* artifact.rs).                                                           *)
(*                                                                         *)
(* A text is a sequence of tokens: characters, and the line terminators    *)
(* "lf" and "crlf".  Positions are counted in tokens; only the byte limit  *)
(* of a page knows that "crlf" has two bytes.                              *)
(***************************************************************************)
EXTENDS Naturals, Sequences, FiniteSets, SequencesExt

Newlines == {"lf", "crlf"}

\* The bytes of a text.
Bytes(s) == Len(s) + Cardinality({i \in DOMAIN s : s[i] = "crlf"})

-----------------------------------------------------------------------------
(* Lines of a text. *)

Breaks(s) == {i \in DOMAIN s : s[i] \in Newlines}
Terminators(s) == Cardinality(Breaks(s))

EndsWithNewline(s) == s # <<>> /\ Last(s) \in Newlines

LineCount(s) ==
    Terminators(s) + (IF s # <<>> /\ ~EndsWithNewline(s) THEN 1 ELSE 0)

\* The tokens before line n; the line after the last one starts at the end.
LineOffset(s, n) ==
    LET starts == {0} \cup Breaks(s)
    IN  IF n > Cardinality(starts) THEN Len(s)
        ELSE CHOOSE i \in starts : Cardinality({j \in starts : j < i}) = n - 1

LineTokens(s, n) == SubSeq(s, LineOffset(s, n) + 1, LineOffset(s, n + 1))

\* The rows a client counts: each line without its terminator.
Rows(s) ==
    [n \in 1..LineCount(s) |->
        LET line == LineTokens(s, n)
        IN  IF EndsWithNewline(line) THEN Front(line) ELSE line]

-----------------------------------------------------------------------------
(* Selection.  A selector is a sequence of line ranges in the order of the *)
(* request, overlapping or not; ToEof as an end means through the last line.*)

ToEof == 0

SelectedSpan(s, range) ==
    LET last == IF range.end = ToEof \/ range.end > LineCount(s)
                THEN LineCount(s)
                ELSE range.end
    IN  [start |-> range.start, end |-> last,
         from |-> LineOffset(s, range.start), to |-> LineOffset(s, last + 1)]

\* A selector that starts past the end is refused.
Selectable(s, ranges) == \A k \in DOMAIN ranges : ranges[k].start <= LineCount(s)

\* The selected text with, for each range, where it went in the output.
Project(s, ranges) ==
    LET spans == [k \in DOMAIN ranges |-> SelectedSpan(s, ranges[k])]
        length == [k \in DOMAIN spans |-> spans[k].to - spans[k].from]
        end == [k \in DOMAIN spans |-> FoldSeq(+, 0, SubSeq(length, 1, k))]
    IN  [content |-> FlattenSeq([k \in DOMAIN spans |->
                         SubSeq(s, spans[k].from + 1, spans[k].to)]),
         spans |-> [k \in DOMAIN spans |->
             [output_start |-> end[k] - length[k], output_end |-> end[k],
              start_line |-> spans[k].start,
              reaches_eof |-> spans[k].end = LineCount(s)]],
         eof |-> s = <<>> \/ (spans # <<>> /\ Last(spans).end = LineCount(s))]

\* A read without a selector takes every line, as one range.
Whole(s) == IF s = <<>> THEN <<>> ELSE <<[start |-> 1, end |-> ToEof]>>

-----------------------------------------------------------------------------
(* Pages. *)

\* Token i does not fit: too many lines, bytes or columns with it.
Overflows(content, limits, i) ==
    LET before == SubSeq(content, 1, i - 1)
        bytes == i + Cardinality({j \in 1..i : content[j] = "crlf"})
        column == i - 1 - LineOffset(content, Terminators(before) + 1)
    IN  \/ (before = <<>> \/ EndsWithNewline(before))
           /\ Terminators(before) = limits.lines
        \/ bytes > limits.bytes
        \/ content[i] \notin Newlines /\ column = limits.columns

\* How much of the content the page takes: all before the first token that
\* does not fit.  Zero of a content that is not empty is a refusal.
PagePrefix(content, limits) ==
    LET over == {i \in DOMAIN content : Overflows(content, limits, i)}
    IN  IF over = {} THEN Len(content)
        ELSE (CHOOSE i \in over : \A j \in over : i <= j) - 1

Readable(content, prefix) == content = <<>> \/ prefix > 0

-----------------------------------------------------------------------------
(* Seen ranges: sequences of inclusive line ranges. *)

PushMerged(ranges, incoming) ==
    IF ranges # <<>> /\ Last(ranges).end + 1 = incoming.start
    THEN Append(Front(ranges), [Last(ranges) EXCEPT !.end = incoming.end])
    ELSE Append(ranges, incoming)

\* Union of two range lists: sorted by start, joined where they touch.
MergeSeen(existing, incoming) ==
    LET Absorb(ranges, r) ==
            IF ranges # <<>> /\ Last(ranges).end + 1 >= r.start
            THEN IF Last(ranges).end >= r.end
                 THEN ranges
                 ELSE Append(Front(ranges), [Last(ranges) EXCEPT !.end = r.end])
            ELSE Append(ranges, r)
    IN  FoldLeft(Absorb, <<>>,
                 SortSeq(existing \o incoming, LAMBDA a, b : a.start < b.start))

\* Mutant: the line a page ends in counts as displayed.
CompleteLinesCut(content, span, prefix) ==
    LET end == IF span.output_end < prefix THEN span.output_end ELSE prefix
        visible == SubSeq(content, span.output_start + 1, end)
    IN  LineCount(visible)

\* The complete lines of a span that a page of this length shows.
CompleteLines(content, span, prefix) ==
    LET end == IF span.output_end < prefix THEN span.output_end ELSE prefix
        visible == SubSeq(content, span.output_start + 1, end)
        closes == end = span.output_end /\ span.reaches_eof
    IN  Terminators(visible) +
        (IF visible # <<>> /\ closes /\ ~EndsWithNewline(visible) THEN 1 ELSE 0)

Displayed(projection, prefix) ==
    LET Show(ranges, span) ==
            LET lines == CompleteLines(projection.content, span, prefix)
            IN  IF lines = 0 THEN ranges
                ELSE PushMerged(ranges, [start |-> span.start_line,
                                         end |-> span.start_line + lines - 1])
    IN  [ranges |-> FoldLeft(Show, <<>>, projection.spans),
         eof |-> /\ projection.eof
                 /\ projection.spans # <<>> =>
                        prefix >= Last(projection.spans).output_end]

-----------------------------------------------------------------------------
(* Continuation of a page that did not hold everything: the rest of the     *)
(* retained artifact, named by its next line where the page ended a line,   *)
(* and by an offset where it did not.                                       *)

AtEnd == [kind |-> "end"]
AtLine(n) == [kind |-> "line", line |-> n]
AtOffset(i) == [kind |-> "page", offset |-> i]

\* Mutant: lines are counted from the top of the page, not of the artifact.
ContinuationInPage(content, offset, line, prefix) ==
    LET page == SubSeq(content, 1, prefix)
    IN  CASE prefix = Len(content) -> AtEnd
          [] prefix < Len(content) /\ EndsWithNewline(page) ->
                 AtLine(1 + Terminators(page))
          [] OTHER -> AtOffset(offset + prefix)

\* Continue after the page that begins at the given offset and line.
Continuation(content, offset, line, prefix) ==
    LET page == SubSeq(content, 1, prefix)
    IN  CASE prefix = Len(content) -> AtEnd
          [] prefix < Len(content) /\ EndsWithNewline(page) ->
                 AtLine(line + Terminators(page))
          [] OTHER -> AtOffset(offset + prefix)

\* What the artifact source selects for a continuation, and its origin.
Resume(artifact, continuation) ==
    LET offset == IF continuation.kind = "line"
                  THEN LineOffset(artifact, continuation.line)
                  ELSE continuation.offset
    IN  [content |-> SubSeq(artifact, offset + 1, Len(artifact)),
         offset |-> offset,
         line |-> Terminators(SubSeq(artifact, 1, offset)) + 1]
=============================================================================
