------------------------------ MODULE Discovery ------------------------------
(***************************************************************************)
(* The discovery engine: core/discovery.rs.  A search or glob asks its     *)
(* source, brings the records and diagnostics into one order, cuts a page, *)
(* and retains the whole document in the session when the page does not    *)
(* show all of it.  The call waits for the source and for the session;     *)
(* its caller may cancel it and the session may close meanwhile.           *)
(*                                                                         *)
(* A record is [ref, line, text], ordered by ref, line and text.  A text   *)
(* is as good as the numbers it is told by: it has `columns` characters,   *)
(* of which `breaks` are line breaks, tabs or backslashes.  A line of the  *)
(* document is the record or the diagnostic it shows.                      *)
(***************************************************************************)
EXTENDS Integers, Sequences, FiniteSets, FiniteSetsExt, Functions

CONSTANTS
    Calls,          \* the calls
    Requests,       \* [kind, pattern, skip, results, bytes, lines, columns]
    Sources,        \* what a source may answer: [records, diagnostics, next]
    ServerLimits,   \* search_matches / glob_entries and text_limits
    MaxResults,     \* MAX_DISCOVERY_RESULTS
    MaxDocument,    \* MAX_ARTIFACT_BYTES
    Quota           \* artifacts the session has room for

VARIABLES
    call,           \* the calls
    cancelled,      \* the calls whose operation was cancelled
    open,           \* the session is active
    artifacts       \* the documents the session retains, in the order of their ids

discoveryVars == <<call, cancelled, open, artifacts>>

Text == [columns : Nat, breaks : Nat]
Record == [ref : Nat, line : Nat, text : Text]
Notice == [ref : Nat, text : Text]

NoSource == [records |-> {}, diagnostics |-> {}, next |-> FALSE]
NoAnswer == [records |-> <<>>, diagnostics |-> <<>>, total |-> 0, recovery |-> 0, line |-> 0,
             next |-> FALSE, after |-> FALSE]

Unasked == [pc |-> "new", request |-> CHOOSE r \in Requests : TRUE, source |-> NoSource,
          answer |-> NoAnswer, document |-> <<>>, why |-> "none"]

DiscoveryInit ==
    /\ call = [c \in Calls |-> Unasked] /\ cancelled = {} /\ open = TRUE /\ artifacts = <<>>

-----------------------------------------------------------------------------
(* The document *)

\* The elements of S, each after those that R puts before it.
Ranked(S, R) ==
    [n \in 1..Cardinality(S) |-> CHOOSE a \in S : Cardinality({b \in S : <<b, a>> \in R}) = n - 1]

\* Texts as the numbers that tell them apart.
Smaller(s, t) ==
    \/ s.columns < t.columns
    \/ s.columns = t.columns /\ s.breaks < t.breaks

Before(a, b) ==
    \/ a.ref < b.ref
    \/ a.ref = b.ref /\ a.line < b.line
    \/ a.ref = b.ref /\ a.line = b.line /\ Smaller(a.text, b.text)

Least(records) ==
    {a \in records : \A b \in records : a.ref = b.ref /\ a.line = b.line => ~Before(b, a)}

\* normalize_search_records, normalize_glob_entries: one record for a line of a
\* resource, the least of them, and all in order.
Normalized(records) ==
    LET kept == Least(records) IN Ranked(kept, {p \in kept \X kept : Before(p[1], p[2])})

\* compare_diagnostics, normalize_diagnostics.
Warned(d, e) ==
    \/ d.ref < e.ref
    \/ d.ref = e.ref /\ Smaller(d.text, e.text)
Ordered(diagnostics) ==
    Ranked(diagnostics, {p \in diagnostics \X diagnostics : Warned(p[1], p[2])})

\* One line of the document: what it shows, its bytes and its columns; an
\* escaped character takes two.
Escaped(text) == text.columns + text.breaks
RecordLine(record) == [kind |-> "record", of |-> record, columns |-> Escaped(record.text)]
DiagnosticLine(d) == [kind |-> "diagnostic", of |-> d, columns |-> Escaped(d.text)]
Trailer == [kind |-> "trailer", columns |-> 1]

\* render_search_document, render_glob_document.
Lines(records, diagnostics) ==
    [i \in 1..Len(records) |-> RecordLine(records[i])]
    \o [i \in 1..Len(diagnostics) |-> DiagnosticLine(diagnostics[i])]

Bytes(lines) == MapThenSumSet(LAMBDA i : lines[i].columns + 1, DOMAIN lines)

-----------------------------------------------------------------------------
(* The page *)

Lower(a, b) == IF a < b THEN a ELSE b

\* SearchLimits::lowered_by, GlobLimits::lowered_by.
LimitsOf(request) ==
    [results |-> Lower(request.results, ServerLimits.results),
     bytes |-> Lower(request.bytes, ServerLimits.bytes),
     lines |-> Lower(request.lines, ServerLimits.lines),
     columns |-> Lower(request.columns, ServerLimits.columns)]

\* append_search_item, for a run of lines: it fits whole, and every line of it.
Fit(lines, limits) ==
    /\ Bytes(lines) <= limits.bytes /\ Len(lines) <= limits.lines
    /\ \A i \in 1..Len(lines) : lines[i].columns <= limits.columns

\* The most lines from `from` on that may be shown, at most `most`.
Run(document, from, most, limits, shown) ==
    Max({0} \cup {n \in 1..most : Fit(shown \o SubSeq(document, from + 1, from + n), limits)})

\* select_search_page: from skip on what fits, and the diagnostics after the
\* last record.  select_glob_page knows no limit but the results.
Page(request, records, diagnostics, document) ==
    LET limits == LimitsOf(request)
        start == Lower(request.skip, Len(records))
        most == Lower(Len(records) - start, limits.results)
        end == start + (IF request.kind = "glob" THEN most ELSE Run(document, start, most, limits, <<>>))
        shown == SubSeq(document, start + 1, end)
        said == IF end < Len(records) THEN 0
                ELSE IF request.kind = "glob" THEN Len(diagnostics)
                ELSE Run(document, Len(records), Len(diagnostics), limits, shown)
    IN [records |-> SubSeq(records, start + 1, end), diagnostics |-> SubSeq(diagnostics, 1, said),
        total |-> Len(records),
        omitted |-> start > 0 \/ end < Len(records) \/ said < Len(diagnostics),
        \* artifact_line_continuation: the line of the first record not shown
        line |-> IF end < Len(records) THEN end + 1 ELSE 0]

\* Mutant: the continuation is the last line that was shown.
ContinuedShort(page) == IF page.line > 1 THEN page.line - 1 ELSE page.line

\* retain_omitted: the line at which the artifact goes on.
Continued(page) == page.line

-----------------------------------------------------------------------------
(* A call *)

Move(c, r) == call' = [call EXCEPT ![c] = r]
Fail(c, why) == Move(c, [call[c] EXCEPT !.pc = "failed", !.why = why])

\* ensure_discovery_live.
Alive(c) == IF c \in cancelled THEN "cancelled" ELSE IF ~open THEN "source_unavailable" ELSE "none"

\* SearchRequest::new, GlobTarget::new, validate_result_limit.
Refusal(request) ==
    CASE request.pattern = "empty" -> "invalid_pattern"
      [] request.pattern = "long" \/ request.results \notin 1..MaxResults -> "limit_exceeded"
      [] request.pattern = "catalog" -> "unsupported_projection"
      [] OTHER -> "none"

Ask(c, request) ==
    /\ call[c].pc = "new"
    /\ IF Refusal(request) # "none" THEN Fail(c, Refusal(request))
       ELSE IF Alive(c) # "none" THEN Fail(c, Alive(c))
       ELSE Move(c, [call[c] EXCEPT !.pc = "asked", !.request = request])
    /\ UNCHANGED <<cancelled, open, artifacts>>

\* The source has answered: the document is made and the page cut.
Select(c, source) ==
    LET r == call[c]
        records == Normalized(source.records)
        diagnostics == Ordered(source.diagnostics)
        document == Lines(records, diagnostics)
        next == source.next /\ r.request.kind = "search"
        page == Page(r.request, records, diagnostics, document)
        answer == [NoAnswer EXCEPT !.records = page.records, !.diagnostics = page.diagnostics,
                                   !.total = page.total]
    IN
    /\ r.pc = "asked"
    /\ IF Alive(c) # "none" THEN Fail(c, Alive(c))
       ELSE IF Bytes(document) > MaxDocument THEN Fail(c, "limit_exceeded")
       ELSE Move(c, [r EXCEPT !.source = [source EXCEPT !.next = next],
                !.pc = IF page.omitted THEN "retain" ELSE "answered",
                !.document = IF next THEN Append(document, Trailer) ELSE document,
                !.answer = IF page.omitted THEN [answer EXCEPT !.line = Continued(page)]
                           ELSE [answer EXCEPT !.next = next]])
    /\ UNCHANGED <<cancelled, open, artifacts>>

\* The source fails.
SourceFails(c) ==
    /\ call[c].pc = "asked"
    /\ Fail(c, "source_unavailable")
    /\ UNCHANGED <<cancelled, open, artifacts>>

\* retain_omitted, up to the session.
BeginRetain(c) ==
    /\ call[c].pc = "retain"
    /\ IF Alive(c) # "none" THEN Fail(c, Alive(c)) ELSE Move(c, [call[c] EXCEPT !.pc = "store"])
    /\ UNCHANGED <<cancelled, open, artifacts>>

\* One continuation progresses the answer: the artifact's when the page left
\* records out, and then the source's is named beside it.
Named(answer, next) ==
    [answer EXCEPT !.next = next /\ answer.line = 0, !.after = next /\ answer.line # 0]

\* PathSession::retain: the same text is the same artifact.
Retain(c) ==
    LET r == call[c]
        known == {i \in 1..Len(artifacts) : artifacts[i] = r.document}
        id == IF known = {} THEN Len(artifacts) + 1 ELSE Min(known)
    IN
    /\ r.pc = "store"
    /\ IF Alive(c) # "none" THEN Fail(c, Alive(c)) /\ UNCHANGED artifacts
       ELSE IF \/ Bytes(r.document) > MaxDocument
               \/ known = {} /\ Len(artifacts) = Quota
       THEN Fail(c, "limit_exceeded") /\ UNCHANGED artifacts
       ELSE /\ artifacts' = IF known = {} THEN Append(artifacts, r.document) ELSE artifacts
            /\ Move(c, [r EXCEPT !.pc = "answered",
                           !.answer = [Named(r.answer, r.source.next) EXCEPT !.recovery = id]])
    /\ UNCHANGED <<cancelled, open>>

Cancel(c) ==
    /\ c \notin cancelled
    /\ cancelled' = cancelled \cup {c}
    /\ UNCHANGED <<call, open, artifacts>>

Close ==
    /\ open
    /\ open' = FALSE
    /\ UNCHANGED <<call, cancelled, artifacts>>

DiscoveryNext ==
    \/ \E c \in Calls, request \in Requests : Ask(c, request)
    \/ \E c \in Calls, source \in Sources : Select(c, source)
    \/ \E c \in Calls : SourceFails(c)
    \/ \E c \in Calls : BeginRetain(c)
    \/ \E c \in Calls : Retain(c)
    \/ \E c \in Calls : Cancel(c)
    \/ Close

DiscoverySpec == DiscoveryInit /\ [][DiscoveryNext]_discoveryVars

-----------------------------------------------------------------------------
(* Correctness *)

Answered(c) == call[c].pc = "answered"

\* What the lines of one kind show, in their order.
Of(lines, kind) ==
    LET at == {i \in 1..Len(lines) : lines[i].kind = kind}
        row == Ranked(at, {p \in at \X at : p[1] < p[2]})
    IN [n \in 1..Cardinality(at) |-> lines[row[n]].of]

\* A page and what it refers to are the whole result: a page that leaves
\* something out names an artifact, the artifact read from the line of the
\* continuation has exactly the records after the page, and read from its
\* start all records and diagnostics of the source, each once (discovery.rs,
\* select_search_page, retain_omitted).
NothingLost ==
    \A c \in Calls : Answered(c) =>
        LET a == call[c].answer
            records == Normalized(call[c].source.records)
            diagnostics == Ordered(call[c].source.diagnostics)
            skipped == Lower(call[c].request.skip, Len(records))
        IN IF a.recovery = 0 THEN a.records = records /\ a.diagnostics = diagnostics
           ELSE LET kept == artifacts[a.recovery] IN
                /\ Of(kept, "record") = records /\ Of(kept, "diagnostic") = diagnostics
                /\ SubSeq(records, 1, skipped) \o a.records
                   \o (IF a.line = 0 THEN <<>> ELSE Of(SubSeq(kept, a.line, Len(kept)), "record"))
                   = records

\* A source with further pages is never a dead end: the answer names the
\* source's next page, as its continuation or beside the artifact's, and where
\* the artifact's goes first, the artifact ends with it (ADR-0006).
SourceContinues ==
    \A c \in Calls : Answered(c) /\ call[c].source.next =>
        /\ call[c].answer.next \/ call[c].answer.after
        /\ call[c].answer.recovery # 0 =>
              LET lines == artifacts[call[c].answer.recovery] IN lines[Len(lines)] = Trailer
=============================================================================
