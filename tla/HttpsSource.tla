---------------------------- MODULE HttpsSource ----------------------------
(***************************************************************************)
(* Reads of https:// Resources over the substrate: https.rs and            *)
(* fetch_reader_mode of http/mod.rs.  One unbudgeted fetch, then the       *)
(* rendering of its response, raw or as reader-mode Markdown; a search     *)
(* renders as reader mode does.                                            *)
(***************************************************************************)
EXTENDS HttpSubstrate

VARIABLE document   \* how the read was answered, and of what response

Unanswered == [answer |-> "none", raw |-> FALSE, of |-> NoResponse]

httpsVars == <<vars, document>>

\* classify_status.
StatusRefusal(status) ==
    CASE status = "ok"     -> "none"
      [] status = "denied" -> "permission_denied"
      [] status = "gone"   -> "not_found"
      [] OTHER             -> "source_unavailable"

\* reader_mode_source: HTML in UTF-8 is rendered, anything else refused.
SourceRefusal(html, utf8) == IF html /\ utf8 THEN "none" ELSE "unsupported_projection"

Refusals(tests) ==
    LET failed == {i \in 1..Len(tests) : tests[i] # "none"}
    IN IF failed = {} THEN "document"
       ELSE tests[CHOOSE i \in failed : \A j \in failed : i <= j]

\* Mutant: a document that was cut off is rendered as far as it goes.
RenderedTruncated(r, html, utf8) ==
    Refusals(<<SourceRefusal(html, utf8), StatusRefusal(r.status)>>)

\* fetch_reader_mode, then classify_status: the first test that fails answers.
Rendered(r, html, utf8) ==
    Refusals(<<IF r.truncated THEN "limit_exceeded" ELSE "none",
               SourceRefusal(html, utf8), StatusRefusal(r.status)>>)

\* read_https under :raw: the status, then the encoding of what was accepted.
Raw(r, utf8) ==
    Refusals(<<StatusRefusal(r.status), IF utf8 THEN "none" ELSE "unsupported_projection">>)

\* The answer to a read or a search, once the substrate has a response.
Answer ==
    /\ pc = "between" /\ outcome = "response" /\ budget = NoBudget
    /\ request.redirect = "FollowReads"
    /\ document = Unanswered
    /\ \E html, utf8, raw \in BOOLEAN :
          document' = [answer |-> IF raw THEN Raw(response, utf8)
                                         ELSE Rendered(response, html, utf8),
                       raw |-> raw, of |-> response]
    /\ pc' = "done"
    /\ UNCHANGED <<request, retry, budget, hops, response, waiting, time, cancelled,
                   fetches, sends, replays, connection, outcome>>

HttpsInit == Init /\ document = Unanswered

HttpsNext == \/ Next /\ UNCHANGED document
             \/ Answer

HttpsSpec == HttpsInit /\ [][HttpsNext]_httpsVars /\ Fairness

\* What is served as a document answers a request that succeeded, and the
\* Markdown of a document is that of all of it: over every retry, redirect and
\* limit of the fetch (http/mod.rs, fetch_reader_mode; https.rs, read_https).
DocumentsWhole ==
    document.answer = "document" =>
        /\ document.of.status = "ok"
        /\ ~document.raw => ~document.of.truncated
=============================================================================
