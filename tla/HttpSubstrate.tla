--------------------------- MODULE HttpSubstrate ---------------------------
(***************************************************************************)
(* The bounded HTTP egress point: http/mod.rs, http/read.rs and            *)
(* http/request.rs, with the decisions of core/http_policy.rs.             *)
(*                                                                         *)
(* One LOGICAL OPERATION makes up to MaxFetches fetches that share a       *)
(* deadline and, when it has one, a budget of attempts and bytes.  A fetch *)
(* is one attempt or two; an attempt is one request on the wire and, for a *)
(* request that follows redirects, one more for every hop.                 *)
(*                                                                         *)
(* The code between two awaits is one action: the checks before an attempt *)
(* and its charge (Attempt), the authorization of a resolution (Connect),  *)
(* the redirect policy (Redirected), and what is decided about a response  *)
(* whose body has been read (BodyEnds, BodyCut).  Time (Tick) and the      *)
(* caller's cancellation (Cancel) fall at the awaits.                      *)
(***************************************************************************)
EXTENDS Naturals, Sequences, FiniteSets, SequencesExt

CONSTANTS
    Hosts,          \* hosts a URL may name
    Literal,        \* [Hosts -> Addresses \cup {NoAddress}]: hosts spelled as IP literals
    Addresses,      \* the addresses a resolver may return, [family, parts]: 4 octets or 8 segments
    Urls,           \* the URLs, [host, path (a sequence of segments), userinfo]
    Allowlist,      \* the declared origins, [host, path, grant]
    Degraded,       \* origins refused since their startup probe failed, [host, path, grant]
    Credentials,    \* sequence of [origin, name], in the order they are tried
    Budgets,        \* the budgets an operation may begin with: NoBudget or [attempts, bytes]
    FetchBytes,     \* response ceiling
    RedirectDepth,  \* most redirects one attempt follows
    Deadline,       \* ticks a logical operation has
    Delays,         \* Retry-After delays a response may carry
    Jitters,        \* what the retry jitter may be
    ChunkSizes,     \* sizes of the body chunks a response arrives in
    MaxFetches      \* bound: fetches of one operation

NoAddress == [family |-> "none", parts |-> <<>>]
NoBudget == [attempts |-> 0, bytes |-> 0]
NoDelay == {}
NoCredential == "no credential"

ASSUME HttpAssumption ==
    /\ FetchBytes \in Nat \ {0} /\ RedirectDepth \in Nat /\ Deadline \in Nat \ {0}
    /\ Delays \subseteq Nat /\ Jitters \subseteq Nat /\ ChunkSizes \subseteq Nat \ {0}
    /\ MaxFetches \in Nat \ {0}
    /\ \A b \in Budgets : b \in [attempts : Nat, bytes : Nat]
    /\ \A url \in Urls : url.host \in Hosts

\* Ipv4Addr is four octets, Ipv6Addr eight segments of 16 bits.
Octet == 0..255
Segment == 0..65535

ASSUME AddressAssumption ==
    \A a \in Addresses \cup ({Literal[h] : h \in Hosts} \ {NoAddress}) :
        \/ a.family = "v4" /\ a.parts \in Octet \X Octet \X Octet \X Octet
        \/ /\ a.family = "v6"
           /\ a.parts \in Segment \X Segment \X Segment \X Segment
                          \X Segment \X Segment \X Segment \X Segment

\* A name stands for one entry of the credentials, whatever its secret value.
ASSUME CredentialAssumption ==
    \A i, j \in 1..Len(Credentials) :
        /\ Credentials[i].name # NoCredential
        /\ Credentials[i].name = Credentials[j].name => i = j

\* What a source may ask for: GET requests follow redirects, the JSON requests
\* do not; a mutation has no retry copy.
Requests ==
    [url : Urls, intent : {"ReadOnly"}, redirect : {"FollowReads", "Refuse"}]
    \cup [url : Urls, intent : {"Mutation"}, redirect : {"Refuse"}]

-----------------------------------------------------------------------------
(* Address policy: core/http_policy.rs *)

\* AddressClass::classify_v4, in the order of its tests.
ClassifyV4(o1, o2, o3, o4) ==
    CASE o1 = 0                               -> "Unspecified"
      [] o1 = 127                             -> "Loopback"
      [] \/ o1 = 10
         \/ o1 = 172 /\ o2 \in 16..31
         \/ o1 = 192 /\ o2 = 168              -> "Private"
      [] o1 = 169 /\ o2 = 254                 -> "LinkLocal"
      [] o1 = 100 /\ o2 \in 64..127           -> "SharedCgnat"
      [] o1 \in 224..239                      -> "Multicast"
      [] <<o1, o2, o3>> \in {<<192, 0, 2>>, <<198, 51, 100>>, <<203, 0, 113>>}
                                              -> "Documentation"
      [] o1 = 198 /\ o2 \in {18, 19}          -> "Benchmarking"
      [] o1 >= 240                            -> "Reserved"
      [] OTHER                                -> "Public"

\* Mutant: an IPv4 address inside an IPv6 one is not unwrapped.
ClassifyV6Literally(s) ==
    CASE \A i \in 1..8 : s[i] = 0                -> "Unspecified"
      [] s[1] >= 65280                           -> "Multicast"
      [] s[1] \in 64512..65023                   -> "UniqueLocal"
      [] s[1] \in 65152..65215                   -> "LinkLocal"
      [] OTHER                                   -> "Public"

\* classify_v6: :: and ::1 first, then the two forms that embed an IPv4
\* address, then the ranges of IPv6.
ClassifyV6(s) ==
    LET Embeds == /\ \A i \in 1..5 : s[i] = 0
                  /\ s[6] \in {0, 65535}
    IN CASE \A i \in 1..8 : s[i] = 0                        -> "Unspecified"
         [] (\A i \in 1..7 : s[i] = 0) /\ s[8] = 1          -> "Loopback"
         [] Embeds -> ClassifyV4(s[7] \div 256, s[7] % 256, s[8] \div 256, s[8] % 256)
         [] s[1] >= 65280                                   -> "Multicast"
         [] s[1] \in 64512..65023                           -> "UniqueLocal"
         [] s[1] \in 65152..65215                           -> "LinkLocal"
         [] s[1] = 8193 /\ s[2] = 3512                      -> "Documentation"
         [] OTHER                                           -> "Public"

Classify(a) ==
    IF a.family = "v4" THEN ClassifyV4(a.parts[1], a.parts[2], a.parts[3], a.parts[4])
                       ELSE ClassifyV6(a.parts)

IsRestricted(a) == Classify(a) # "Public"

\* AllowedOrigin::authorizes: same host (scheme and port are part of the host
\* here) and a path beneath the origin's, at a segment boundary.
Authorizes(origin, url) == origin.host = url.host /\ IsPrefix(origin.path, url.path)

\* OriginAllowlist::authorize.
Allowed(url) == \E origin \in Allowlist : Authorizes(origin, url)

\* host_policies: a host some origin declares grants private addresses only
\* when every origin that declares it does.
DeclaredHosts == {origin.host : origin \in Allowlist}
Granted(host) == \A origin \in Allowlist : origin.host = host => origin.grant

\* AddressPolicy::authorize under the policy of the host.
Admits(host, a) == host \in DeclaredHosts /\ (~IsRestricted(a) \/ Granted(host))

\* authorize_literal_host: a host that is an address never meets the resolver.
LiteralAdmitted(url) ==
    Literal[url.host] # NoAddress => Admits(url.host, Literal[url.host])

\* HttpSubstrate::credentialed: the first credential whose origin owns the URL.
CredentialFor(url) ==
    LET owners == {i \in 1..Len(Credentials) : Authorizes(Credentials[i].origin, url)}
    IN IF owners = {} THEN NoCredential
       ELSE Credentials[CHOOSE i \in owners : \A j \in owners : i <= j].name

\* The synchronous checks of fetch_attempt, before egress.
EgressAllowed(url) ==
    /\ ~url.userinfo
    /\ ~\E origin \in Degraded : Authorizes(origin, url)
    /\ Allowed(url)
    /\ LiteralAdmitted(url)

\* Mutant: an allowlisted hop is followed whoever's credential it would carry.
HopAllowedAnywhere(previous, url) ==
    ~url.userinfo /\ Len(previous) <= RedirectDepth /\ LiteralAdmitted(url) /\ Allowed(url)

\* redirect_policy, for the hop from the URLs `previous` (the first is the
\* request's own) to `url`.
HopAllowed(previous, url) ==
    /\ ~url.userinfo
    /\ \A i \in 1..Len(Credentials) :
          Authorizes(Credentials[i].origin, previous[1])
              => Authorizes(Credentials[i].origin, url)
    /\ Len(previous) <= RedirectDepth
    /\ LiteralAdmitted(url)
    /\ Allowed(url)

-----------------------------------------------------------------------------
VARIABLES
    pc,         \* "idle", "between", "head", "sent", "answered", "body", "wait", "done"
    request,    \* the request of the fetch under way
    retry,      \* a retry copy of it is at hand
    budget,     \* NoBudget or [max, remaining, bytes, accepted, retry]
    hops,       \* URLs this attempt has asked for, the newest last
    response,   \* received so far: [status, delay (a set of at most one), length, truncated]
    waiting,    \* ticks left of a retry wait
    time,       \* ticks left of the deadline
    cancelled,  \* the caller's operation was cancelled
    fetches,    \* fetches begun
    sends,      \* requests that reached the wire in this operation (history)
    replays,    \* attempts of the fetch under way (history)
    connection, \* what the attempt is connected for: [url, address, credential]
    outcome     \* how the last fetch ended

vars == <<pc, request, retry, budget, hops, response, waiting, time, cancelled,
          fetches, sends, replays, connection, outcome>>

NoRequest == [url |-> "none", intent |-> "none", redirect |-> "none"]
Unconnected == [url |-> "none"]
NoResponse == [status |-> "none", delay |-> NoDelay, length |-> 0, truncated |-> FALSE]

\* 2xx, 3xx, 401 or 403, 404 or 410, 429 or 503, the rest
Statuses == {"ok", "redirect", "denied", "gone", "busy", "other"}

Init ==
    /\ pc = "idle" /\ request = NoRequest /\ retry = FALSE /\ budget = NoBudget
    /\ hops = <<>> /\ response = NoResponse /\ waiting = 0 /\ time = Deadline
    /\ cancelled = FALSE /\ fetches = 0 /\ sends = 0 /\ replays = 0 /\ connection = Unconnected
    /\ outcome = "none"

\* A fetch ends; the caller has the outcome and the operation may go on only
\* with a response.
End(how) == pc' = "done" /\ outcome' = how

\* begin_read or begin_read_with_limits.
Begin ==
    /\ pc = "idle"
    /\ \E b \in Budgets :
          budget' = IF b = NoBudget THEN NoBudget
                    ELSE [max |-> b.attempts, remaining |-> b.attempts,
                          bytes |-> b.bytes, accepted |-> 0, retry |-> TRUE]
    /\ pc' = "between"
    /\ UNCHANGED <<request, retry, hops, response, waiting, time, cancelled, fetches,
                   sends, replays, connection, outcome>>

\* Mutant: a budgeted fetch follows redirects like any other.
FetchFollowing(r) ==
    /\ pc = "between" /\ fetches < MaxFetches
    /\ budget # NoBudget => r.intent = "ReadOnly"
    /\ request' = r
    /\ retry' = /\ r.intent = "ReadOnly"
                /\ budget # NoBudget => budget.retry /\ budget.remaining > 1
    /\ fetches' = fetches + 1
    /\ replays' = 0
    /\ pc' = "head"
    /\ UNCHANGED <<budget, hops, response, waiting, time, cancelled, sends, connection, outcome>>

\* Mutant: every request has a retry copy.
FetchCopying(r) ==
    /\ pc = "between" /\ fetches < MaxFetches
    /\ budget # NoBudget => r.intent = "ReadOnly"
    /\ request' = IF budget = NoBudget THEN r ELSE [r EXCEPT !.redirect = "Refuse"]
    /\ retry' = (budget # NoBudget => budget.retry /\ budget.remaining > 1)
    /\ fetches' = fetches + 1
    /\ replays' = 0
    /\ pc' = "head"
    /\ UNCHANGED <<budget, hops, response, waiting, time, cancelled, sends, connection, outcome>>

\* BoundedRead::fetch and fetch_with_budget: a budgeted request refuses
\* redirects, and only a read-only request has a retry copy.
Fetch(r) ==
    /\ pc = "between" /\ fetches < MaxFetches
    /\ budget # NoBudget => r.intent = "ReadOnly"
    /\ request' = IF budget = NoBudget THEN r ELSE [r EXCEPT !.redirect = "Refuse"]
    /\ retry' = /\ r.intent = "ReadOnly"
                /\ budget # NoBudget => budget.retry /\ budget.remaining > 1
    /\ fetches' = fetches + 1
    /\ replays' = 0
    /\ pc' = "head"
    /\ UNCHANGED <<budget, hops, response, waiting, time, cancelled, sends, connection, outcome>>

\* The logical deadline of a read has passed.
Late == time = 0 /\ request.intent = "ReadOnly"

\* HttpReadBudget::charge_attempt.
Charged == IF budget = NoBudget THEN NoBudget ELSE [budget EXCEPT !.remaining = @ - 1]

\* The head of the loop of fetch_bounded_attempts and fetch_attempt up to its
\* first await: acceptance, the charge, the egress checks.  A mutation calls
\* fetch_attempt itself, under no logical deadline.
Attempt ==
    /\ pc = "head"
    /\ UNCHANGED <<request, waiting, time, cancelled, fetches, sends, connection>>
    /\ \/ /\ cancelled
          /\ End("cancelled")
          /\ UNCHANGED <<retry, budget, hops, response, replays>>
       \/ /\ ~cancelled /\ Late
          /\ End("deadline")
          /\ UNCHANGED <<retry, budget, hops, response, replays>>
       \/ /\ ~cancelled /\ ~Late
          /\ budget # NoBudget /\ budget.remaining = 0
          /\ End("attempts")
          /\ UNCHANGED <<retry, budget, hops, response, replays>>
       \/ /\ ~cancelled /\ ~Late
          /\ budget # NoBudget => budget.remaining > 0
          /\ budget' = Charged
          /\ retry' = (retry /\ (budget # NoBudget => budget.retry /\ Charged.remaining > 0))
          /\ replays' = replays + 1
          /\ response' = NoResponse
          /\ hops' = <<request.url>>
          /\ IF EgressAllowed(request.url)
             THEN pc' = "sent" /\ UNCHANGED outcome
             ELSE End("refused")

\* A host that is a name is resolved and every address must be admitted; a
\* literal was authorized when the URL was.  The connection is then made to one
\* of the addresses, with the credential chosen for the request's own URL.
Connect ==
    /\ pc = "sent" /\ ~cancelled
    /\ LET url == Last(hops) IN
       \E resolved \in IF Literal[url.host] # NoAddress THEN {{Literal[url.host]}}
                       ELSE {s \in SUBSET Addresses : Cardinality(s) <= 2} :
          IF resolved = {}
          THEN /\ End("unresolved")
               /\ UNCHANGED <<sends, connection>>
          ELSE IF Literal[url.host] = NoAddress /\ \E a \in resolved : ~Admits(url.host, a)
          THEN /\ End("refused")
               /\ UNCHANGED <<sends, connection>>
          ELSE \E a \in resolved :
               /\ connection' = [url |-> url, address |-> a,
                                 credential |-> CredentialFor(hops[1])]
               /\ sends' = sends + 1
               /\ pc' = "answered"
               /\ UNCHANGED outcome
    /\ UNCHANGED <<request, retry, budget, hops, response, waiting, time, cancelled,
                   fetches, replays>>

\* The upstream answers with a redirect and the client follows it, or its
\* policy refuses the hop.
Redirected(url) ==
    /\ pc = "answered" /\ ~cancelled
    /\ request.redirect = "FollowReads"
    /\ IF HopAllowed(hops, url)
       THEN /\ hops' = Append(hops, url)
            /\ pc' = "sent"
            /\ UNCHANGED outcome
       ELSE /\ End("refused")
            /\ UNCHANGED hops
    /\ connection' = Unconnected
    /\ UNCHANGED <<request, retry, budget, response, waiting, time, cancelled, fetches,
                   sends, replays>>

\* The head of a response arrives.  A Link header over its ceiling ends the
\* fetch; the other headers are only retained or not.
Headers ==
    /\ pc = "answered" /\ ~cancelled
    /\ \/ \E status \in Statuses, delay \in {NoDelay} \cup {{d} : d \in Delays} :
             /\ status = "redirect" => request.redirect = "Refuse"
             /\ delay # NoDelay => status = "busy"
             /\ response' = [NoResponse EXCEPT !.status = status, !.delay = delay]
          /\ pc' = "body"
          /\ UNCHANGED outcome
       \/ /\ End("header")
          /\ UNCHANGED response
    /\ connection' = Unconnected
    /\ UNCHANGED <<request, retry, budget, hops, waiting, time, cancelled, fetches,
                   sends, replays>>

\* read_bounded: a chunk that fits is kept, one that does not is cut at the
\* ceiling and ends the body.
Chunk(n) ==
    /\ pc = "body" /\ ~cancelled
    /\ n <= FetchBytes - response.length
    /\ response' = [response EXCEPT !.length = @ + n]
    /\ UNCHANGED <<pc, request, retry, budget, hops, waiting, time, cancelled, fetches,
                   sends, replays, connection, outcome>>

\* retry_wait_fits.
WaitFits(delay, jitter) == delay + jitter < time

\* fetch_bounded_attempts once fetch_attempt has returned the response r: a
\* 429 or 503 with guidance is waited for when a retry is at hand and the wait
\* fits.
Decide(r) ==
    IF r.status # "busy" \/ ~retry \/ r.delay = NoDelay
    THEN /\ pc' = "between" /\ outcome' = "response"
         /\ UNCHANGED <<budget, waiting>>
    ELSE \E delay \in r.delay, jitter \in Jitters :
         IF ~WaitFits(delay, jitter)
         THEN /\ End("deadline")
              /\ UNCHANGED <<budget, waiting>>
         ELSE /\ pc' = "wait"
              /\ waiting' = delay + jitter
              /\ budget' = IF budget = NoBudget THEN NoBudget ELSE [budget EXCEPT !.retry = FALSE]
              /\ UNCHANGED outcome

\* The body ends, whole.
BodyEnds ==
    /\ pc = "body" /\ ~cancelled
    /\ Decide(response)
    /\ UNCHANGED <<request, retry, hops, response, time, cancelled, fetches, sends,
                   replays, connection>>

\* The chunk that passes the ceiling.
BodyCut(n) ==
    /\ pc = "body" /\ ~cancelled
    /\ n > FetchBytes - response.length
    /\ response' = [response EXCEPT !.length = FetchBytes, !.truncated = TRUE]
    /\ Decide(response)
    /\ UNCHANGED <<request, retry, hops, time, cancelled, fetches, sends, replays, connection>>

\* Mutant: the timeout of the client ends with the headers.
FailBeforeHeaders ==
    /\ pc \in {"sent", "answered"} /\ ~cancelled
    /\ IF pc # "body" /\ retry /\ time > 0
       THEN /\ retry' = FALSE
            /\ budget' = IF budget = NoBudget THEN NoBudget ELSE [budget EXCEPT !.retry = FALSE]
            /\ pc' = "head"
            /\ UNCHANGED outcome
       ELSE /\ End("transport")
            /\ UNCHANGED <<retry, budget>>
    /\ connection' = Unconnected
    /\ UNCHANGED <<request, hops, response, waiting, time, cancelled, fetches, sends,
                   replays>>

\* The connection fails, or the client's own timeout: before the headers a
\* retryable transport failure, in the body an unknown outcome.
Fail ==
    /\ pc \in {"sent", "answered", "body"} /\ ~cancelled
    /\ IF pc # "body" /\ retry /\ time > 0
       THEN /\ retry' = FALSE
            /\ budget' = IF budget = NoBudget THEN NoBudget ELSE [budget EXCEPT !.retry = FALSE]
            /\ pc' = "head"
            /\ UNCHANGED outcome
       ELSE /\ End("transport")
            /\ UNCHANGED <<retry, budget>>
    /\ connection' = Unconnected
    /\ UNCHANGED <<request, hops, response, waiting, time, cancelled, fetches, sends,
                   replays>>

\* The retry wait is over.
WaitEnds ==
    /\ pc = "wait" /\ ~cancelled /\ waiting = 0
    /\ IF time = 0
       THEN /\ End("deadline")
            /\ UNCHANGED retry
       ELSE /\ retry' = FALSE
            /\ pc' = "head"
            /\ UNCHANGED outcome
    /\ UNCHANGED <<request, budget, hops, response, waiting, time, cancelled, fetches,
                   sends, replays, connection>>

\* Every await of an attempt polls the cancellation first.
ObserveCancel ==
    /\ pc \in {"sent", "answered", "body", "wait"} /\ cancelled
    /\ End("cancelled")
    /\ connection' = Unconnected
    /\ UNCHANGED <<request, retry, budget, hops, response, waiting, time, cancelled,
                   fetches, sends, replays>>

\* timeout_at around the attempts of a fetch.
TimesOut ==
    /\ pc \in {"sent", "answered", "body", "wait"} /\ Late
    /\ End("deadline")
    /\ connection' = Unconnected
    /\ UNCHANGED <<request, retry, budget, hops, response, waiting, time, cancelled,
                   fetches, sends, replays>>

\* HttpReadBudget::admit_body, the charge of a body the source uses: a
\* truncated one counts a byte more.
Admitted == response.length + (IF response.truncated THEN 1 ELSE 0)

Admit ==
    /\ pc = "between" /\ outcome = "response" /\ budget # NoBudget
    /\ IF Admitted > FetchBytes \/ Admitted > budget.bytes - budget.accepted
       THEN /\ End("bytes")
            /\ UNCHANGED budget
       ELSE /\ budget' = [budget EXCEPT !.accepted = @ + Admitted]
            /\ outcome' = "admitted"
            /\ UNCHANGED pc
    /\ UNCHANGED <<request, retry, hops, response, waiting, time, cancelled, fetches,
                   sends, replays, connection>>

\* The caller is done with the operation.
Leave ==
    /\ pc = "between" /\ fetches > 0
    /\ pc' = "done"
    /\ UNCHANGED <<request, retry, budget, hops, response, waiting, time, cancelled,
                   fetches, sends, replays, connection, outcome>>

-----------------------------------------------------------------------------
\* A tick of the clock, while the operation awaits something.
Tick ==
    /\ pc \in {"between", "sent", "answered", "body", "wait"} /\ time > 0
    /\ time' = time - 1
    /\ waiting' = IF waiting > 0 THEN waiting - 1 ELSE 0
    /\ UNCHANGED <<pc, request, retry, budget, hops, response, cancelled, fetches,
                   sends, replays, connection, outcome>>

\* The caller cancels.  The guard of a committing mutation masks it.
Cancel ==
    /\ ~cancelled /\ pc \notin {"idle", "done"}
    /\ request # NoRequest => request.intent = "ReadOnly"
    /\ cancelled' = TRUE
    /\ UNCHANGED <<pc, request, retry, budget, hops, response, waiting, time, fetches,
                   sends, replays, connection, outcome>>

Finished == pc = "done" /\ UNCHANGED vars

Next ==
    \/ Begin
    \/ \E r \in Requests : Fetch(r)
    \/ Attempt \/ Connect \/ Headers \/ BodyEnds \/ Fail
    \/ \E url \in Urls : Redirected(url)
    \/ \E n \in ChunkSizes : Chunk(n)
    \/ \E n \in ChunkSizes : BodyCut(n)
    \/ WaitEnds \/ ObserveCancel \/ TimesOut \/ Admit \/ Leave
    \/ Tick \/ Cancel \/ Finished

\* The runtime polls a ready future and its timers run: the clock, the logical
\* deadline, and the client's own timeout, which is no shorter.  The upstream
\* owes nothing.
Fairness ==
    /\ WF_vars(Tick)
    /\ WF_vars(Attempt \/ WaitEnds \/ ObserveCancel \/ TimesOut \/ (time = 0 /\ Fail))

Spec == Init /\ [][Next]_vars /\ Fairness

-----------------------------------------------------------------------------
(* Properties *)

TypeOK ==
    /\ pc \in {"idle", "between", "head", "sent", "answered", "body", "wait", "done"}
    /\ request \in Requests \cup {NoRequest}
    /\ budget # NoBudget => budget.remaining \in 0..budget.max /\ budget.accepted \in Nat
    /\ response.length \in 0..FetchBytes
    /\ time \in 0..Deadline /\ waiting \in Nat

\* Address revalidation, through both routes and on every hop: whatever was
\* connected to is beneath an allowlisted origin, and a special-purpose address
\* only when every origin declared at that host grants private addresses.  The
\* reference is the registries' prefixes, an IPv4 address inside an IPv6 one
\* included, not the tests of classify in their order.
V4In(a, prefix, net) ==
    LET bits(x) == x[1] * 65536 + x[2] * 256 + x[3]     \* no prefix is longer than 24
    IN  bits(a) \div 2^(24 - prefix) = bits(net) \div 2^(24 - prefix)

SpecialV4(a) ==
    \E block \in {<<8, 0, 0, 0>>, <<8, 127, 0, 0>>, <<8, 10, 0, 0>>, <<12, 172, 16, 0>>,
                  <<16, 192, 168, 0>>, <<16, 169, 254, 0>>, <<10, 100, 64, 0>>,
                  <<24, 192, 0, 2>>, <<24, 198, 51, 100>>, <<24, 203, 0, 113>>,
                  <<15, 198, 18, 0>>, <<4, 224, 0, 0>>, <<4, 240, 0, 0>>} :
        V4In(a, block[1], Tail(block))

SpecialV6(s) ==
    \/ s[1] \div 512 = 126 \/ s[1] \div 64 = 1018 \/ s[1] \div 256 = 255
    \/ s[1] = 8193 /\ s[2] = 3512
    \/ /\ \A i \in 1..5 : s[i] = 0
       /\ s[6] \in {0, 65535}
       /\ SpecialV4(<<s[7] \div 256, s[7] % 256, s[8] \div 256, s[8] % 256>>)

Special(a) == IF a.family = "v4" THEN SpecialV4(a.parts) ELSE SpecialV6(a.parts)

ConnectsWhereGranted ==
    connection # Unconnected =>
        /\ \E origin \in Allowlist : Authorizes(origin, connection.url)
        /\ Special(connection.address)
              => \A origin \in Allowlist : origin.host = connection.url.host => origin.grant

\* A credential reaches only URLs of the origin it belongs to, over every
\* redirect: the client repeats the headers of the first request on each hop.
CredentialsStayHome ==
    connection # Unconnected =>
        \A i \in 1..Len(Credentials) :
            connection.credential = Credentials[i].name
                => Authorizes(Credentials[i].origin, connection.url)

\* The ledger of a budget covers what was really sent: never more requests on
\* the wire than attempts charged, never more charged than allowed, one retry
\* at most over all the fetches that share it, and bodies within its bytes.
\* The retry of a fetch that follows redirects, or has no budget, is one too.
LedgerCovers ==
    /\ budget # NoBudget =>
         /\ sends <= budget.max - budget.remaining
         /\ budget.max - budget.remaining <= fetches + 1
         /\ budget.accepted <= budget.bytes
    /\ replays <= 2

\* A mutation reaches the wire at most once: it is neither retried, waited for
\* nor redirected.
MutationsSentOnce ==
    [][request # NoRequest /\ request.intent = "Mutation" /\ sends' > sends /\ fetches' = fetches
        => replays = 1 /\ Len(hops) = 1]_vars

\* Every fetch ends, whatever the upstream does or leaves undone.
FetchesEnd == pc \notin {"idle", "between", "done"} ~> pc \in {"between", "done"}

=============================================================================
