------------------------------ MODULE HttpProofs ------------------------------
(***************************************************************************)
(* Proofs about the HTTP substrate and the https:// source: an address is  *)
(* connected to only where it is granted, a credential stays on the URLs   *)
(* of its origin, the ledger of a budget covers what was sent, a mutation  *)
(* is sent once, and a document is that of a whole response.               *)
(***************************************************************************)
EXTENDS HttpsSource, FiniteSetTheorems, TLAPS

-----------------------------------------------------------------------------
(* The address classes *)

\* A public IPv4 address passes every test of classify_v4.
LEMMA PublicV4 ==
    ASSUME NEW a \in Octet, NEW b \in Octet, NEW c \in Octet, NEW d \in Octet,
           ClassifyV4(a, b, c, d) = "Public"
    PROVE  /\ a \notin {0, 10, 127} /\ a < 224
           /\ a = 172 => b \notin 16..31
           /\ a = 192 => b # 168
           /\ a = 169 => b # 254
           /\ a = 100 => b \notin 64..127
           /\ a = 198 => b \notin {18, 19}
           /\ <<a, b, c>> \notin {<<192, 0, 2>>, <<198, 51, 100>>, <<203, 0, 113>>}
  BY DEF Octet, ClassifyV4

\* Blocks of 8 bits and less are read off the first octet.
LEMMA EightBits ==
    ASSUME NEW a \in Octet, NEW b \in Octet, NEW c \in Octet, NEW d \in Octet,
           NEW n \in Octet, V4In(<<a, b, c, d>>, 8, <<n, 0, 0>>)
    PROVE  a = n
  <1>1. 2^(24 - 8) = 65536
    OBVIOUS
  <1>2. (a * 65536 + b * 256 + c) \div 65536 = a
    BY DEF Octet
  <1>3. (n * 65536 + 0 * 256 + 0) \div 65536 = n
    BY DEF Octet
  <1>4. QED
    BY <1>1, <1>2, <1>3 DEF V4In

(* Four leading bits: multicast (224) and the reserved block (240). *)
LEMMA FourBits ==
    ASSUME NEW a \in Octet, NEW b \in Octet, NEW c \in Octet, NEW d \in Octet,
           NEW n \in {224, 240}, V4In(<<a, b, c, d>>, 4, <<n, 0, 0>>)
    PROVE  a >= n
  <1>1. 2^(24 - 4) = 1048576
    OBVIOUS
  <1>2. (a * 65536 + b * 256 + c) \div 1048576 = (n * 65536 + 0 * 256 + 0) \div 1048576
    BY <1>1 DEF V4In
  <1>3. QED
    BY <1>2 DEF Octet

\* 16 bits are the first two octets, 24 bits are three.
LEMMA SixteenBits ==
    ASSUME NEW a \in Octet, NEW b \in Octet, NEW c \in Octet, NEW d \in Octet,
           NEW m \in Octet, NEW n \in Octet, V4In(<<a, b, c, d>>, 16, <<m, n, 0>>)
    PROVE  a = m /\ b = n
  <1>1. 2^(24 - 16) = 256
    OBVIOUS
  <1>2. (a * 65536 + b * 256 + c) \div 256 = a * 256 + b
    BY DEF Octet
  <1>3. (m * 65536 + n * 256 + 0) \div 256 = m * 256 + n
    BY DEF Octet
  <1>4. a * 256 + b = m * 256 + n
    BY <1>1, <1>2, <1>3 DEF V4In
  <1>5. QED
    BY <1>4 DEF Octet

(* Twenty-four leading bits fix the first three octets. *)
LEMMA TwentyFourBits ==
    ASSUME NEW a \in Octet, NEW b \in Octet, NEW c \in Octet, NEW d \in Octet,
           NEW l \in Octet, NEW m \in Octet, NEW n \in Octet,
           V4In(<<a, b, c, d>>, 24, <<l, m, n>>)
    PROVE  <<a, b, c>> = <<l, m, n>>
  <1>1. 2^(24 - 24) = 1
    OBVIOUS
  <1>2. a * 65536 + b * 256 + c = l * 65536 + m * 256 + n
    BY <1>1 DEF V4In, Octet
  <1>3. QED
    BY <1>2 DEF Octet

(* 172.16.0.0/12 is the octets 16 to 31 of the private block. *)
LEMMA TwelveBits ==
    ASSUME NEW a \in Octet, NEW b \in Octet, NEW c \in Octet, NEW d \in Octet,
           V4In(<<a, b, c, d>>, 12, <<172, 16, 0>>)
    PROVE  a = 172 /\ b \in 16..31
  <1>1. 2^(24 - 12) = 4096
    OBVIOUS
  <1>2. (a * 65536 + b * 256 + c) \div 4096 = 2753
    BY <1>1 DEF V4In
  <1>3. QED
    BY <1>2 DEF Octet

(* 100.64.0.0/10 is the octets 64 to 127 of the shared block. *)
LEMMA TenBits ==
    ASSUME NEW a \in Octet, NEW b \in Octet, NEW c \in Octet, NEW d \in Octet,
           V4In(<<a, b, c, d>>, 10, <<100, 64, 0>>)
    PROVE  a = 100 /\ b \in 64..127
  <1>1. 2^(24 - 10) = 16384
    OBVIOUS
  <1>2. (a * 65536 + b * 256 + c) \div 16384 = 401
    BY <1>1 DEF V4In
  <1>3. QED
    BY <1>2 DEF Octet

(* 198.18.0.0/15 is the two benchmarking octets. *)
LEMMA FifteenBits ==
    ASSUME NEW a \in Octet, NEW b \in Octet, NEW c \in Octet, NEW d \in Octet,
           V4In(<<a, b, c, d>>, 15, <<198, 18, 0>>)
    PROVE  a = 198 /\ b \in {18, 19}
  <1>1. 2^(24 - 15) = 512
    OBVIOUS
  <1>2. (a * 65536 + b * 256 + c) \div 512 = 25353
    BY <1>1 DEF V4In
  <1>3. QED
    BY <1>2 DEF Octet

\* classify_v4 and the registries agree on what is public: an address in one of
\* the special-purpose blocks passes no test that ends in Public.
LEMMA PublicV4IsNotSpecial ==
    ASSUME NEW a \in Octet, NEW b \in Octet, NEW c \in Octet, NEW d \in Octet,
           ClassifyV4(a, b, c, d) = "Public"
    PROVE  ~SpecialV4(<<a, b, c, d>>)
  <1> DEFINE at == <<a, b, c, d>>
  <1>0. {0, 2, 10, 51, 100, 113, 127, 168, 169, 192, 198, 203, 254} \subseteq Octet
    BY DEF Octet
  <1>1. /\ ~V4In(at, 8, <<0, 0, 0>>) /\ ~V4In(at, 8, <<127, 0, 0>>) /\ ~V4In(at, 8, <<10, 0, 0>>)
    BY SMTT(30), <1>0, PublicV4, EightBits
  <1>2. ~V4In(at, 12, <<172, 16, 0>>)
    BY PublicV4, TwelveBits
  <1>3. /\ ~V4In(at, 16, <<192, 168, 0>>) /\ ~V4In(at, 16, <<169, 254, 0>>)
    BY SMTT(30), <1>0, PublicV4, SixteenBits
  <1>4. ~V4In(at, 10, <<100, 64, 0>>)
    BY PublicV4, TenBits
  <1>5. /\ ~V4In(at, 24, <<192, 0, 2>>) /\ ~V4In(at, 24, <<198, 51, 100>>)
        /\ ~V4In(at, 24, <<203, 0, 113>>)
    BY SMTT(30), <1>0, PublicV4, TwentyFourBits
  <1>6. ~V4In(at, 15, <<198, 18, 0>>)
    BY PublicV4, FifteenBits
  <1>7. ~V4In(at, 4, <<224, 0, 0>>) /\ ~V4In(at, 4, <<240, 0, 0>>)
    <2>1. a < 224
      BY PublicV4
    <2>2. a \in Int
      BY DEF Octet
    <2>3. QED
      BY <2>1, <2>2, FourBits
  <1> HIDE DEF at
  <1>8. QED
    BY <1>1, <1>2, <1>3, <1>4, <1>5, <1>6, <1>7 DEF SpecialV4, at

\* The two segments of an embedded address are its four octets.
LEMMA SegmentHalves ==
    ASSUME NEW n \in Segment
    PROVE  n \div 256 \in Octet /\ n % 256 \in Octet
  <1>1. n \in Int /\ 0 <= n /\ n <= 65535
    BY DEF Segment
  <1>2. n \div 256 \in Int /\ 0 <= n \div 256 /\ n \div 256 <= 255
    BY <1>1
  <1>3. n % 256 \in Int /\ 0 <= n % 256 /\ n % 256 <= 255
    BY <1>1
  <1>4. QED
    BY <1>2, <1>3 DEF Octet

\* The prefixes of IPv6 as ranges of the first segment.
LEMMA SegmentPrefixes ==
    ASSUME NEW n \in Segment
    PROVE  /\ n \div 512 = 126 => n \in 64512..65023
           /\ n \div 64 = 1018 => n \in 65152..65215
           /\ n \div 256 = 255 => n >= 65280
  <1>1. n \in Int /\ 0 <= n
    BY DEF Segment
  <1>2. n \div 512 = 126 => n \in 64512..65023
    BY <1>1
  <1>3. n \div 64 = 1018 => n \in 65152..65215
    BY <1>1
  <1>4. n \div 256 = 255 => n >= 65280
    BY <1>1
  <1>5. QED
    BY <1>2, <1>3, <1>4

\* classify_v6 unwraps the two forms that embed an IPv4 address, and agrees with
\* the registries on the rest.
LEMMA PublicV6IsNotSpecial ==
    ASSUME NEW s \in Segment \X Segment \X Segment \X Segment
                      \X Segment \X Segment \X Segment \X Segment,
           ClassifyV6(s) = "Public"
    PROVE  ~SpecialV6(s)
  <1> DEFINE Embeds == (\A i \in 1..5 : s[i] = 0) /\ s[6] \in {0, 65535}
  <1>1. s[1] \in Segment /\ s[7] \in Segment /\ s[8] \in Segment
    OBVIOUS
  <1>2. CASE Embeds
    <2>1. ClassifyV4(s[7] \div 256, s[7] % 256, s[8] \div 256, s[8] % 256) = "Public"
      BY <1>2 DEF ClassifyV6
    <2>2. ~SpecialV4(<<s[7] \div 256, s[7] % 256, s[8] \div 256, s[8] % 256>>)
      BY <1>1, <2>1, SegmentHalves, PublicV4IsNotSpecial
    <2>3. s[1] = 0
      BY <1>2
    <2>4. QED
      BY <2>2, <2>3 DEF SpecialV6
  <1>3. CASE ~Embeds
    <2>1. ~\A i \in 1..7 : s[i] = 0
      BY <1>3
    <2>2. /\ ~(s[1] >= 65280) /\ s[1] \notin 64512..65023 /\ s[1] \notin 65152..65215
          /\ ~(s[1] = 8193 /\ s[2] = 3512)
      BY <1>3, <2>1 DEF ClassifyV6
    <2>3. s[1] \div 512 # 126 /\ s[1] \div 64 # 1018 /\ s[1] \div 256 # 255
      BY <1>1, <2>2, SegmentPrefixes
    <2>4. QED
      BY <1>3, <2>2, <2>3 DEF SpecialV6
  <1>4. QED
    BY <1>2, <1>3

\* Both families: what Classify calls public is in no special-purpose block.
LEMMA PublicIsNotSpecial ==
    ASSUME NEW h \in Hosts, NEW a, a \in Addresses \/ a = Literal[h], a # NoAddress,
           ~IsRestricted(a)
    PROVE  ~Special(a)
  <1>1. CASE a.family = "v4" /\ a.parts \in Octet \X Octet \X Octet \X Octet
    <2>1. /\ a.parts = <<a.parts[1], a.parts[2], a.parts[3], a.parts[4]>>
          /\ a.parts[1] \in Octet /\ a.parts[2] \in Octet
          /\ a.parts[3] \in Octet /\ a.parts[4] \in Octet
      BY <1>1
    <2>2. ClassifyV4(a.parts[1], a.parts[2], a.parts[3], a.parts[4]) = "Public"
      BY <1>1 DEF IsRestricted, Classify
    <2>3. ~SpecialV4(<<a.parts[1], a.parts[2], a.parts[3], a.parts[4]>>)
      BY <2>1, <2>2, PublicV4IsNotSpecial
    <2>4. QED
      BY <1>1, <2>1, <2>3 DEF Special
  <1>2. CASE /\ a.family = "v6"
             /\ a.parts \in Segment \X Segment \X Segment \X Segment
                            \X Segment \X Segment \X Segment \X Segment
    <2>1. ClassifyV6(a.parts) = "Public"
      BY <1>2 DEF IsRestricted, Classify
    <2>2. QED
      BY <1>2, <2>1, PublicV6IsNotSpecial DEF Special
  <1>3. QED
    BY <1>1, <1>2, AddressAssumption

-----------------------------------------------------------------------------
(* The inductive invariant, in parts *)

\* A fetch is under way.
InFetch == pc \in {"head", "sent", "answered", "body", "wait"}

\* The attempt has been charged and has not failed.
Attempting == pc \in {"sent", "answered", "body"}

Ledgers == [max : Nat, remaining : Nat, bytes : Nat, accepted : Nat, retry : BOOLEAN]

Typed ==
    /\ pc \in {"idle", "between", "head", "sent", "answered", "body", "wait", "done"}
    /\ request \in Requests \cup {NoRequest}
    /\ InFetch => request \in Requests
    /\ retry \in BOOLEAN
    /\ budget # NoBudget => budget \in Ledgers /\ budget.remaining <= budget.max
    /\ hops \in Seq(Urls)
    /\ fetches \in Nat /\ sends \in Nat /\ replays \in Nat

Responses == [status : Statuses \cup {"none"}, delay : {NoDelay} \cup {{d} : d \in Delays},
              length : 0..FetchBytes, truncated : BOOLEAN]

ResponseTyped == response \in Responses

\* The URLs of an attempt: the newest is allowed, its literal is admitted, and
\* it is owned by every credential that owns the first.  A request that refuses
\* redirects has asked for one.
HopsKept ==
    pc \in {"sent", "answered"} =>
        /\ hops # <<>>
        /\ Allowed(Last(hops)) /\ LiteralAdmitted(Last(hops))
        /\ \A i \in 1..Len(Credentials) :
              Authorizes(Credentials[i].origin, hops[1])
                  => Authorizes(Credentials[i].origin, Last(hops))
        /\ request.redirect = "Refuse" => Len(hops) = 1

\* What is connected was admitted under the policy of its host, and carries the
\* credential of an origin that owns it.
ConnectionAdmitted ==
    connection # Unconnected =>
        /\ connection.url \in Urls /\ Allowed(connection.url)
        /\ connection.address \in Addresses \cup {Literal[connection.url.host]}
        /\ connection.address # NoAddress
        /\ Admits(connection.url.host, connection.address)
        /\ \/ connection.credential = NoCredential
           \/ \E i \in 1..Len(Credentials) :
                 /\ connection.credential = Credentials[i].name
                 /\ Authorizes(Credentials[i].origin, connection.url)

\* A fetch makes two attempts at most, the second without its retry copy; a
\* mutation has none, and makes one.
AttemptsCounted ==
    /\ replays <= 2
    /\ pc = "head" => replays <= 1 /\ (retry => replays = 0)
    /\ Attempting => replays \in 1..2 /\ (retry => replays = 1)
    /\ pc = "wait" => retry /\ replays = 1
    /\ InFetch /\ request.intent = "Mutation" =>
         /\ ~retry
         /\ IF pc = "head" THEN replays = 0 ELSE replays = 1

\* The attempts of a budgeted operation are charged before they are sent, and
\* the retry they share is spent when one of them is repeated.
Charges == budget.max - budget.remaining

BudgetKept ==
    budget # NoBudget =>
        /\ InFetch => request.redirect = "Refuse"
        /\ sends <= Charges /\ (pc = "sent" => sends < Charges)
        /\ Charges <= fetches + 1
        /\ budget.retry => Charges <= fetches
        /\ pc = "head" => Charges <= fetches /\ (budget.retry => Charges < fetches)
        /\ pc = "wait" => Charges <= fetches /\ ~budget.retry
        /\ retry /\ (pc = "head" \/ Attempting) => budget.retry
        /\ budget.accepted <= budget.bytes

Unsent == pc = "idle" => sends = 0 /\ budget = NoBudget /\ retry = FALSE

IInv ==
    /\ Typed /\ ResponseTyped /\ HopsKept /\ ConnectionAdmitted /\ AttemptsCounted /\ BudgetKept
    /\ Unsent /\ DocumentsWhole
-----------------------------------------------------------------------------
(* Steps *)

\* No response is one of those a request may have.
LEMMA NothingReceived == NoResponse \in Responses
  BY HttpAssumption DEF NoResponse, Responses

\* A response is cut at the ceiling.
LEMMA ResponseKept ==
    ResponseTyped /\ [HttpsNext]_httpsVars => ResponseTyped'
  <1> SUFFICES ASSUME ResponseTyped, [HttpsNext]_httpsVars
               PROVE  ResponseTyped'
    OBVIOUS
  <1>1. ASSUME Begin PROVE ResponseTyped'
    BY <1>1, HttpAssumption DEF Begin, ResponseTyped, Responses
  <1>2. ASSUME NEW r \in Requests, Fetch(r)
        PROVE  ResponseTyped'
    BY <1>2, HttpAssumption DEF Fetch, ResponseTyped, Responses
  <1>3. ASSUME Attempt PROVE ResponseTyped'
    <2>1. response' = response \/ response' = NoResponse
      BY <1>3 DEF Attempt
    <2>2. QED
      BY <2>1, NothingReceived DEF ResponseTyped
  <1>4. ASSUME Connect PROVE ResponseTyped'
    BY <1>4, HttpAssumption DEF Connect, End, ResponseTyped, Responses
  <1>5. ASSUME Headers PROVE ResponseTyped'
    <2>1. \/ response' = response
          \/ \E status \in Statuses, delay \in {NoDelay} \cup {{d} : d \in Delays} :
                response' = [NoResponse EXCEPT !.status = status, !.delay = delay]
      BY <1>5 DEF Headers
    <2>2. QED
      BY <2>1, NothingReceived DEF ResponseTyped, Responses
  <1>6. ASSUME BodyEnds PROVE ResponseTyped'
    BY <1>6, HttpAssumption DEF BodyEnds, Decide, End, ResponseTyped, Responses
  <1>7. ASSUME Fail PROVE ResponseTyped'
    BY <1>7, HttpAssumption DEF Fail, End, ResponseTyped, Responses
  <1>8. ASSUME NEW url \in Urls, Redirected(url)
        PROVE  ResponseTyped'
    BY <1>8, HttpAssumption DEF Redirected, End, ResponseTyped, Responses
  <1>9. ASSUME NEW n \in ChunkSizes, Chunk(n)
        PROVE  ResponseTyped'
    BY <1>9, HttpAssumption DEF Chunk, ResponseTyped, Responses
  <1>10. ASSUME NEW n \in ChunkSizes, BodyCut(n)
        PROVE  ResponseTyped'
    <2>1. response' = [response EXCEPT !.length = FetchBytes, !.truncated = TRUE]
      BY <1>10 DEF BodyCut
    <2>2. FetchBytes \in 0..FetchBytes
      BY HttpAssumption
    <2>3. QED
      BY <2>1, <2>2 DEF ResponseTyped, Responses
  <1>11. ASSUME WaitEnds PROVE ResponseTyped'
    BY <1>11, HttpAssumption DEF WaitEnds, End, ResponseTyped, Responses
  <1>12. ASSUME ObserveCancel PROVE ResponseTyped'
    BY <1>12, HttpAssumption DEF ObserveCancel, End, ResponseTyped, Responses
  <1>13. ASSUME TimesOut PROVE ResponseTyped'
    BY <1>13, HttpAssumption DEF TimesOut, End, Late, ResponseTyped, Responses
  <1>14. ASSUME Admit PROVE ResponseTyped'
    BY <1>14, HttpAssumption DEF Admit, End, ResponseTyped, Responses
  <1>15. ASSUME Leave PROVE ResponseTyped'
    BY <1>15, HttpAssumption DEF Leave, ResponseTyped, Responses
  <1>16. ASSUME Tick PROVE ResponseTyped'
    BY <1>16, HttpAssumption DEF Tick, ResponseTyped, Responses
  <1>17. ASSUME Cancel PROVE ResponseTyped'
    BY <1>17, HttpAssumption DEF Cancel, ResponseTyped, Responses
  <1>18. ASSUME Finished PROVE ResponseTyped'
    BY <1>18, HttpAssumption DEF Finished, vars, ResponseTyped, Responses
  <1>19. ASSUME Answer PROVE ResponseTyped'
    BY <1>19, HttpAssumption DEF Answer, ResponseTyped, Responses
  <1>20. ASSUME UNCHANGED httpsVars PROVE ResponseTyped'
    BY <1>20 DEF httpsVars, vars, ResponseTyped, Responses
  <1>21. QED
    BY <1>1, <1>2, <1>3, <1>4, <1>5, <1>6, <1>7, <1>8, <1>9, <1>10,
       <1>11, <1>12, <1>13, <1>14, <1>15, <1>16, <1>17, <1>18, <1>19, <1>20 DEF HttpsNext, Next

\* Every step keeps the types.
LEMMA TypedKept ==
    Typed /\ ResponseTyped /\ [HttpsNext]_httpsVars => Typed'
  <1> SUFFICES ASSUME Typed, ResponseTyped, [HttpsNext]_httpsVars
               PROVE  Typed'
    OBVIOUS
  <1>1. ASSUME Begin PROVE Typed'
    BY <1>1, HttpAssumption DEF Begin, Typed, InFetch, Ledgers, Requests, NoRequest
  <1>2. ASSUME NEW r \in Requests, Fetch(r)
        PROVE  Typed'
    BY SMTT(30), <1>2, HttpAssumption DEF Fetch, Typed, InFetch, Ledgers, Requests, NoRequest
  <1>3. ASSUME Attempt PROVE Typed'
    <2>1. request \in Requests /\ request.url \in Urls
      BY <1>3 DEF Attempt, Typed, InFetch, Requests
    <2>2. hops' = hops \/ hops' = <<request.url>>
      BY <1>3 DEF Attempt, End
    <2>3. hops' \in Seq(Urls)
      <3>1. hops \in Seq(Urls)
        BY DEF Typed
      <3>2. <<request.url>> \in Seq(Urls)
        BY <2>1
      <3>3. QED
        BY <2>2, <3>1, <3>2
    <2>4. (budget # NoBudget => budget \in Ledgers /\ budget.remaining <= budget.max)'
      BY <1>3 DEF Attempt, Charged, Ledgers, Typed
    <2>5. pc' \in {"sent", "done"} /\ UNCHANGED <<request, fetches, sends>>
      BY <1>3 DEF Attempt, End
    <2>6. retry' \in BOOLEAN
      BY <1>3 DEF Attempt, Typed
    <2>7. replays' \in Nat
      BY <1>3 DEF Attempt, Typed
    <2>8. QED
      BY <2>1, <2>3, <2>4, <2>5, <2>6, <2>7 DEF Typed, InFetch
  <1>4. ASSUME Connect PROVE Typed'
    BY <1>4, HttpAssumption DEF Connect, End, Typed, InFetch, Ledgers, Requests, NoRequest
  <1>5. ASSUME Headers PROVE Typed'
    BY <1>5, HttpAssumption DEF Headers, End, Typed, InFetch, Ledgers, Requests, NoRequest
  <1>6. ASSUME BodyEnds PROVE Typed'
    BY <1>6, HttpAssumption DEF BodyEnds, Decide, End, Typed, InFetch, Ledgers, Requests, NoRequest
  <1>7. ASSUME Fail PROVE Typed'
    BY <1>7, HttpAssumption DEF Fail, End, Typed, InFetch, Ledgers, Requests, NoRequest
  <1>8. ASSUME NEW url \in Urls, Redirected(url)
        PROVE  Typed'
    <2>1. hops' = hops \/ hops' = Append(hops, url)
      BY <1>8 DEF Redirected
    <2>2. hops' \in Seq(Urls)
      BY <2>1 DEF Typed
    <2>3. /\ pc' \in {"sent", "done"} /\ pc = "answered"
          /\ UNCHANGED <<request, retry, budget, fetches, sends, replays>>
      BY <1>8 DEF Redirected, End
    <2>4. QED
      BY <2>2, <2>3 DEF Typed, InFetch
  <1>9. ASSUME NEW n \in ChunkSizes, Chunk(n)
        PROVE  Typed'
    BY <1>9, HttpAssumption DEF Chunk, Typed, InFetch, Ledgers, Requests, NoRequest
  <1>10. ASSUME NEW n \in ChunkSizes, BodyCut(n)
        PROVE  Typed'
    BY <1>10, HttpAssumption DEF BodyCut, Decide, End, Typed, InFetch, Ledgers, Requests, NoRequest
  <1>11. ASSUME WaitEnds PROVE Typed'
    BY <1>11, HttpAssumption DEF WaitEnds, End, Typed, InFetch, Ledgers, Requests, NoRequest
  <1>12. ASSUME ObserveCancel PROVE Typed'
    BY <1>12, HttpAssumption DEF ObserveCancel, End, Typed, InFetch, Ledgers, Requests, NoRequest
  <1>13. ASSUME TimesOut PROVE Typed'
    BY <1>13, HttpAssumption DEF TimesOut, End, Late, Typed, InFetch, Ledgers, Requests, NoRequest
  <1>14. ASSUME Admit PROVE Typed'
    <2>1. (budget # NoBudget => budget \in Ledgers /\ budget.remaining <= budget.max)'
      <3>1. Admitted \in Nat
        BY <1>14 DEF Admitted, ResponseTyped, Responses
      <3>2. QED
        BY <1>14, <3>1 DEF Admit, Ledgers, Typed
    <2>2. /\ pc' \in {"between", "done"}
          /\ UNCHANGED <<request, retry, hops, fetches, sends, replays>>
      BY <1>14 DEF Admit, End
    <2>3. QED
      BY <2>1, <2>2 DEF Typed, InFetch
  <1>15. ASSUME Leave PROVE Typed'
    BY <1>15, HttpAssumption DEF Leave, Typed, InFetch, Ledgers, Requests, NoRequest
  <1>16. ASSUME Tick PROVE Typed'
    BY <1>16, HttpAssumption DEF Tick, Typed, InFetch, Ledgers, Requests, NoRequest
  <1>17. ASSUME Cancel PROVE Typed'
    BY <1>17, HttpAssumption DEF Cancel, Typed, InFetch, Ledgers, Requests, NoRequest
  <1>18. ASSUME Finished PROVE Typed'
    BY <1>18, HttpAssumption DEF Finished, vars, Typed, InFetch, Ledgers, Requests, NoRequest
  <1>19. ASSUME Answer PROVE Typed'
    BY <1>19, HttpAssumption DEF Answer, Typed, InFetch, Ledgers, Requests, NoRequest
  <1>20. ASSUME UNCHANGED httpsVars PROVE Typed'
    BY <1>20 DEF httpsVars, vars, Typed, InFetch, Ledgers, Requests, NoRequest
  <1>21. QED
    BY <1>1, <1>2, <1>3, <1>4, <1>5, <1>6, <1>7, <1>8, <1>9, <1>10,
       <1>11, <1>12, <1>13, <1>14, <1>15, <1>16, <1>17, <1>18, <1>19, <1>20 DEF HttpsNext, Next

\* Every hop is allowed where it leads, and stays with the credentials of the first.
LEMMA HopsStep ==
    Typed /\ HopsKept /\ [HttpsNext]_httpsVars => HopsKept'
  <1> SUFFICES ASSUME Typed, HopsKept, [HttpsNext]_httpsVars
               PROVE  HopsKept'
    OBVIOUS
  <1>1. ASSUME Begin PROVE HopsKept'
    BY <1>1 DEF Begin, HopsKept
  <1>2. ASSUME NEW r \in Requests, Fetch(r)
        PROVE  HopsKept'
    BY <1>2 DEF Fetch, HopsKept
  <1>3. ASSUME Attempt PROVE HopsKept'
    <2>1. CASE pc' = "sent"
      <3>1. /\ EgressAllowed(request.url) /\ hops' = <<request.url>>
            /\ UNCHANGED request
        BY <1>3, <2>1 DEF Attempt, End
      <3>2. Last(hops') = hops'[1] /\ Len(hops') = 1 /\ hops' # <<>> /\ hops'[1] = request.url
        BY <3>1 DEF Last
      <3>3. QED
        BY <3>1, <3>2 DEF HopsKept, EgressAllowed
    <2>2. CASE pc' # "sent"
      <3>1. pc' \in {"done"}
        BY <1>3, <2>2 DEF Attempt, End
      <3>2. QED
        BY <3>1 DEF HopsKept
    <2>3. QED
      BY <2>1, <2>2
  <1>4. ASSUME Connect PROVE HopsKept'
    BY <1>4 DEF Connect, End, HopsKept
  <1>5. ASSUME Headers PROVE HopsKept'
    BY <1>5 DEF Headers, End, HopsKept
  <1>6. ASSUME BodyEnds PROVE HopsKept'
    BY <1>6 DEF BodyEnds, Decide, End, HopsKept
  <1>7. ASSUME Fail PROVE HopsKept'
    BY <1>7 DEF Fail, End, HopsKept
  <1>8. ASSUME NEW url \in Urls, Redirected(url)
        PROVE  HopsKept'
    <2>1. CASE HopAllowed(hops, url)
      <3>1. /\ hops' = Append(hops, url) /\ UNCHANGED request
            /\ request.redirect = "FollowReads" /\ hops # <<>>
        BY <1>8, <2>1 DEF Redirected, HopsKept
      <3>2. hops \in Seq(Urls)
        BY DEF Typed
      <3>3. hops' # <<>> /\ Last(hops') = url /\ hops'[1] = hops[1]
        BY <3>1, <3>2 DEF Last
      <3>4. QED
        BY <2>1, <3>1, <3>3 DEF HopsKept, HopAllowed
    <2>2. CASE ~HopAllowed(hops, url)
      BY <1>8, <2>2 DEF Redirected, End, HopsKept
    <2>3. QED
      BY <2>1, <2>2
  <1>9. ASSUME NEW n \in ChunkSizes, Chunk(n)
        PROVE  HopsKept'
    BY <1>9 DEF Chunk, HopsKept
  <1>10. ASSUME NEW n \in ChunkSizes, BodyCut(n)
        PROVE  HopsKept'
    BY <1>10 DEF BodyCut, Decide, End, HopsKept
  <1>11. ASSUME WaitEnds PROVE HopsKept'
    BY <1>11 DEF WaitEnds, End, HopsKept
  <1>12. ASSUME ObserveCancel PROVE HopsKept'
    BY <1>12 DEF ObserveCancel, End, HopsKept
  <1>13. ASSUME TimesOut PROVE HopsKept'
    BY <1>13 DEF TimesOut, End, Late, HopsKept
  <1>14. ASSUME Admit PROVE HopsKept'
    BY <1>14 DEF Admit, End, HopsKept
  <1>15. ASSUME Leave PROVE HopsKept'
    BY <1>15 DEF Leave, HopsKept
  <1>16. ASSUME Tick PROVE HopsKept'
    BY <1>16 DEF Tick, HopsKept
  <1>17. ASSUME Cancel PROVE HopsKept'
    BY <1>17 DEF Cancel, HopsKept
  <1>18. ASSUME Finished PROVE HopsKept'
    BY <1>18 DEF Finished, vars, HopsKept
  <1>19. ASSUME Answer PROVE HopsKept'
    BY <1>19 DEF Answer, HopsKept
  <1>20. ASSUME UNCHANGED httpsVars PROVE HopsKept'
    BY <1>20 DEF httpsVars, vars, HopsKept
  <1>21. QED
    BY <1>1, <1>2, <1>3, <1>4, <1>5, <1>6, <1>7, <1>8, <1>9, <1>10,
       <1>11, <1>12, <1>13, <1>14, <1>15, <1>16, <1>17, <1>18, <1>19, <1>20 DEF HttpsNext, Next

\* A set of numbers has a least one: the intervals below them are finite sets,
\* which strict inclusion orders well.
LEMMA LeastOf ==
    ASSUME NEW T \in SUBSET Nat, T # {}
    PROVE  \E x \in T : \A y \in T : x <= y
  <1> DEFINE Below == {1..x : x \in T}
  <1>1. IsWellFoundedOn(StrictSubsetOrdering(Nat), FiniteSubsetsOf(Nat))
    BY FS_StrictSubsetOrderingWellFounded
  <1>2. Below \subseteq FiniteSubsetsOf(Nat) /\ Below # {}
    <2>1. \A x \in T : 1..x \subseteq Nat /\ IsFiniteSet(1..x)
      BY FS_Interval
    <2>2. QED
      BY <2>1 DEF FiniteSubsetsOf
  <1>3. PICK b \in Below : \A c \in Below : <<c, b>> \notin StrictSubsetOrdering(Nat)
    <2> HIDE DEF Below
    <2>1. QED
      BY <1>1, <1>2, WFMin
  <1>4. PICK x \in T : b = 1..x
    BY <1>3
  <1>5. ASSUME NEW y \in T, y < x
        PROVE  FALSE
    <2>1. 1..y \in Below /\ 1..y \subseteq 1..x /\ x \in 1..x /\ x \notin 1..y /\ 1..x \subseteq Nat
      BY <1>5
    <2>2. <<1..y, 1..x>> \in StrictSubsetOrdering(Nat)
      BY <2>1 DEF StrictSubsetOrdering
    <2>3. QED
      BY <1>3, <1>4, <2>1, <2>2
  <1>6. QED
    BY <1>5

\* The credential chosen for a URL is one of an origin that owns it.
LEMMA CredentialChosen ==
    ASSUME NEW url
    PROVE  \/ CredentialFor(url) = NoCredential
           \/ \E i \in 1..Len(Credentials) :
                 /\ CredentialFor(url) = Credentials[i].name
                 /\ Authorizes(Credentials[i].origin, url)
  <1> DEFINE owners == {i \in 1..Len(Credentials) : Authorizes(Credentials[i].origin, url)}
             first == CHOOSE i \in owners : \A j \in owners : i <= j
  <1>1. CASE owners = {}
    BY <1>1 DEF CredentialFor
  <1>2. CASE owners # {}
    <2>1. owners \subseteq Nat
      OBVIOUS
    <2>2. \E i \in owners : \A j \in owners : i <= j
      <3>1. owners \in SUBSET Nat /\ owners # {}
        BY <1>2, <2>1
      <3>2. QED
        BY <3>1, LeastOf
    <2>3. first \in owners
      BY <2>2
    <2>4. CredentialFor(url) = Credentials[first].name
      BY <1>2 DEF CredentialFor
    <2>5. QED
      BY <2>3, <2>4
  <1>3. QED
    BY <1>1, <1>2

\* What is connected was admitted, at the first URL and at every hop.
LEMMA ConnectionStep ==
    Typed /\ HopsKept /\ ConnectionAdmitted /\ [HttpsNext]_httpsVars => ConnectionAdmitted'
  <1> SUFFICES ASSUME Typed, HopsKept, ConnectionAdmitted, [HttpsNext]_httpsVars
               PROVE  ConnectionAdmitted'
    OBVIOUS
  <1>1. ASSUME Begin PROVE ConnectionAdmitted'
    BY <1>1 DEF Begin, ConnectionAdmitted
  <1>2. ASSUME NEW r \in Requests, Fetch(r)
        PROVE  ConnectionAdmitted'
    BY <1>2 DEF Fetch, ConnectionAdmitted
  <1>3. ASSUME Attempt PROVE ConnectionAdmitted'
    BY <1>3 DEF Attempt, Charged, End, Late, ConnectionAdmitted
  <1>4. ASSUME Connect PROVE ConnectionAdmitted'
    <2> DEFINE url == Last(hops)
    <2>1. /\ hops \in Seq(Urls) /\ hops # <<>> /\ Allowed(url) /\ LiteralAdmitted(url)
          /\ \A i \in 1..Len(Credentials) :
                Authorizes(Credentials[i].origin, hops[1]) => Authorizes(Credentials[i].origin, url)
      BY <1>4 DEF Connect, Typed, HopsKept
    <2>2. url \in Urls
      BY <2>1 DEF Last
    <2>3. CASE connection' = connection
      BY <2>3 DEF ConnectionAdmitted
    <2>4. ASSUME NEW a, connection' = [url |-> url, address |-> a, credential |-> CredentialFor(hops[1])],
                 \/ a = Literal[url.host] /\ a # NoAddress
                 \/ a \in Addresses /\ Admits(url.host, a)
          PROVE  ConnectionAdmitted'
      <3>1. /\ connection'.url = url /\ connection'.address = a
            /\ connection'.credential = CredentialFor(hops[1])
        BY <2>4
      <3>2. a # NoAddress /\ Admits(url.host, a)
        BY <2>1, <2>4, AddressAssumption DEF LiteralAdmitted, NoAddress
      <3>3. \/ CredentialFor(hops[1]) = NoCredential
            \/ \E i \in 1..Len(Credentials) :
                  /\ CredentialFor(hops[1]) = Credentials[i].name
                  /\ Authorizes(Credentials[i].origin, url)
        BY <2>1, CredentialChosen
      <3>4. QED
        BY <2>1, <2>2, <2>4, <3>1, <3>2, <3>3 DEF ConnectionAdmitted
    <2>5. \/ connection' = connection
          \/ \E a : /\ connection' = [url |-> url, address |-> a, credential |-> CredentialFor(hops[1])]
                    /\ \/ a = Literal[url.host] /\ a # NoAddress
                       \/ a \in Addresses /\ Admits(url.host, a)
      <3>1. PICK resolved \in IF Literal[url.host] # NoAddress THEN {{Literal[url.host]}}
                              ELSE {s \in SUBSET Addresses : Cardinality(s) <= 2} :
               IF \/ resolved = {}
                  \/ Literal[url.host] = NoAddress /\ \E a \in resolved : ~Admits(url.host, a)
               THEN connection' = connection
               ELSE \E a \in resolved :
                      connection' = [url |-> url, address |-> a, credential |-> CredentialFor(hops[1])]
        BY <1>4 DEF Connect
      <3>2. QED
        BY <3>1
    <2>6. QED
      BY <2>3, <2>4, <2>5
  <1>5. ASSUME Headers PROVE ConnectionAdmitted'
    BY <1>5 DEF Headers, End, ConnectionAdmitted
  <1>6. ASSUME BodyEnds PROVE ConnectionAdmitted'
    BY <1>6 DEF BodyEnds, Decide, End, ConnectionAdmitted
  <1>7. ASSUME Fail PROVE ConnectionAdmitted'
    BY <1>7 DEF Fail, End, ConnectionAdmitted
  <1>8. ASSUME NEW url \in Urls, Redirected(url)
        PROVE  ConnectionAdmitted'
    BY <1>8 DEF Redirected, End, ConnectionAdmitted
  <1>9. ASSUME NEW n \in ChunkSizes, Chunk(n)
        PROVE  ConnectionAdmitted'
    BY <1>9 DEF Chunk, ConnectionAdmitted
  <1>10. ASSUME NEW n \in ChunkSizes, BodyCut(n)
        PROVE  ConnectionAdmitted'
    BY <1>10 DEF BodyCut, Decide, End, ConnectionAdmitted
  <1>11. ASSUME WaitEnds PROVE ConnectionAdmitted'
    BY <1>11 DEF WaitEnds, End, ConnectionAdmitted
  <1>12. ASSUME ObserveCancel PROVE ConnectionAdmitted'
    BY <1>12 DEF ObserveCancel, End, ConnectionAdmitted
  <1>13. ASSUME TimesOut PROVE ConnectionAdmitted'
    BY <1>13 DEF TimesOut, End, Late, ConnectionAdmitted
  <1>14. ASSUME Admit PROVE ConnectionAdmitted'
    BY <1>14 DEF Admit, End, ConnectionAdmitted
  <1>15. ASSUME Leave PROVE ConnectionAdmitted'
    BY <1>15 DEF Leave, ConnectionAdmitted
  <1>16. ASSUME Tick PROVE ConnectionAdmitted'
    BY <1>16 DEF Tick, ConnectionAdmitted
  <1>17. ASSUME Cancel PROVE ConnectionAdmitted'
    BY <1>17 DEF Cancel, ConnectionAdmitted
  <1>18. ASSUME Finished PROVE ConnectionAdmitted'
    BY <1>18 DEF Finished, vars, ConnectionAdmitted
  <1>19. ASSUME Answer PROVE ConnectionAdmitted'
    BY <1>19 DEF Answer, ConnectionAdmitted
  <1>20. ASSUME UNCHANGED httpsVars PROVE ConnectionAdmitted'
    BY <1>20 DEF httpsVars, vars, ConnectionAdmitted
  <1>21. QED
    BY <1>1, <1>2, <1>3, <1>4, <1>5, <1>6, <1>7, <1>8, <1>9, <1>10,
       <1>11, <1>12, <1>13, <1>14, <1>15, <1>16, <1>17, <1>18, <1>19, <1>20 DEF HttpsNext, Next

\* A fetch is tried twice at most, and a mutation once.
LEMMA AttemptsStep ==
    Typed /\ AttemptsCounted /\ [HttpsNext]_httpsVars => AttemptsCounted'
  <1> SUFFICES ASSUME Typed, AttemptsCounted, [HttpsNext]_httpsVars
               PROVE  AttemptsCounted'
    OBVIOUS
  <1>1. ASSUME Begin PROVE AttemptsCounted'
    BY <1>1 DEF Begin, Typed, InFetch, AttemptsCounted, Attempting
  <1>2. ASSUME NEW r \in Requests, Fetch(r)
        PROVE  AttemptsCounted'
    BY <1>2 DEF Fetch, AttemptsCounted, InFetch, Attempting
  <1>3. ASSUME Attempt PROVE AttemptsCounted'
    <2>1. /\ pc = "head" /\ replays \in Nat /\ InFetch /\ UNCHANGED request
      BY <1>3 DEF Attempt, Typed, InFetch
    <2>2. \/ pc' = "done" /\ replays' \in {replays, replays + 1}
          \/ pc' = "sent" /\ replays' = replays + 1 /\ (retry' => retry)
      BY <1>3 DEF Attempt, End
    <2>3. QED
      BY <2>1, <2>2 DEF AttemptsCounted, InFetch, Attempting
  <1>4. ASSUME Connect PROVE AttemptsCounted'
    <2>1. pc = "sent" /\ pc' \in {"answered", "done"} /\ UNCHANGED <<request, retry, replays>>
      BY <1>4 DEF Connect, End
    <2>2. QED
      BY <2>1 DEF AttemptsCounted, InFetch, Attempting
  <1>5. ASSUME Headers PROVE AttemptsCounted'
    BY <1>5 DEF Headers, End, Typed, InFetch, AttemptsCounted, Attempting
  <1>6. ASSUME BodyEnds PROVE AttemptsCounted'
    BY <1>6 DEF BodyEnds, Decide, End, Typed, InFetch, AttemptsCounted, Attempting
  <1>7. ASSUME Fail PROVE AttemptsCounted'
    BY <1>7 DEF Fail, End, Typed, InFetch, AttemptsCounted, Attempting
  <1>8. ASSUME NEW url \in Urls, Redirected(url)
        PROVE  AttemptsCounted'
    BY <1>8 DEF Redirected, End, Typed, InFetch, AttemptsCounted, Attempting
  <1>9. ASSUME NEW n \in ChunkSizes, Chunk(n)
        PROVE  AttemptsCounted'
    BY <1>9 DEF Chunk, Typed, InFetch, AttemptsCounted, Attempting
  <1>10. ASSUME NEW n \in ChunkSizes, BodyCut(n)
        PROVE  AttemptsCounted'
    BY <1>10 DEF BodyCut, Decide, End, Typed, InFetch, AttemptsCounted, Attempting
  <1>11. ASSUME WaitEnds PROVE AttemptsCounted'
    <2>1. /\ pc = "wait" /\ UNCHANGED <<replays, request>>
          /\ pc' = "done" \/ (pc' = "head" /\ retry' = FALSE)
      BY <1>11 DEF WaitEnds, End
    <2>2. QED
      BY <2>1 DEF AttemptsCounted, InFetch, Attempting
  <1>12. ASSUME ObserveCancel PROVE AttemptsCounted'
    BY <1>12 DEF ObserveCancel, End, Typed, InFetch, AttemptsCounted, Attempting
  <1>13. ASSUME TimesOut PROVE AttemptsCounted'
    BY <1>13 DEF TimesOut, End, Late, Typed, InFetch, AttemptsCounted, Attempting
  <1>14. ASSUME Admit PROVE AttemptsCounted'
    BY <1>14 DEF Admit, End, Typed, InFetch, AttemptsCounted, Attempting
  <1>15. ASSUME Leave PROVE AttemptsCounted'
    BY <1>15 DEF Leave, Typed, InFetch, AttemptsCounted, Attempting
  <1>16. ASSUME Tick PROVE AttemptsCounted'
    BY <1>16 DEF Tick, Typed, InFetch, AttemptsCounted, Attempting
  <1>17. ASSUME Cancel PROVE AttemptsCounted'
    BY <1>17 DEF Cancel, Typed, InFetch, AttemptsCounted, Attempting
  <1>18. ASSUME Finished PROVE AttemptsCounted'
    BY <1>18 DEF Finished, vars, Typed, InFetch, AttemptsCounted, Attempting
  <1>19. ASSUME Answer PROVE AttemptsCounted'
    BY <1>19 DEF Answer, Typed, InFetch, AttemptsCounted, Attempting
  <1>20. ASSUME UNCHANGED httpsVars PROVE AttemptsCounted'
    BY <1>20 DEF httpsVars, vars, Typed, InFetch, AttemptsCounted, Attempting
  <1>21. QED
    BY <1>1, <1>2, <1>3, <1>4, <1>5, <1>6, <1>7, <1>8, <1>9, <1>10,
       <1>11, <1>12, <1>13, <1>14, <1>15, <1>16, <1>17, <1>18, <1>19, <1>20 DEF HttpsNext, Next

\* The retry of a budget is spent where the fetch goes on to its second attempt.
LEMMA RetrySpent ==
    ASSUME Typed, BudgetKept, Attempting, retry,
           (pc' = "head" /\ retry' = FALSE) \/ pc' = "wait",
           budget' = IF budget = NoBudget THEN NoBudget ELSE [budget EXCEPT !.retry = FALSE],
           UNCHANGED <<sends, fetches, request>>
    PROVE  BudgetKept'
  <1>1. CASE budget = NoBudget
    BY <1>1 DEF BudgetKept
  <1>2. CASE budget # NoBudget
    <2>1. /\ budget'.max = budget.max /\ budget'.remaining = budget.remaining
          /\ budget'.retry = FALSE /\ budget'.bytes = budget.bytes
          /\ budget'.accepted = budget.accepted
      BY <1>2 DEF Typed, Ledgers
    <2>2. Charges' = Charges /\ budget.retry /\ InFetch
      BY <1>2, <2>1 DEF Charges, BudgetKept, Attempting, InFetch
    <2>3. QED
      BY <1>2, <2>1, <2>2 DEF BudgetKept, InFetch, Attempting
  <1>3. QED
    BY <1>1, <1>2

\* An attempt is charged before it is sent, and a retry spends the one there is.
LEMMA LedgerStep ==
    Typed /\ ResponseTyped /\ AttemptsCounted /\ Unsent /\ BudgetKept /\ [HttpsNext]_httpsVars => BudgetKept'
  <1> SUFFICES ASSUME Typed, ResponseTyped, AttemptsCounted, Unsent, BudgetKept, [HttpsNext]_httpsVars
               PROVE  BudgetKept'
    OBVIOUS
  <1>1. ASSUME Begin PROVE BudgetKept'
    <2>1. /\ pc' = "between" /\ UNCHANGED <<fetches, sends, retry>> /\ sends = 0 /\ fetches \in Nat
          /\ retry = FALSE
      BY <1>1 DEF Begin, Unsent, Typed
    <2>2. ASSUME budget' # NoBudget
          PROVE  /\ budget'.retry = TRUE /\ Charges' = 0 /\ budget'.accepted <= budget'.bytes
      <3>1. PICK b \in Budgets :
               budget' = IF b = NoBudget THEN NoBudget
                         ELSE [max |-> b.attempts, remaining |-> b.attempts,
                               bytes |-> b.bytes, accepted |-> 0, retry |-> TRUE]
        BY <1>1 DEF Begin
      <3>2. b \in [attempts : Nat, bytes : Nat]
        BY HttpAssumption
      <3>3. budget' = [max |-> b.attempts, remaining |-> b.attempts,
                       bytes |-> b.bytes, accepted |-> 0, retry |-> TRUE]
        BY <2>2, <3>1
      <3>4. QED
        BY <3>2, <3>3 DEF Charges
    <2>3. QED
      BY <2>1, <2>2 DEF BudgetKept, InFetch, Attempting
  <1>2. ASSUME NEW r \in Requests, Fetch(r)
        PROVE  BudgetKept'
    <2>1. /\ pc = "between" /\ pc' = "head" /\ fetches' = fetches + 1 /\ UNCHANGED <<budget, sends>>
          /\ budget # NoBudget => (retry' => budget.retry)
          /\ budget # NoBudget => request'.redirect = "Refuse"
      BY <1>2 DEF Fetch, Requests
    <2>2. QED
      BY <2>1 DEF Typed, Ledgers, BudgetKept, InFetch, Attempting, Charges
  <1>3. ASSUME Attempt PROVE BudgetKept'
    <2>1. CASE pc' = "done" /\ UNCHANGED <<budget, sends, fetches>>
      BY <2>1 DEF BudgetKept, InFetch, Attempting, Charges
    <2>2. CASE /\ budget' = Charged /\ (budget # NoBudget => budget.remaining > 0)
               /\ pc = "head" /\ pc' \in {"sent", "done"}
               /\ (retry' => retry) /\ UNCHANGED <<sends, fetches, request>>
      <3>1. CASE budget = NoBudget
        BY <2>2, <3>1 DEF Charged, BudgetKept
      <3>2. CASE budget # NoBudget
        <4>1. /\ budget'.max = budget.max /\ budget'.remaining = budget.remaining - 1
              /\ budget'.retry = budget.retry /\ budget'.bytes = budget.bytes
              /\ budget'.accepted = budget.accepted
          BY <2>2, <3>2 DEF Charged, Typed, Ledgers
        <4>2. Charges' = Charges + 1 /\ Charges \in Int
          BY <3>2, <4>1 DEF Charges, Typed, Ledgers
        <4>3. QED
          BY <2>2, <3>2, <4>1, <4>2 DEF BudgetKept, InFetch, Attempting, Typed
      <3>3. QED
        BY <3>1, <3>2
    <2>3. QED
      BY <1>3, <2>1, <2>2 DEF Attempt, End
  <1>4. ASSUME Connect PROVE BudgetKept'
    <2>1. /\ pc = "sent" /\ UNCHANGED <<budget, fetches, retry, request>>
          /\ \/ pc' = "answered" /\ sends' = sends + 1
             \/ pc' = "done" /\ sends' = sends
      BY <1>4 DEF Connect, End
    <2>2. QED
      BY <2>1 DEF BudgetKept, InFetch, Attempting, Charges, Typed, Ledgers
  <1>5. ASSUME Headers PROVE BudgetKept'
    BY <1>5 DEF Headers, End, Typed, InFetch, Attempting, Ledgers, Charges, BudgetKept
  <1>6. ASSUME BodyEnds PROVE BudgetKept'
    <2>1. CASE pc' \in {"done", "between"} /\ UNCHANGED <<budget, sends, fetches>>
      BY <2>1 DEF BudgetKept, InFetch, Attempting, Charges
    <2>2. CASE /\ Attempting /\ retry /\ pc' = "wait"
               /\ budget' = IF budget = NoBudget THEN NoBudget ELSE [budget EXCEPT !.retry = FALSE]
               /\ UNCHANGED <<sends, fetches, request>>
      BY <2>2, RetrySpent
    <2>3. QED
      BY <1>6, <2>1, <2>2 DEF BodyEnds, Decide, End, Attempting
  <1>7. ASSUME Fail PROVE BudgetKept'
    <2>1. CASE pc' = "done" /\ UNCHANGED <<budget, sends, fetches>>
      BY <2>1 DEF BudgetKept, InFetch, Attempting, Charges
    <2>2. CASE /\ Attempting /\ retry /\ retry' = FALSE /\ pc' = "head"
               /\ budget' = IF budget = NoBudget THEN NoBudget ELSE [budget EXCEPT !.retry = FALSE]
               /\ UNCHANGED <<sends, fetches, request>>
      BY <2>2, RetrySpent
    <2>3. QED
      BY <1>7, <2>1, <2>2 DEF Fail, End, Attempting
  <1>8. ASSUME NEW url \in Urls, Redirected(url)
        PROVE  BudgetKept'
    <2>1. /\ pc = "answered" /\ request.redirect # "Refuse" /\ UNCHANGED budget
      BY <1>8 DEF Redirected
    <2>2. budget = NoBudget
      BY <2>1 DEF BudgetKept, InFetch
    <2>3. QED
      BY <2>1, <2>2 DEF BudgetKept
  <1>9. ASSUME NEW n \in ChunkSizes, Chunk(n)
        PROVE  BudgetKept'
    BY <1>9 DEF Chunk, Typed, InFetch, Attempting, Ledgers, Charges, BudgetKept
  <1>10. ASSUME NEW n \in ChunkSizes, BodyCut(n)
        PROVE  BudgetKept'
    <2>1. CASE pc' \in {"done", "between"} /\ UNCHANGED <<budget, sends, fetches>>
      BY <2>1 DEF BudgetKept, InFetch, Attempting, Charges
    <2>2. CASE /\ Attempting /\ retry /\ pc' = "wait"
               /\ budget' = IF budget = NoBudget THEN NoBudget ELSE [budget EXCEPT !.retry = FALSE]
               /\ UNCHANGED <<sends, fetches, request>>
      BY <2>2, RetrySpent
    <2>3. QED
      BY <1>10, <2>1, <2>2 DEF BodyCut, Decide, End, Attempting
  <1>11. ASSUME WaitEnds PROVE BudgetKept'
    <2>1. /\ pc = "wait" /\ UNCHANGED <<budget, sends, fetches, request>>
          /\ pc' = "done" \/ (pc' = "head" /\ retry' = FALSE)
      BY <1>11 DEF WaitEnds, End
    <2>2. QED
      BY <2>1 DEF BudgetKept, InFetch, Attempting, Charges
  <1>12. ASSUME ObserveCancel PROVE BudgetKept'
    <2>1. pc' = "done" /\ UNCHANGED <<budget, sends, fetches>>
      BY <1>12 DEF ObserveCancel, End
    <2>2. QED
      BY <2>1 DEF BudgetKept, InFetch, Attempting, Charges
  <1>13. ASSUME TimesOut PROVE BudgetKept'
    <2>1. pc' = "done" /\ UNCHANGED <<budget, sends, fetches>>
      BY <1>13 DEF TimesOut, End
    <2>2. QED
      BY <2>1 DEF BudgetKept, InFetch, Attempting, Charges
  <1>14. ASSUME Admit PROVE BudgetKept'
    <2> DEFINE over == Admitted > FetchBytes \/ Admitted > budget.bytes - budget.accepted
    <2>1. CASE over
      <3>1. pc' = "done" /\ UNCHANGED <<budget, sends, fetches>>
        BY <1>14, <2>1 DEF Admit, End
      <3>2. QED
        BY <3>1 DEF BudgetKept, InFetch, Attempting, Charges
    <2>2. CASE ~over
      <3>0. /\ budget # NoBudget /\ pc = "between"
            /\ budget' = [budget EXCEPT !.accepted = budget.accepted + Admitted]
            /\ UNCHANGED <<pc, sends, fetches>>
        <4>1. budget # NoBudget /\ pc = "between" /\ UNCHANGED <<sends, fetches>>
          BY <1>14 DEF Admit
        <4>2. pc' = pc
          BY <1>14, <2>2 DEF Admit
        <4>3. budget' = [budget EXCEPT !.accepted = budget.accepted + Admitted]
          BY <1>14, <2>2 DEF Admit
        <4>4. QED
          BY <4>1, <4>2, <4>3
      <3>1. Admitted \in Nat
        BY DEF Admitted, ResponseTyped, Responses
      <3>2. /\ budget'.max = budget.max /\ budget'.remaining = budget.remaining
            /\ budget'.retry = budget.retry /\ budget'.bytes = budget.bytes
        BY <3>0 DEF Typed, Ledgers
      <3>5. budget'.accepted = budget.accepted + Admitted
        BY <3>0 DEF Typed, Ledgers
      <3>3. budget'.accepted <= budget'.bytes
        BY <2>2, <3>0, <3>1, <3>2, <3>5 DEF Typed, Ledgers
      <3>4. QED
        BY <3>0, <3>2, <3>3 DEF BudgetKept, InFetch, Attempting, Charges
    <2>3. QED
      BY <2>1, <2>2
  <1>15. ASSUME Leave PROVE BudgetKept'
    BY <1>15 DEF Leave, Typed, InFetch, Attempting, Ledgers, Charges, BudgetKept
  <1>16. ASSUME Tick PROVE BudgetKept'
    BY <1>16 DEF Tick, Typed, InFetch, Attempting, Ledgers, Charges, BudgetKept
  <1>17. ASSUME Cancel PROVE BudgetKept'
    BY <1>17 DEF Cancel, Typed, InFetch, Attempting, Ledgers, Charges, BudgetKept
  <1>18. ASSUME Finished PROVE BudgetKept'
    BY <1>18 DEF Finished, vars, Typed, InFetch, Attempting, Ledgers, Charges, BudgetKept
  <1>19. ASSUME Answer PROVE BudgetKept'
    BY <1>19 DEF Answer, Typed, InFetch, Attempting, Ledgers, Charges, BudgetKept
  <1>20. ASSUME UNCHANGED httpsVars PROVE BudgetKept'
    BY <1>20 DEF httpsVars, vars, Typed, InFetch, Attempting, Ledgers, Charges, BudgetKept
  <1>21. QED
    BY <1>1, <1>2, <1>3, <1>4, <1>5, <1>6, <1>7, <1>8, <1>9, <1>10,
       <1>11, <1>12, <1>13, <1>14, <1>15, <1>16, <1>17, <1>18, <1>19, <1>20 DEF HttpsNext, Next

\* Nothing is sent before an operation begins.
LEMMA UnsentStep ==
    Unsent /\ [HttpsNext]_httpsVars => Unsent'
  <1> SUFFICES ASSUME Unsent, [HttpsNext]_httpsVars
               PROVE  Unsent'
    OBVIOUS
  <1>1. ASSUME Begin PROVE Unsent'
    BY <1>1 DEF Begin, Unsent
  <1>2. ASSUME NEW r \in Requests, Fetch(r)
        PROVE  Unsent'
    BY <1>2 DEF Fetch, Unsent
  <1>3. ASSUME Attempt PROVE Unsent'
    BY <1>3 DEF Attempt, Charged, End, Late, Unsent
  <1>4. ASSUME Connect PROVE Unsent'
    BY <1>4 DEF Connect, End, Unsent
  <1>5. ASSUME Headers PROVE Unsent'
    BY <1>5 DEF Headers, End, Unsent
  <1>6. ASSUME BodyEnds PROVE Unsent'
    BY <1>6 DEF BodyEnds, Decide, End, Unsent
  <1>7. ASSUME Fail PROVE Unsent'
    BY <1>7 DEF Fail, End, Unsent
  <1>8. ASSUME NEW url \in Urls, Redirected(url)
        PROVE  Unsent'
    BY <1>8 DEF Redirected, End, Unsent
  <1>9. ASSUME NEW n \in ChunkSizes, Chunk(n)
        PROVE  Unsent'
    BY <1>9 DEF Chunk, Unsent
  <1>10. ASSUME NEW n \in ChunkSizes, BodyCut(n)
        PROVE  Unsent'
    BY <1>10 DEF BodyCut, Decide, End, Unsent
  <1>11. ASSUME WaitEnds PROVE Unsent'
    BY <1>11 DEF WaitEnds, End, Unsent
  <1>12. ASSUME ObserveCancel PROVE Unsent'
    BY <1>12 DEF ObserveCancel, End, Unsent
  <1>13. ASSUME TimesOut PROVE Unsent'
    BY <1>13 DEF TimesOut, End, Late, Unsent
  <1>14. ASSUME Admit PROVE Unsent'
    BY <1>14 DEF Admit, End, Unsent
  <1>15. ASSUME Leave PROVE Unsent'
    BY <1>15 DEF Leave, Unsent
  <1>16. ASSUME Tick PROVE Unsent'
    BY <1>16 DEF Tick, Unsent
  <1>17. ASSUME Cancel PROVE Unsent'
    BY <1>17 DEF Cancel, Unsent
  <1>18. ASSUME Finished PROVE Unsent'
    BY <1>18 DEF Finished, vars, Unsent
  <1>19. ASSUME Answer PROVE Unsent'
    BY <1>19 DEF Answer, Unsent
  <1>20. ASSUME UNCHANGED httpsVars PROVE Unsent'
    BY <1>20 DEF httpsVars, vars, Unsent
  <1>21. QED
    BY <1>1, <1>2, <1>3, <1>4, <1>5, <1>6, <1>7, <1>8, <1>9, <1>10,
       <1>11, <1>12, <1>13, <1>14, <1>15, <1>16, <1>17, <1>18, <1>19, <1>20 DEF HttpsNext, Next

\* The first test that fails answers; a document passed them all.
LEMMA PassedAll ==
    ASSUME NEW tests, Len(tests) \in Nat, Refusals(tests) = "document",
           \A i \in 1..Len(tests) : tests[i] # "document"
    PROVE  \A i \in 1..Len(tests) : tests[i] = "none"
  <1> DEFINE failed == {i \in 1..Len(tests) : tests[i] # "none"}
  <1>1. CASE failed = {}
    BY <1>1
  <1>2. CASE failed # {}
    <2>1. failed \in SUBSET Nat
      OBVIOUS
    <2>2. \E i \in failed : \A j \in failed : i <= j
      BY <1>2, <2>1, LeastOf
    <2>3. (CHOOSE i \in failed : \A j \in failed : i <= j) \in failed
      BY <2>2
    <2>4. QED
      BY <1>2, <2>3 DEF Refusals
  <1>3. QED
    BY <1>1, <1>2

\* What is answered as a document is of a whole response that succeeded.
LEMMA DocumentsStep ==
    DocumentsWhole /\ [HttpsNext]_httpsVars => DocumentsWhole'
  <1> SUFFICES ASSUME DocumentsWhole, [HttpsNext]_httpsVars
               PROVE  DocumentsWhole'
    OBVIOUS
  <1>1. CASE UNCHANGED document
    BY <1>1 DEF DocumentsWhole
  <1>2. CASE Answer
    <2>1. PICK html \in BOOLEAN, utf8 \in BOOLEAN, raw \in BOOLEAN :
             document' = [answer |-> IF raw THEN Raw(response, utf8)
                                            ELSE Rendered(response, html, utf8),
                          raw |-> raw, of |-> response]
      BY <1>2 DEF Answer
    <2>2. Raw(response, utf8) = "document" => response.status = "ok"
      <3> DEFINE tests == <<StatusRefusal(response.status),
                            IF utf8 THEN "none" ELSE "unsupported_projection">>
      <3>1. Len(tests) = 2 /\ \A i \in 1..2 : tests[i] # "document"
        BY DEF StatusRefusal
      <3>2. Refusals(tests) = "document" => tests[1] = "none"
        <4> HIDE DEF tests
        <4>1. QED
          BY <3>1, PassedAll
      <3>3. QED
        BY <3>2 DEF Raw, StatusRefusal
    <2>3. Rendered(response, html, utf8) = "document" => response.status = "ok" /\ ~response.truncated
      <3> DEFINE tests == <<IF response.truncated THEN "limit_exceeded" ELSE "none",
                            SourceRefusal(html, utf8), StatusRefusal(response.status)>>
      <3>1. Len(tests) = 3 /\ \A i \in 1..3 : tests[i] # "document"
        BY DEF StatusRefusal, SourceRefusal
      <3>2. Refusals(tests) = "document" => tests[1] = "none" /\ tests[3] = "none"
        <4> HIDE DEF tests
        <4>1. QED
          BY <3>1, PassedAll
      <3>3. QED
        BY <3>2 DEF Rendered, StatusRefusal
    <2>4. QED
      BY <2>1, <2>2, <2>3 DEF DocumentsWhole
  <1>3. QED
    BY <1>1, <1>2 DEF HttpsNext, httpsVars

-----------------------------------------------------------------------------
(* The theorems *)

\* Nothing is requested, charged or received at the beginning.
LEMMA IInvInit == HttpsInit => IInv
  <1> SUFFICES ASSUME HttpsInit PROVE IInv
    OBVIOUS
  <1>1. Typed
    <2>1. pc = "idle" /\ request = NoRequest /\ hops = <<>> /\ budget = NoBudget /\ retry = FALSE
          /\ fetches = 0 /\ sends = 0 /\ replays = 0
      BY DEF HttpsInit, Init
    <2>2. hops \in Seq(Urls)
      BY <2>1
    <2>3. QED
      BY <2>1, <2>2 DEF Typed, InFetch
  <1>2. ResponseTyped
    BY NothingReceived DEF HttpsInit, Init, ResponseTyped
  <1>3. HopsKept /\ ConnectionAdmitted /\ AttemptsCounted /\ BudgetKept /\ Unsent
    BY DEF HttpsInit, Init, HopsKept, ConnectionAdmitted, AttemptsCounted, Attempting, InFetch,
           BudgetKept, Unsent
  <1>4. DocumentsWhole
    BY DEF HttpsInit, DocumentsWhole, Unanswered
  <1>5. QED
    BY <1>1, <1>2, <1>3, <1>4 DEF IInv

(* Every step of the substrate and of the source keeps the invariant. *)
LEMMA IInvStep == IInv /\ [HttpsNext]_httpsVars => IInv'
  BY TypedKept, ResponseKept, HopsStep, ConnectionStep, AttemptsStep, LedgerStep, UnsentStep,
     DocumentsStep DEF IInv

(* So the invariant holds in every state of every behaviour. *)
LEMMA Invariance == HttpsSpec => []IInv
  BY IInvInit, IInvStep, PTL DEF HttpsSpec

\* What is connected was admitted by Classify, which calls nothing public that
\* lies in a special-purpose block: over every URL, hop and resolution of
\* http/mod.rs.
THEOREM ConnectsWhereGrantedAlways == HttpsSpec => []ConnectsWhereGranted
  <1>1. IInv => ConnectsWhereGranted
    <2> SUFFICES ASSUME ConnectionAdmitted, connection # Unconnected
                 PROVE  /\ \E origin \in Allowlist : Authorizes(origin, connection.url)
                        /\ Special(connection.address)
                              => \A origin \in Allowlist :
                                    origin.host = connection.url.host => origin.grant
      BY DEF IInv, ConnectsWhereGranted
    <2>1. connection.url.host \in Hosts
      BY HttpAssumption DEF ConnectionAdmitted
    <2>2. /\ connection.address \in Addresses \/ connection.address = Literal[connection.url.host]
          /\ connection.address # NoAddress
      BY DEF ConnectionAdmitted
    <2>3. Special(connection.address) => IsRestricted(connection.address)
      BY <2>1, <2>2, PublicIsNotSpecial
    <2>4. QED
      BY <2>3 DEF ConnectionAdmitted, Allowed, Admits, Granted
  <1>2. QED
    BY Invariance, <1>1, PTL

\* A credential is sent to URLs of its own origin and no other, whatever hops
\* the client follows with the headers of the first request (http/mod.rs,
\* redirect_policy).
THEOREM CredentialsStayHomeAlways == HttpsSpec => []CredentialsStayHome
  <1>1. IInv => CredentialsStayHome
    <2> SUFFICES ASSUME ConnectionAdmitted, connection # Unconnected,
                        NEW i \in 1..Len(Credentials),
                        connection.credential = Credentials[i].name
                 PROVE  Authorizes(Credentials[i].origin, connection.url)
      BY DEF IInv, CredentialsStayHome
    <2>1. connection.credential # NoCredential
      BY CredentialAssumption
    <2>2. PICK j \in 1..Len(Credentials) :
             /\ connection.credential = Credentials[j].name
             /\ Authorizes(Credentials[j].origin, connection.url)
      BY <2>1 DEF ConnectionAdmitted
    <2>3. i = j
      BY <2>2, CredentialAssumption
    <2>4. QED
      BY <2>2, <2>3
  <1>2. QED
    BY Invariance, <1>1, PTL

\* The ledger of a budget covers the wire, whatever retries, timeouts and
\* cancellations fall in its fetches (http/read.rs, HttpReadBudget).
THEOREM LedgerCoversAlways == HttpsSpec => []LedgerCovers
  <1>1. IInv => LedgerCovers
    BY DEF IInv, AttemptsCounted, BudgetKept, Charges, LedgerCovers
  <1>2. QED
    BY Invariance, <1>1, PTL

\* A document is of a response that succeeded, and its Markdown is whole
\* (http/mod.rs, fetch_reader_mode).
THEOREM DocumentsWholeAlways == HttpsSpec => []DocumentsWhole
  <1>1. IInv => DocumentsWhole
    BY DEF IInv
  <1>2. QED
    BY Invariance, <1>1, PTL

\* A mutation reaches the wire once: it is not retried, waited for or
\* redirected (http/mod.rs, fetch_attempt).
THEOREM MutationsSentOnceAlways == HttpsSpec => MutationsSentOnce
  <1> DEFINE Once == request # NoRequest /\ request.intent = "Mutation" /\ sends' > sends /\ fetches' = fetches
                        => replays = 1 /\ Len(hops) = 1
  <1>1. IInv /\ [HttpsNext]_httpsVars => [Once]_vars
    <2> SUFFICES ASSUME IInv, HttpsNext, request.intent = "Mutation", sends' > sends
                 PROVE  replays = 1 /\ Len(hops) = 1
      BY DEF httpsVars, vars
    <2>1. Connect
      <3>1. sends \in Nat /\ sends' # sends
        BY DEF IInv, Typed
      <3>2. QED
        BY <3>1 DEF HttpsNext, Next, Begin, Fetch, Attempt, Headers, BodyEnds, Fail, Redirected,
             Chunk, BodyCut, WaitEnds, ObserveCancel, TimesOut, Admit, Leave, Tick, Cancel,
             Finished, vars, Answer
    <2>2. pc = "sent" /\ InFetch /\ request \in Requests
      BY <2>1 DEF Connect, InFetch, IInv, Typed
    <2>3. request.redirect = "Refuse"
      BY <2>2 DEF Requests
    <2>4. QED
      BY <2>2, <2>3 DEF IInv, AttemptsCounted, HopsKept
  <1>2. QED
    BY Invariance, <1>1, PTL DEF HttpsSpec, MutationsSentOnce
===============================================================================
