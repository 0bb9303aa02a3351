--------------------------- MODULE WorkspaceProofs ---------------------------
(***************************************************************************)
(* Proofs about the parts of Reads that answer from the workspace:          *)
(* following the continuations of a text delivers all of it, an edit does   *)
(* to its rows what its hunks say; and a walk reports what its filters      *)
(* admit, and passes nothing over in silence.                               *)
(***************************************************************************)
EXTENDS Reads, FiniteSetTheorems, SequenceTheorems, WellFoundedInduction, TLAPS

-----------------------------------------------------------------------------
(* Numbers and orders: what ReadsProofs has too, as neither extends the other *)

\* A set of numbers has a least one: the intervals below them are finite sets,
\* which strict inclusion orders well.
LEMMA LeastOf ==
    ASSUME NEW T \in SUBSET Nat, T # {}
    PROVE  \E x \in T : \A y \in T : x <= y
  <1> DEFINE Below == {1..x : x \in T}
  <1>1. IsWellFoundedOn(StrictSubsetOrdering(Nat), FiniteSubsetsOf(Nat))
    BY FS_StrictSubsetOrderingWellFounded
  <1>2. Below \subseteq FiniteSubsetsOf(Nat) /\ Below # {}
    <2>1. \A x \in T : 1..x \subseteq Nat /\ IsFiniteSet(1..x)
      BY FS_Interval
    <2>2. QED
      BY <2>1 DEF FiniteSubsetsOf
  <1>3. PICK b \in Below : \A c \in Below : <<c, b>> \notin StrictSubsetOrdering(Nat)
    <2> HIDE DEF Below
    <2>1. QED
      BY <1>1, <1>2, WFMin
  <1>4. PICK x \in T : b = 1..x
    BY <1>3
  <1>5. ASSUME NEW y \in T, y < x
        PROVE  FALSE
    <2>1. 1..y \in Below /\ 1..y \subseteq 1..x /\ x \in 1..x /\ x \notin 1..y /\ 1..x \subseteq Nat
      BY <1>5
    <2>2. <<1..y, 1..x>> \in StrictSubsetOrdering(Nat)
      BY <2>1 DEF StrictSubsetOrdering
    <2>3. QED
      BY <1>3, <1>4, <2>1, <2>2
  <1>6. QED
    BY <1>5

\* And a greatest one, where it has a bound.
LEMMA GreatestIn ==
    ASSUME NEW N \in Nat, NEW S \in SUBSET (0..N), S # {}
    PROVE  \E x \in S : \A y \in S : x >= y
  <1> DEFINE T == {N - x : x \in S}
  <1>1. T \in SUBSET Nat /\ T # {}
    <2>1. \A x \in S : x \in 0..N /\ N - x \in Nat
      OBVIOUS
    <2>2. QED
      BY <2>1
  <1>2. PICK z \in T : \A y \in T : z <= y
    <2> HIDE DEF T
    <2>1. QED
      BY <1>1, LeastOf
  <1>3. PICK x \in S : z = N - x
    BY <1>2
  <1>4. ASSUME NEW y \in S
        PROVE  x >= y
    <2>1. N - y \in T /\ x \in 0..N /\ y \in 0..N
      OBVIOUS
    <2>2. N - x <= N - y
      <3> HIDE DEF T
      <3>1. QED
        BY <1>2, <1>3, <2>1
    <2>3. QED
      BY <2>1, <2>2
  <1>5. QED
    BY <1>4

\* A bijection, said in full.
LEMMA Bijects ==
    ASSUME NEW S, NEW T, NEW f
    PROVE  f \in Bijection(S, T) <=>
             /\ f \in [S -> T]
             /\ \A a, b \in S : f[a] = f[b] => a = b
             /\ \A t \in T : \E s \in S : f[s] = t
  BY DEF Bijection, Injection, Surjection, IsInjective

\* R puts the elements of S in one order, all of them.
Orders(R, S) ==
    /\ \A a \in S : <<a, a>> \notin R
    /\ \A a, b, c \in S : <<a, b>> \in R /\ <<b, c>> \in R => <<a, c>> \in R
    /\ \A a, b \in S : a = b \/ <<a, b>> \in R \/ <<b, a>> \in R

\* In an order every element has a place of its own.
LEMMA PlacesTaken ==
    ASSUME NEW S, IsFiniteSet(S), NEW R, Orders(R, S), NEW i \in 1..Cardinality(S)
    PROVE  \E a \in S : Cardinality({b \in S : <<b, a>> \in R}) = i - 1
  <1> DEFINE n == Cardinality(S)
             below(a) == {b \in S : <<b, a>> \in R}
             rank == [a \in S |-> Cardinality(below(a)) + 1]
  <1>1. n \in Nat /\ IsFiniteSet(1..n) /\ Cardinality(1..n) = n
    <2>1. n \in Nat
      BY FS_CardinalityType
    <2>2. QED
      BY <2>1, FS_Interval
  <1>2. ASSUME NEW a \in S
        PROVE  IsFiniteSet(below(a)) /\ Cardinality(below(a)) \in Nat /\ Cardinality(below(a)) <= n - 1
    <2>1. below(a) \in SUBSET (S \ {a})
      BY DEF Orders
    <2>2. IsFiniteSet(S \ {a}) /\ Cardinality(S \ {a}) = n - 1
      BY FS_RemoveElement
    <2> HIDE DEF below
    <2>3. QED
      BY <2>1, <2>2, FS_Subset, FS_CardinalityType
  <1>3. ASSUME NEW a \in S, NEW b \in S, <<a, b>> \in R
        PROVE  Cardinality(below(a)) < Cardinality(below(b))
    <2>1. below(a) \in SUBSET below(b) /\ a \in below(b) /\ a \notin below(a)
      BY <1>3 DEF Orders
    <2> HIDE DEF below
    <2>2. Cardinality(below(a)) <= Cardinality(below(b)) /\ Cardinality(below(a)) # Cardinality(below(b))
      BY <1>2, <2>1, FS_Subset
    <2>3. QED
      BY <1>2, <2>2
  <1>4. rank \in [S -> 1..n]
    <2>1. \A a \in S : Cardinality(below(a)) + 1 \in 1..n
      <3> HIDE DEF below
      <3>1. QED
        BY <1>1, <1>2
    <2>2. QED
      BY <2>1
  <1>5. \A a, b \in S : rank[a] = rank[b] => a = b
    <2>1. TAKE a, b \in S
    <2>2. Cardinality(below(a)) \in Nat /\ Cardinality(below(b)) \in Nat
      BY <1>2
    <2>3. HAVE rank[a] = rank[b]
    <2>4. rank[a] = Cardinality(below(a)) + 1 /\ rank[b] = Cardinality(below(b)) + 1
      OBVIOUS
    <2>5. Cardinality(below(a)) = Cardinality(below(b))
      <3>1. PICK x \in Nat, y \in Nat : x = Cardinality(below(a)) /\ y = Cardinality(below(b))
        BY <2>2
      <3> HIDE DEF below, rank
      <3>2. x + 1 = y + 1
        BY <2>3, <2>4, <3>1
      <3>3. x = y
        BY <3>2
      <3>4. QED
        BY <3>1, <3>3
    <2>6. <<a, b>> \notin R /\ <<b, a>> \notin R
      <3> HIDE DEF below, rank
      <3>1. QED
        BY <1>3, <2>2, <2>5
    <2>7. QED
      BY <2>6 DEF Orders
  <1> HIDE DEF rank
  <1>6. rank \in Injection(S, 1..n)
    BY <1>4, <1>5 DEF Injection, IsInjective
  <1>7. rank \in Surjection(S, 1..n)
    BY <1>1, <1>6, FS_Injection
  <1>8. PICK a \in S : rank[a] = i
    BY <1>7 DEF Surjection
  <1>9. rank[a] = Cardinality(below(a)) + 1
    BY DEF rank
  <1>10. Cardinality(below(a)) = i - 1
    <2> HIDE DEF below
    <2>1. QED
      BY <1>2, <1>8, <1>9
  <1>11. QED
    BY <1>10

-----------------------------------------------------------------------------
(* Pages: sequences *)

\* The values of f begin with base and each follows from the one before it by G.
Follows(f, n, V, base, G) ==
    /\ f \in [0..n -> V] /\ f[0] = base
    /\ \A k \in 1..n : f[k] = G[<<k, f[k - 1]>>]

\* What is followed.
Leads(n, V, base, G) == n \in Nat /\ base \in V /\ G \in [(1..n) \X V -> V]

\* What begins somewhere and goes on by a function has a value at every step.
LEMMA Recursion ==
    ASSUME NEW n, NEW V, NEW base, NEW G, Leads(n, V, base, G)
    PROVE  \E f : Follows(f, n, V, base, G)
  <1> DEFINE Goes(m, f) == f[0] = base /\ \A k \in 1..m : f[k] = G[<<k, f[k - 1]>>]
             T == {m \in 0..n : ~\E f \in [0..m -> V] : Goes(m, f)}
  <1>1. n \in Nat /\ base \in V /\ G \in [(1..n) \X V -> V]
    BY DEF Leads
  <1>2. SUFFICES ASSUME T # {} PROVE FALSE
    <2>1. n \in 0..n
      BY <1>1
    <2>2. n \notin T => \E f \in [0..n -> V] : Goes(n, f)
      BY <2>1
    <2>3. QED
      BY <2>2 DEF Follows
  <1>3. PICK m \in T : \A k \in T : m <= k
    <2>1. T \in SUBSET Nat
      OBVIOUS
    <2> HIDE DEF T
    <2>2. QED
      BY <1>2, <2>1, LeastOf
  <1>4. m \in 0..n /\ ~\E f \in [0..m -> V] : Goes(m, f)
    BY <1>3
  <1>5. CASE m = 0
    <2> DEFINE f == [k \in 0..0 |-> base]
    <2>1. f \in [0..0 -> V] /\ Goes(0, f)
      BY <1>1
    <2> HIDE DEF Goes, f
    <2>2. QED
      BY <1>4, <1>5, <2>1
  <1>6. CASE m # 0
    <2>1. m - 1 \in 0..n /\ m \in 1..n /\ ~(m <= m - 1)
      BY <1>1, <1>4, <1>6
    <2>2. m - 1 \notin T
      <3> HIDE DEF T
      <3>1. QED
        BY <1>3, <2>1
    <2>3. PICK g \in [0..(m - 1) -> V] : Goes(m - 1, g)
      BY <2>1, <2>2
    <2> DEFINE f == [k \in 0..m |-> IF k = m THEN G[<<m, g[m - 1]>>] ELSE g[k]]
    <2>4. g[m - 1] \in V /\ G[<<m, g[m - 1]>>] \in V
      <3>1. g[m - 1] \in V
        BY <2>1, <2>3
      <3>2. QED
        BY <1>1, <2>1, <3>1
    <2>5. f \in [0..m -> V]
      <3>1. \A k \in 0..m : k = m \/ k \in 0..(m - 1)
        BY <2>1
      <3>2. QED
        BY <2>3, <2>4, <3>1
    <2>6. Goes(m, f)
      <3>1. f[0] = g[0] /\ g[0] = base
        BY <2>1, <2>3
      <3>2. ASSUME NEW k \in 1..m
            PROVE  f[k] = G[<<k, f[k - 1]>>]
        <4>1. f[k - 1] = g[k - 1]
          BY <2>1
        <4>2. CASE k = m
          <5>1. f[m] = G[<<m, g[m - 1]>>]
            BY <2>1
          <5> HIDE DEF f
          <5>2. QED
            BY <4>1, <4>2, <5>1, Zenon
        <4>3. CASE k # m
          <5>1. k \in 1..(m - 1) /\ f[k] = g[k]
            BY <2>1, <4>3
          <5>2. g[k] = G[<<k, g[k - 1]>>]
            BY <2>3, <5>1
          <5>3. QED
            BY <4>1, <5>1, <5>2
        <4>4. QED
          BY <4>2, <4>3
      <3> HIDE DEF f
      <3>3. QED
        BY <3>1, <3>2
    <2> HIDE DEF Goes, f
    <2>7. QED
      BY <1>4, <2>5, <2>6
  <1>7. QED
    BY <1>5, <1>6

IsSeq(s) == \E T : s \in Seq(T)

\* Sequences one after the other are a sequence.
LEMMA Flattened ==
    ASSUME NEW n \in Nat, NEW seqs, DOMAIN seqs = 1..n, NEW T, seqs \in [1..n -> Seq(T)]
    PROVE  Pages!FlattenSeq(seqs) \in Seq(T)
  <1>1. seqs \in Seq(Seq(T)) /\ Len(seqs) = n
    <2>1. seqs \in Seq(Seq(T))
      BY SeqDef
    <2>2. QED
      BY <2>1, LenProperties
  <1>2. CASE n = 0
    <2>1. Pages!FlattenSeq(seqs) = seqs /\ seqs = <<>>
      BY <1>1, <1>2, EmptySeq DEF Pages!FlattenSeq
    <2>2. QED
      BY <2>1, EmptySeq
  <1>3. CASE n # 0
    <2> DEFINE Next1(k, v) == IF k = 1 THEN seqs[k] ELSE v \o seqs[k]
               G == [p \in (1..n) \X Seq(T) |-> Next1(p[1], p[2])]
               Goes(f) == f = [k \in 1..n |-> IF k = 1 THEN seqs[k] ELSE f[k - 1] \o seqs[k]]
    <2>1. \A k \in 1..n, v \in Seq(T) : Next1(k, v) \in Seq(T)
      <3>1. TAKE k \in 1..n, v \in Seq(T)
      <3>2. seqs[k] \in Seq(T)
        OBVIOUS
      <3>3. v \o seqs[k] \in Seq(T)
        BY <3>2, ConcatProperties
      <3>4. QED
        BY <3>2, <3>3
    <2>2. G \in [(1..n) \X Seq(T) -> Seq(T)] /\ \A k \in 1..n, v \in Seq(T) : G[<<k, v>>] = Next1(k, v)
      <3> HIDE DEF Next1
      <3>1. QED
        BY <2>1
    <2> HIDE DEF G
    <2>3. PICK f : Follows(f, n, Seq(T), <<>>, G)
      <3>1. <<>> \in Seq(T)
        BY EmptySeq
      <3>2. Leads(n, Seq(T), <<>>, G)
        BY <2>2, <3>1 DEF Leads
      <3>3. QED
        BY <3>2, Recursion
    <2> DEFINE g == [k \in 1..n |-> f[k]]
    <2>4. Goes(g)
      <3>1. ASSUME NEW k \in 1..n
            PROVE  f[k] = IF k = 1 THEN seqs[k] ELSE g[k - 1] \o seqs[k]
        <4>1. f[k] = Next1(k, f[k - 1])
          <5>1. k - 1 \in 0..n
            OBVIOUS
          <5>2. f[k - 1] \in Seq(T) /\ f[k] = G[<<k, f[k - 1]>>]
            BY <2>3, <5>1 DEF Follows
          <5> HIDE DEF Next1
          <5>3. QED
            BY <2>2, <5>2
        <4>2. k # 1 => k - 1 \in 1..n
          OBVIOUS
        <4>3. QED
          BY <4>1, <4>2
      <3> HIDE DEF g
      <3>2. QED
        BY <3>1 DEF g
    <2> DEFINE flatten == CHOOSE h : Goes(h)
    <2>5. Goes(flatten)
      <3> HIDE DEF Goes, g
      <3>1. QED
        BY <2>4
    <2>6. Pages!FlattenSeq(seqs) = flatten[n]
      BY <1>1, <1>3 DEF Pages!FlattenSeq
    <2> HIDE DEF flatten
    <2>7. \A k \in 1..n : flatten[k] = IF k = 1 THEN seqs[k] ELSE flatten[k - 1] \o seqs[k]
      BY <2>5, Zenon
    <2> DEFINE Bad == {k \in 1..n : flatten[k] \notin Seq(T)}
    <2>8. ASSUME Bad # {} PROVE FALSE
      <3>1. PICK k \in Bad : \A j \in Bad : k <= j
        <4>1. Bad \in SUBSET Nat
          OBVIOUS
        <4> HIDE DEF Bad
        <4>2. QED
          BY <2>8, <4>1, LeastOf
      <3>2. k \in 1..n /\ flatten[k] \notin Seq(T)
        BY <3>1
      <3>3. k # 1
        BY <2>7, <3>2
      <3>4. k - 1 \in 1..n /\ ~(k <= k - 1)
        BY <3>2, <3>3
      <3>5. k - 1 \notin Bad
        <4> HIDE DEF Bad
        <4>1. QED
          BY <3>1, <3>4
      <3>6. flatten[k - 1] \in Seq(T)
        BY <3>4, <3>5
      <3>7. flatten[k - 1] \o seqs[k] \in Seq(T)
        BY <3>2, <3>6, ConcatProperties
      <3>8. QED
        BY <2>7, <3>2, <3>3, <3>7
    <2>9. n \in 1..n
      BY <1>3
    <2>10. n \notin Bad
      <3> HIDE DEF Bad
      <3>1. QED
        BY <2>8
    <2>11. QED
      BY <2>6, <2>9, <2>10
  <1>4. QED
    BY <1>2, <1>3

\* Sequences one after the other, of whatever they are.
LEMMA FlattenedSeq ==
    ASSUME NEW seqs, IsSeq(seqs), \A k \in 1..Len(seqs) : IsSeq(seqs[k])
    PROVE  IsSeq(Pages!FlattenSeq(seqs))
  <1> DEFINE n == Len(seqs)
             T == UNION {{seqs[k][i] : i \in 1..Len(seqs[k])} : k \in 1..n}
  <1>1. n \in Nat /\ DOMAIN seqs = 1..n /\ \E V : seqs \in [1..n -> V]
    BY LenProperties DEF IsSeq
  <1>2. ASSUME NEW k \in 1..n
        PROVE  seqs[k] \in Seq(T)
    <2>1. Len(seqs[k]) \in Nat /\ \E V : seqs[k] \in [1..Len(seqs[k]) -> V]
      BY LenProperties DEF IsSeq
    <2>2. \A i \in 1..Len(seqs[k]) : seqs[k][i] \in T
      OBVIOUS
    <2> HIDE DEF T
    <2>3. seqs[k] \in [1..Len(seqs[k]) -> T]
      BY <2>1, <2>2
    <2>4. QED
      BY <2>1, <2>3, SeqDef
  <1> HIDE DEF T, n
  <1>3. seqs \in [1..n -> Seq(T)]
    BY <1>1, <1>2
  <1>4. Pages!FlattenSeq(seqs) \in Seq(T)
    BY <1>1, <1>3, Flattened
  <1>5. QED
    BY <1>4 DEF IsSeq

\* A function of the numbers up to n is a sequence.
LEMMA Listed ==
    ASSUME NEW n \in Nat, NEW V, NEW f \in [1..n -> V]
    PROVE  IsSeq(f) /\ Len(f) = n
  <1>1. f \in Seq(V)
    BY SeqDef
  <1>2. Len(f) = n
    BY <1>1, LenProperties
  <1>3. QED
    BY <1>1, <1>2 DEF IsSeq

-----------------------------------------------------------------------------
(* Pages: the lines of a text *)

LEMMA PagesCounts ==
    ASSUME NEW S
    PROVE  Pages!Cardinality(S) = Cardinality(S)
  BY DEF Cardinality, Pages!Cardinality

\* The line breaks of a text are places in it.
LEMMA BreaksFinite ==
    ASSUME NEW T, NEW s \in Seq(T)
    PROVE  /\ Pages!Breaks(s) = {i \in 1..Len(s) : s[i] \in Pages!Newlines}
           /\ IsFiniteSet(Pages!Breaks(s))
           /\ Pages!Terminators(s) = Cardinality(Pages!Breaks(s))
           /\ Pages!Terminators(s) \in Nat
  <1>1. Pages!Breaks(s) = {i \in 1..Len(s) : s[i] \in Pages!Newlines} /\ Len(s) \in Nat
    BY LenProperties DEF Pages!Breaks
  <1>2. IsFiniteSet(1..Len(s))
    BY <1>1, FS_Interval
  <1>3. IsFiniteSet(Pages!Breaks(s))
    BY <1>1, <1>2, FS_Subset
  <1>4. Pages!Terminators(s) = Cardinality(Pages!Breaks(s))
    BY PagesCounts DEF Pages!Terminators
  <1>5. QED
    BY <1>1, <1>3, <1>4, FS_CardinalityType

\* A part of a text.
LEMMA PartOf ==
    ASSUME NEW T, NEW s \in Seq(T), NEW p \in 0..Len(s), NEW q \in p..Len(s)
    PROVE  /\ SubSeq(s, p + 1, q) \in Seq(T) /\ Len(SubSeq(s, p + 1, q)) = q - p
           /\ \A i \in 1..(q - p) : SubSeq(s, p + 1, q)[i] = s[p + i]
  <1>1. Len(s) \in Nat /\ p \in Nat /\ q \in Nat /\ p <= q /\ q <= Len(s)
    BY LenProperties
  <1>2. \A i \in (p + 1)..q : s[i] \in T
    BY <1>1, ElementOfSeq
  <1>3. SubSeq(s, p + 1, q) = [i \in 1..(q - p) |-> s[p + i]]
    <2>1. SubSeq(s, p + 1, q) = [i \in 1..(1 + q - (p + 1)) |-> s[i + (p + 1) - 1]]
      BY <1>1
    <2>2. 1 + q - (p + 1) = q - p /\ \A i \in 1..(q - p) : i + (p + 1) - 1 = p + i
      BY <1>1
    <2>3. QED
      BY <2>1, <2>2
  <1>4. SubSeq(s, p + 1, q) \in [1..(q - p) -> T]
    <2>1. \A i \in 1..(q - p) : p + i \in (p + 1)..q
      BY <1>1
    <2>2. QED
      BY <1>2, <1>3, <2>1
  <1>5. q - p \in Nat
    BY <1>1
  <1>6. QED
    BY <1>3, <1>4, <1>5, SeqDef, LenProperties

\* What is a part of a text.
IsPart(t, s, p, q, T) == t \in Seq(T) /\ Len(t) = q - p /\ \A i \in 1..(q - p) : t[i] = s[p + i]

LEMMA PartIs ==
    ASSUME NEW T, NEW s \in Seq(T), NEW p \in 0..Len(s), NEW q \in p..Len(s)
    PROVE  IsPart(SubSeq(s, p + 1, q), s, p, q, T)
  BY PartOf, Zenon DEF IsPart

\* The line breaks of a part are those of the text that are in it.
LEMMA TerminatorsOfPart ==
    ASSUME NEW T, NEW s \in Seq(T), NEW p \in 0..Len(s), NEW q \in p..Len(s)
    PROVE  /\ IsFiniteSet({i \in Pages!Breaks(s) : p < i /\ i <= q})
           /\ Pages!Terminators(SubSeq(s, p + 1, q))
                = Cardinality({i \in Pages!Breaks(s) : p < i /\ i <= q})
  <1> DEFINE part == SubSeq(s, p + 1, q)
             within == {i \in Pages!Breaks(s) : p < i /\ i <= q}
             f == [i \in Pages!Breaks(part) |-> p + i]
  <1>1. Len(s) \in Nat /\ p \in Nat /\ q \in Nat /\ p <= q /\ q <= Len(s)
    BY LenProperties
  <1>2. part \in Seq(T) /\ Len(part) = q - p /\ \A i \in 1..(q - p) : part[i] = s[p + i]
    BY PartOf
  <1> HIDE DEF part
  <1>3. Pages!Breaks(part) = {i \in 1..(q - p) : s[p + i] \in Pages!Newlines}
    BY <1>2, BreaksFinite
  <1>4. Pages!Breaks(s) = {i \in 1..Len(s) : s[i] \in Pages!Newlines}
    BY BreaksFinite
  <1>5. f \in Bijection(Pages!Breaks(part), within)
    <2>1. f \in [Pages!Breaks(part) -> within]
      BY <1>1, <1>3, <1>4
    <2>2. \A i, j \in Pages!Breaks(part) : f[i] = f[j] => i = j
      BY <1>1, <1>3
    <2>3. \A t \in within : \E i \in Pages!Breaks(part) : f[i] = t
      <3>1. TAKE t \in within
      <3>2. t - p \in Pages!Breaks(part) /\ p + (t - p) = t
        BY <1>1, <1>3, <1>4
      <3>3. QED
        BY <3>2
    <2> HIDE DEF f, within
    <2>4. QED
      BY <2>1, <2>2, <2>3, Bijects
  <1>6. /\ IsFiniteSet(Pages!Breaks(part))
        /\ Pages!Terminators(part) = Cardinality(Pages!Breaks(part))
    BY <1>2, BreaksFinite
  <1>7. IsFiniteSet(within) /\ Cardinality(within) = Cardinality(Pages!Breaks(part))
    <2> HIDE DEF within, f
    <2>1. ExistsBijection(Pages!Breaks(part), within)
      BY <1>5 DEF ExistsBijection
    <2>2. QED
      BY <1>6, <2>1, FS_Bijection
  <1>8. QED
    BY <1>6, <1>7 DEF part

\* Line breaks add up.
LEMMA TerminatorsSplit ==
    ASSUME NEW T, NEW s \in Seq(T), NEW p \in 0..Len(s), NEW q \in p..Len(s)
    PROVE  Pages!Terminators(SubSeq(s, 1, q))
             = Pages!Terminators(SubSeq(s, 1, p)) + Pages!Terminators(SubSeq(s, p + 1, q))
  <1> DEFINE A == {i \in Pages!Breaks(s) : 0 < i /\ i <= p}
             B == {i \in Pages!Breaks(s) : p < i /\ i <= q}
             C == {i \in Pages!Breaks(s) : 0 < i /\ i <= q}
  <1>1. Len(s) \in Nat /\ p \in Nat /\ q \in Nat /\ p <= q /\ q <= Len(s)
    BY LenProperties
  <1>2. Pages!Breaks(s) \in SUBSET Nat
    BY <1>1, BreaksFinite
  <1>3. IsFiniteSet(A) /\ Pages!Terminators(SubSeq(s, 1, p)) = Cardinality(A)
    <2>1. 0 \in 0..Len(s) /\ p \in 0..Len(s) /\ 0 + 1 = 1
      BY <1>1
    <2>2. QED
      BY <2>1, TerminatorsOfPart
  <1>4. IsFiniteSet(B) /\ Pages!Terminators(SubSeq(s, p + 1, q)) = Cardinality(B)
    BY TerminatorsOfPart
  <1>5. IsFiniteSet(C) /\ Pages!Terminators(SubSeq(s, 1, q)) = Cardinality(C)
    <2>1. 0 \in 0..Len(s) /\ q \in 0..Len(s) /\ 0 + 1 = 1
      BY <1>1
    <2>2. QED
      BY <2>1, TerminatorsOfPart
  <1>6. C = A \cup B /\ A \cap B = {}
    BY <1>1, <1>2
  <1> HIDE DEF A, B, C
  <1>7. Cardinality(C) = Cardinality(A) + Cardinality(B)
    <2>1. Cardinality(A \cup B) = Cardinality(A) + Cardinality(B) - Cardinality(A \cap B)
      BY <1>3, <1>4, FS_Union
    <2>2. Cardinality(A \cap B) = 0 /\ Cardinality(A) \in Nat /\ Cardinality(B) \in Nat
      BY <1>3, <1>4, <1>6, FS_EmptySet, FS_CardinalityType
    <2>3. QED
      BY <1>6, <2>1, <2>2
  <1>8. QED
    BY <1>3, <1>4, <1>5, <1>7

\* A line begins in the text, whichever it is.
LEMMA LineBegins ==
    ASSUME NEW T, NEW s \in Seq(T), NEW n \in Nat \ {0}
    PROVE  Pages!LineOffset(s, n) \in 0..Len(s)
  <1> DEFINE starts == {0} \cup Pages!Breaks(s)
             R == {e \in starts \X starts : e[1] < e[2]}
             below(i) == {j \in starts : j < i}
  <1>1. Len(s) \in Nat /\ starts \in SUBSET (0..Len(s))
    BY LenProperties, BreaksFinite
  <1>2. IsFiniteSet(starts)
    <2>1. IsFiniteSet(0..Len(s))
      BY <1>1, FS_Interval
    <2> HIDE DEF starts
    <2>2. QED
      BY <1>1, <2>1, FS_Subset
  <1>3. Pages!LineOffset(s, n) = IF n > Cardinality(starts) THEN Len(s)
                                 ELSE CHOOSE i \in starts : Pages!Cardinality(below(i)) = n - 1
    BY PagesCounts DEF Pages!LineOffset
  <1>4. ASSUME ~(n > Cardinality(starts))
        PROVE  \E i \in starts : Cardinality(below(i)) = n - 1
    <2>1. Cardinality(starts) \in Nat
      BY <1>2, FS_CardinalityType
    <2>2. n \in 1..Cardinality(starts)
      <3> HIDE DEF starts
      <3>1. QED
        BY <1>4, <2>1
    <2>3. Orders(R, starts)
      <3>1. \A i, j \in starts : <<i, j>> \in R <=> i < j
        OBVIOUS
      <3> HIDE DEF R, starts
      <3>2. QED
        BY <1>1, <3>1 DEF Orders
    <2>4. \E i \in starts : Cardinality({j \in starts : <<j, i>> \in R}) = n - 1
      <3> HIDE DEF R, starts
      <3>1. QED
        BY <1>2, <2>2, <2>3, PlacesTaken
    <2>5. \A i \in starts : {j \in starts : <<j, i>> \in R} = below(i)
      OBVIOUS
    <2> HIDE DEF R, below, starts
    <2>6. QED
      BY <2>4, <2>5
  <1> HIDE DEF below, starts
  <1>5. CASE n > Cardinality(starts)
    BY <1>1, <1>3, <1>5
  <1>6. CASE ~(n > Cardinality(starts))
    <2>1. PICK i \in starts : Pages!Cardinality(below(i)) = n - 1
      BY <1>4, <1>6, PagesCounts
    <2>2. (CHOOSE j \in starts : Pages!Cardinality(below(j)) = n - 1) \in starts
      BY <2>1
    <2>3. QED
      BY <1>1, <1>3, <1>6, <2>2
  <1>7. QED
    BY <1>5, <1>6

\* The line after a line break begins there.
LEMMA LineAfterBreak ==
    ASSUME NEW T, NEW s \in Seq(T), NEW p \in 1..Len(s), s[p] \in Pages!Newlines
    PROVE  Pages!LineOffset(s, Pages!Terminators(SubSeq(s, 1, p)) + 1) = p
  <1> DEFINE starts == {0} \cup Pages!Breaks(s)
             below(i) == {j \in starts : j < i}
             n == Pages!Terminators(SubSeq(s, 1, p)) + 1
             upto == {i \in Pages!Breaks(s) : 0 < i /\ i <= p}
  <1>1. Len(s) \in Nat /\ starts \in SUBSET (0..Len(s)) /\ p \in Pages!Breaks(s) /\ p \in 1..Len(s)
    BY LenProperties, BreaksFinite
  <1>2. IsFiniteSet(starts)
    <2>1. IsFiniteSet(0..Len(s))
      BY <1>1, FS_Interval
    <2> HIDE DEF starts
    <2>2. QED
      BY <1>1, <2>1, FS_Subset
  <1>3. IsFiniteSet(upto) /\ Pages!Terminators(SubSeq(s, 1, p)) = Cardinality(upto)
    <2>1. 0 \in 0..Len(s) /\ p \in 0..Len(s) /\ 0 + 1 = 1
      BY <1>1
    <2>2. QED
      BY <2>1, TerminatorsOfPart
  <1>4. Cardinality(upto) \in Nat
    BY <1>3, FS_CardinalityType
  <1>5. Pages!Breaks(s) \in SUBSET (1..Len(s))
    BY BreaksFinite
  <1>6. Cardinality(below(p)) = Cardinality(upto)
    <2>1. below(p) = (upto \ {p}) \cup {0} /\ p \in upto /\ 0 \notin upto \ {p}
      BY <1>1, <1>5
    <2> HIDE DEF below, upto
    <2>2. IsFiniteSet(upto \ {p}) /\ Cardinality(upto \ {p}) = Cardinality(upto) - 1
      BY <1>3, <2>1, FS_RemoveElement
    <2>3. Cardinality((upto \ {p}) \cup {0}) = Cardinality(upto \ {p}) + 1
      BY <2>1, <2>2, FS_AddElement
    <2>4. QED
      BY <1>4, <2>1, <2>2, <2>3
  <1>7. ~(n > Cardinality(starts))
    <2>1. below(p) \cup {p} \in SUBSET starts /\ p \notin below(p) /\ below(p) \in SUBSET starts
      BY <1>1
    <2> HIDE DEF below, starts, upto
    <2>2. IsFiniteSet(below(p)) /\ IsFiniteSet(below(p) \cup {p})
      BY <1>2, <2>1, FS_Subset
    <2>3. Cardinality(below(p) \cup {p}) = Cardinality(below(p)) + 1
      BY <2>1, <2>2, FS_AddElement
    <2>4. Cardinality(below(p) \cup {p}) <= Cardinality(starts) /\ Cardinality(starts) \in Nat
      BY <1>2, <2>1, FS_Subset, FS_CardinalityType
    <2>5. QED
      BY <1>3, <1>4, <1>6, <2>3, <2>4
  <1>8. ASSUME NEW i \in starts, Cardinality(below(i)) = Cardinality(below(p))
        PROVE  i = p
    <2>1. ASSUME NEW a \in starts, NEW b \in starts, a < b
          PROVE  Cardinality(below(a)) # Cardinality(below(b))
      <3>1. below(a) \in SUBSET below(b) /\ a \in below(b) /\ a \notin below(a)
            /\ below(b) \in SUBSET starts
        BY <1>1, <2>1
      <3> HIDE DEF below, starts
      <3>2. IsFiniteSet(below(b))
        BY <1>2, <3>1, FS_Subset
      <3>3. Cardinality(below(a)) = Cardinality(below(b)) => below(a) = below(b)
        BY <3>1, <3>2, FS_Subset
      <3>4. QED
        BY <3>1, <3>3
    <2>2. p \in starts /\ i \in Nat /\ p \in Nat
      BY <1>1
    <2> HIDE DEF below, starts
    <2>3. ~(i < p) /\ ~(p < i)
      BY <1>8, <2>1, <2>2
    <2>4. QED
      BY <2>2, <2>3
  <1>9. Pages!LineOffset(s, n) = IF n > Cardinality(starts) THEN Len(s)
                                 ELSE CHOOSE i \in starts : Pages!Cardinality(below(i)) = n - 1
    BY PagesCounts DEF Pages!LineOffset
  <1>10. p \in starts /\ n - 1 = Cardinality(below(p))
    <2>1. p \in starts
      BY <1>1
    <2> HIDE DEF below, starts, upto
    <2>2. QED
      BY <1>3, <1>4, <1>6, <2>1
  <1> HIDE DEF below, starts, n
  <1>11. (CHOOSE i \in starts : Pages!Cardinality(below(i)) = n - 1) = p
    BY <1>8, <1>10, PagesCounts
  <1>12. Pages!LineOffset(s, n) = p
    BY <1>7, <1>9, <1>11
  <1>13. QED
    BY <1>12 DEF n

\* A part of a text is one, also where it ends before it begins.
LEMMA SliceSeq ==
    ASSUME NEW s, IsSeq(s), NEW p \in 0..Len(s), NEW q \in 0..Len(s)
    PROVE  IsSeq(SubSeq(s, p + 1, q))
  <1>1. PICK T : s \in Seq(T)
    BY DEF IsSeq
  <1>2. Len(s) \in Nat /\ p \in Nat /\ q \in Nat
    BY <1>1, LenProperties
  <1>3. CASE p <= q
    <2>1. q \in p..Len(s)
      BY <1>2, <1>3
    <2>2. SubSeq(s, p + 1, q) \in Seq(T)
      BY <1>1, <2>1, PartOf
    <2>3. QED
      BY <2>2 DEF IsSeq
  <1>4. CASE ~(p <= q)
    <2>1. SubSeq(s, p + 1, q) = <<>>
      BY <1>2, <1>4, SubSeqEmpty
    <2>2. <<>> \in Seq({})
      BY EmptySeq
    <2>3. QED
      BY <2>1, <2>2 DEF IsSeq
  <1>5. QED
    BY <1>3, <1>4

\* A text has lines, and ends at one of its places.
LEMMA LinesCounted ==
    ASSUME NEW s, IsSeq(s)
    PROVE  /\ Pages!LineCount(s) \in Nat
           /\ \A n \in Nat \ {0} : Pages!LineOffset(s, n) \in 0..Len(s)
  <1>1. PICK T : s \in Seq(T)
    BY DEF IsSeq
  <1>2. Pages!Terminators(s) \in Nat
    BY <1>1, BreaksFinite
  <1>3. Pages!LineCount(s) \in Nat
    BY <1>2 DEF Pages!LineCount
  <1>4. QED
    BY <1>1, <1>3, LineBegins

-----------------------------------------------------------------------------
(* Pages: what is delivered *)

\* A page as far as it was read: what was delivered is what comes before the
\* place where it goes on, and a line is named there only after a line break.
DeliveredTo(shown, p) ==
    /\ p \in 0..Len(shown.artifact)
    /\ shown.delivered = SubSeq(shown.artifact, 1, p)
    /\ \/ p = Len(shown.artifact) /\ shown.next = Pages!AtEnd
       \/ /\ p < Len(shown.artifact) /\ p > 0 /\ shown.artifact[p] \in Pages!Newlines
          /\ shown.next = Pages!AtLine(Pages!Terminators(SubSeq(shown.artifact, 1, p)) + 1)
       \/ p < Len(shown.artifact) /\ shown.next = Pages!AtOffset(p)

Delivered(shown) ==
    /\ DOMAIN shown = {"artifact", "delivered", "next"}
    /\ IsSeq(shown.artifact)
    /\ \E p : DeliveredTo(shown, p)

PagesInv == IsSeq(text) /\ Delivered(page)

\* What was delivered is whole exactly at the end.
LEMMA PagesWhole ==
    ASSUME PagesInv
    PROVE  Pages!PagesLoseNothing
  <1>1. PICK T, p : page.artifact \in Seq(T) /\ DeliveredTo(page, p)
    BY DEF PagesInv, Delivered, IsSeq
  <1> DEFINE a == page.artifact
  <1>2. Len(a) \in Nat /\ p \in 0..Len(a) /\ page.delivered = SubSeq(a, 1, p)
    BY <1>1, LenProperties DEF DeliveredTo
  <1>3. page.delivered \in Seq(T) /\ Len(page.delivered) = p
    <2>1. 0 \in 0..Len(a) /\ p \in 0..Len(a) /\ 0 + 1 = 1 /\ p - 0 = p
      BY <1>2
    <2>2. QED
      BY <1>1, <1>2, <2>1, PartOf
  <1>4. SubSeq(page.delivered, 1, p) = page.delivered
    BY <1>3, SubSeqFull
  <1>5. Pages!IsPrefix(page.delivered, page.artifact)
    BY <1>2, <1>3, <1>4 DEF Pages!IsPrefix
  <1>6. page.delivered = a <=> p = Len(a)
    <2>1. SubSeq(a, 1, Len(a)) = a
      BY <1>1, SubSeqFull
    <2>2. QED
      BY <1>2, <1>3, <2>1
  <1>7. page.next = Pages!AtEnd <=> p = Len(a)
    <2>1. \A n : Pages!AtLine(n) # Pages!AtEnd /\ Pages!AtOffset(n) # Pages!AtEnd
      BY DEF Pages!AtLine, Pages!AtOffset, Pages!AtEnd
    <2>2. QED
      BY <1>1, <1>2, <2>1 DEF DeliveredTo
  <1>8. QED
    BY <1>5, <1>6, <1>7 DEF Pages!PagesLoseNothing

-----------------------------------------------------------------------------
(* Pages: reads and continuations *)

\* A page takes no more than there is.
LEMMA PrefixWithin ==
    ASSUME NEW s, IsSeq(s), NEW limits
    PROVE  Pages!PagePrefix(s, limits) \in 0..Len(s)
  <1> DEFINE over == {i \in DOMAIN s : Pages!Overflows(s, limits, i)}
             first1 == CHOOSE i \in over : \A j \in over : i <= j
  <1>1. Len(s) \in Nat /\ over \in SUBSET (1..Len(s))
    BY LenProperties DEF IsSeq
  <1>2. Pages!PagePrefix(s, limits) = IF over = {} THEN Len(s) ELSE first1 - 1
    BY DEF Pages!PagePrefix
  <1> HIDE DEF over
  <1>3. over # {} => first1 \in over
    <2>1. over \in SUBSET Nat
      BY <1>1
    <2>2. over # {} => \E i \in over : \A j \in over : i <= j
      BY <2>1, LeastOf
    <2>3. QED
      BY <2>2
  <1> HIDE DEF first1
  <1>4. CASE over = {}
    BY <1>1, <1>2, <1>4
  <1>5. CASE over # {}
    <2>1. first1 \in 1..Len(s)
      BY <1>1, <1>3, <1>5
    <2>2. QED
      BY <1>1, <1>2, <1>5, <2>1
  <1>6. QED
    BY <1>4, <1>5

\* Where a page of an artifact from p on ends, the next one goes on.
LEMMA Continues ==
    ASSUME NEW T, NEW artifact \in Seq(T), NEW p \in 0..Len(artifact), NEW n \in 0..(Len(artifact) - p),
           NEW shown, shown.artifact = artifact, shown.delivered = SubSeq(artifact, 1, p + n),
           shown.next = Pages!Continuation(SubSeq(artifact, p + 1, Len(artifact)), p,
                            Pages!Terminators(SubSeq(artifact, 1, p)) + 1, n)
    PROVE  DeliveredTo(shown, p + n)
  <1> DEFINE rest == SubSeq(artifact, p + 1, Len(artifact))
             part == SubSeq(rest, 1, n)
  <1>1. PICK k \in Nat : k = Len(artifact)
    BY LenProperties
  <1>2. p \in Nat /\ n \in Nat /\ p + n <= k /\ p <= k /\ p + n \in p..k /\ k \in p..k
    BY <1>1
  <1>3. rest \in Seq(T) /\ Len(rest) = k - p /\ \A i \in 1..(k - p) : rest[i] = artifact[p + i]
    BY <1>1, <1>2, PartOf
  <1> HIDE DEF rest
  <1>4. part \in Seq(T) /\ Len(part) = n /\ \A i \in 1..n : part[i] = artifact[p + i]
    <2>1. 0 \in 0..Len(rest) /\ n \in 0..Len(rest) /\ 0 + 1 = 1 /\ n - 0 = n
      BY <1>1, <1>2, <1>3
    <2>2. part \in Seq(T) /\ Len(part) = n /\ \A i \in 1..(n - 0) : part[i] = rest[0 + i]
      <3>1. PICK o : o = 0
        OBVIOUS
      <3>2. o \in 0..Len(rest) /\ n \in o..Len(rest)
        BY <2>1, <3>1, Zenon
      <3>3. IsPart(SubSeq(rest, o + 1, n), rest, o, n, T)
        BY <1>3, <3>2, PartIs, Zenon
      <3>4. QED
        BY <2>1, <3>1, <3>3, Zenon DEF IsPart
    <2>3. \A i \in 1..n : part[i] = rest[i]
      BY <1>2, <2>2
    <2>4. \A i \in 1..n : i \in 1..(k - p)
      BY <1>2
    <2>5. QED
      BY <1>3, <2>2, <2>3, <2>4
  <1>5. part = SubSeq(artifact, p + 1, p + n)
    <2>1. part = [i \in 1..n |-> artifact[p + i]]
      BY <1>4, LenProperties
    <2>2. /\ SubSeq(artifact, p + 1, p + n) \in Seq(T) /\ Len(SubSeq(artifact, p + 1, p + n)) = (p + n) - p
          /\ \A i \in 1..((p + n) - p) : SubSeq(artifact, p + 1, p + n)[i] = artifact[p + i]
      <3>1. IsPart(SubSeq(artifact, p + 1, p + n), artifact, p, p + n, T)
        <4>1. PICK q : q = p + n
          OBVIOUS
        <4>2. p \in 0..Len(artifact) /\ q \in p..Len(artifact)
          BY <1>1, <1>2, <4>1
        <4>3. IsPart(SubSeq(artifact, p + 1, q), artifact, p, q, T)
          BY <4>2, PartIs, Zenon
        <4>4. QED
          BY <4>1, <4>3, Zenon
      <3>2. QED
        BY <3>1, Zenon DEF IsPart
    <2>3. (p + n) - p = n
      BY <1>2
    <2>4. SubSeq(artifact, p + 1, p + n) = [i \in 1..n |-> artifact[p + i]]
      BY <2>2, <2>3, LenProperties
    <2>5. QED
      BY <2>1, <2>4
  <1> HIDE DEF part
  <1>6. Pages!Terminators(SubSeq(artifact, 1, p + n))
          = Pages!Terminators(SubSeq(artifact, 1, p)) + Pages!Terminators(part)
    BY <1>1, <1>2, <1>5, TerminatorsSplit
  <1>7. /\ Pages!Terminators(SubSeq(artifact, 1, p)) \in Nat /\ Pages!Terminators(part) \in Nat
    <2>1. 0 \in 0..Len(artifact) /\ p \in 0..Len(artifact) /\ 0 + 1 = 1
      BY <1>1, <1>2
    <2>2. SubSeq(artifact, 1, p) \in Seq(T)
      BY <2>1, PartOf
    <2>3. QED
      BY <1>4, <2>2, BreaksFinite
  <1>8. shown.next = CASE n = Len(rest) -> Pages!AtEnd
                       [] n < Len(rest) /\ Pages!EndsWithNewline(part) ->
                            Pages!AtLine(Pages!Terminators(SubSeq(artifact, 1, p)) + 1
                                         + Pages!Terminators(part))
                       [] OTHER -> Pages!AtOffset(p + n)
    BY DEF Pages!Continuation, rest, part
  <1>9. CASE n = Len(rest)
    <2>1. p + n = k
      BY <1>2, <1>3, <1>9
    <2>2. shown.next = Pages!AtEnd
      BY <1>8, <1>9
    <2>3. QED
      BY <1>1, <1>2, <2>1, <2>2 DEF DeliveredTo
  <1>10. CASE n # Len(rest) /\ Pages!EndsWithNewline(part)
    <2>1. n < Len(rest) /\ p + n < k
      BY <1>2, <1>3, <1>10
    <2>2. part # <<>> /\ part[n] \in Pages!Newlines
      BY <1>4, <1>10 DEF Pages!EndsWithNewline, Pages!Last
    <2>3. n > 0
      BY <1>2, <1>4, <2>2, EmptySeq
    <2>4. artifact[p + n] \in Pages!Newlines
      BY <1>2, <1>4, <2>2, <2>3
    <2>5. shown.next = Pages!AtLine(Pages!Terminators(SubSeq(artifact, 1, p)) + 1
                                         + Pages!Terminators(part))
      BY <1>8, <1>10, <2>1
    <2>6. shown.next = Pages!AtLine(Pages!Terminators(SubSeq(artifact, 1, p + n)) + 1)
      <3>1. Pages!Terminators(SubSeq(artifact, 1, p)) + 1 + Pages!Terminators(part)
              = Pages!Terminators(SubSeq(artifact, 1, p + n)) + 1
        BY <1>6, <1>7
      <3>2. QED
        BY <2>5, <3>1
    <2>7. p + n \in 0..k /\ p + n > 0
      BY <1>2, <2>3
    <2>8. QED
      BY <1>1, <2>1, <2>4, <2>6, <2>7 DEF DeliveredTo
  <1>11. CASE n # Len(rest) /\ ~Pages!EndsWithNewline(part)
    <2>1. p + n < k /\ p + n \in 0..k
      BY <1>2, <1>3, <1>11
    <2>2. shown.next = Pages!AtOffset(p + n)
      BY <1>8, <1>11
    <2>3. QED
      BY <1>1, <2>1, <2>2 DEF DeliveredTo
  <1>12. QED
    BY <1>9, <1>10, <1>11

\* What a selector shows of a text is a text.
LEMMA ProjectedSeq ==
    ASSUME NEW s, IsSeq(s), NEW ranges, IsSeq(ranges),
           \A k \in 1..Len(ranges) : ranges[k].start \in Nat \ {0} /\ ranges[k].end \in Nat
    PROVE  IsSeq(Pages!Project(s, ranges).content)
  <1> DEFINE n == Len(ranges)
             spans == [k \in DOMAIN ranges |-> Pages!SelectedSpan(s, ranges[k])]
             parts == [k \in DOMAIN spans |-> SubSeq(s, spans[k].from + 1, spans[k].to)]
  <1>1. n \in Nat /\ DOMAIN ranges = 1..n
    BY LenProperties DEF IsSeq
  <1>2. ASSUME NEW k \in 1..n
        PROVE  /\ Pages!SelectedSpan(s, ranges[k]).from \in 0..Len(s)
               /\ Pages!SelectedSpan(s, ranges[k]).to \in 0..Len(s)
    <2> DEFINE last == IF ranges[k].end = Pages!ToEof \/ ranges[k].end > Pages!LineCount(s)
                       THEN Pages!LineCount(s) ELSE ranges[k].end
    <2>1. /\ Pages!SelectedSpan(s, ranges[k]).from = Pages!LineOffset(s, ranges[k].start)
          /\ Pages!SelectedSpan(s, ranges[k]).to = Pages!LineOffset(s, last + 1)
      BY DEF Pages!SelectedSpan
    <2>2. last + 1 \in Nat \ {0} /\ ranges[k].start \in Nat \ {0}
      <3>1. Pages!LineCount(s) \in Nat
        BY LinesCounted
      <3>2. last \in Nat
        BY <3>1
      <3> HIDE DEF last
      <3>3. QED
        BY <3>2
    <2> HIDE DEF last
    <2>3. QED
      BY <2>1, <2>2, LinesCounted
  <1>3. /\ DOMAIN spans = 1..n /\ DOMAIN parts = 1..n
        /\ \A k \in 1..n : parts[k] = SubSeq(s, spans[k].from + 1, spans[k].to)
        /\ \A k \in 1..n : spans[k] = Pages!SelectedSpan(s, ranges[k])
    BY <1>1
  <1>4. \A k \in 1..n : IsSeq(parts[k])
    <2> HIDE DEF spans, parts, n
    <2>1. QED
      BY <1>2, <1>3, SliceSeq
  <1>5. Pages!Project(s, ranges).content = Pages!FlattenSeq(parts)
    BY DEF Pages!Project
  <1>6. IsSeq(parts) /\ Len(parts) = n
    <2>1. parts \in [1..n -> {parts[k] : k \in 1..n}]
      BY <1>3
    <2> HIDE DEF parts, n
    <2>2. QED
      BY <1>1, <2>1, Listed
  <1> HIDE DEF parts, n
  <1>7. QED
    BY <1>4, <1>5, <1>6, FlattenedSeq

\* A read begins a page.
LEMMA PagesRead ==
    ASSUME PagesInv, NEW ranges \in Selectors \cup {Pages!Whole(text)}, NEW limits \in PageLimits,
           Pages!Read(ranges, limits)
    PROVE  PagesInv'
  <1>1. PICK projection, prefix :
           /\ projection = Pages!Project(text, ranges)
           /\ prefix = Pages!PagePrefix(projection.content, limits)
           /\ page' = [artifact |-> projection.content,
                       delivered |-> SubSeq(projection.content, 1, prefix),
                       next |-> Pages!Continuation(projection.content, 0, 1, prefix)]
           /\ UNCHANGED text
    BY Zenon DEF Pages!Read
  <1>2. /\ IsSeq(ranges)
        /\ \A k \in 1..Len(ranges) : ranges[k].start \in Nat \ {0} /\ ranges[k].end \in Nat
    <2>1. CASE ranges \in Selectors
      <3>1. ranges \in Seq(Pages!ToSet(ranges)) /\ DOMAIN ranges = 1..Len(ranges)
        BY <2>1, TextAssumption, LenProperties
      <3>2. \A k \in 1..Len(ranges) : ranges[k] \in [start : Nat \ {0}, end : Nat]
        BY <2>1, <3>1, TextAssumption DEF Pages!ToSet
      <3>3. QED
        BY <3>1, <3>2 DEF IsSeq
    <2>2. CASE ranges = Pages!Whole(text)
      <3> DEFINE line == [start |-> 1, end |-> Pages!ToEof]
      <3>1. ranges = <<>> \/ ranges = <<line>>
        BY <2>2 DEF Pages!Whole
      <3>2. line.start = 1 /\ line.end = 0
        BY DEF Pages!ToEof
      <3> HIDE DEF line
      <3>3. <<>> \in Seq({line}) /\ <<line>> \in Seq({line}) /\ Len(<<line>>) = 1 /\ <<line>>[1] = line
            /\ Len(<<>>) = 0
        BY EmptySeq
      <3>4. CASE ranges = <<>>
        <4>1. IsSeq(ranges) /\ Len(ranges) = 0
          BY <3>3, <3>4 DEF IsSeq
        <4>2. QED
          BY <4>1
      <3>5. CASE ranges = <<line>>
        <4>1. IsSeq(ranges) /\ Len(ranges) = 1 /\ ranges[1].start = 1 /\ ranges[1].end = 0
          BY <3>2, <3>3, <3>5 DEF IsSeq
        <4>2. QED
          BY <4>1
      <3>6. QED
        BY <3>1, <3>4, <3>5
    <2>3. QED
      BY <2>1, <2>2
  <1> DEFINE content == projection.content
  <1>3. IsSeq(content)
    BY <1>1, <1>2, ProjectedSeq DEF PagesInv
  <1>4. /\ \E T : content \in Seq(T)
        /\ \E k \in Nat : k = Len(content)
    BY <1>3, LenProperties DEF IsSeq
  <1>5. PICK T : content \in Seq(T)
    BY <1>4
  <1>6. PICK k \in Nat : k = Len(content)
    BY <1>4
  <1>7. prefix \in 0..k
    BY <1>1, <1>3, <1>6, PrefixWithin
  <1>8. /\ page'.artifact = content /\ page'.delivered = SubSeq(content, 1, prefix)
        /\ page'.next = Pages!Continuation(content, 0, 1, prefix)
        /\ DOMAIN page' = {"artifact", "delivered", "next"}
    BY <1>1
  <1> HIDE DEF content
  <1>9. DeliveredTo(page', 0 + prefix)
    <2>1. 0 \in 0..Len(content) /\ prefix \in 0..(Len(content) - 0)
      BY <1>7, <1>6
    <2>2. SubSeq(content, 1, 0) = <<>> /\ SubSeq(content, 0 + 1, Len(content)) = content
      BY <1>5, SubSeqEmpty, SubSeqFull
    <2>3. Pages!Terminators(SubSeq(content, 1, 0)) + 1 = 1
      <3>1. Pages!Breaks(<<>>) = {}
        BY DEF Pages!Breaks
      <3>2. Pages!Terminators(<<>>) = 0
        BY <3>1, FS_EmptySet, PagesCounts DEF Pages!Terminators
      <3>3. Pages!Terminators(SubSeq(content, 1, 0)) = 0
        BY <2>2, <3>2, Zenon
      <3>4. QED
        BY <3>3
    <2>4. page'.delivered = SubSeq(content, 1, 0 + prefix)
      <3>1. 0 + prefix = prefix
        BY <1>7
      <3>2. QED
        BY <1>8, <3>1, Zenon
    <2>5. page'.next = Pages!Continuation(SubSeq(content, 0 + 1, Len(content)), 0,
                           Pages!Terminators(SubSeq(content, 1, 0)) + 1, prefix)
      BY <1>8, <2>2, <2>3, Zenon
    <2>6. QED
      BY <1>8, <1>5, <2>1, <2>4, <2>5, Continues
  <1>10. Delivered(page')
    BY <1>3, <1>8, <1>9 DEF Delivered
  <1>11. QED
    BY <1>1, <1>10 DEF PagesInv, Delivered, DeliveredTo, IsSeq

\* A continuation is followed where the page before it ended.
LEMMA PagesFollow ==
    ASSUME PagesInv, NEW limits \in PageLimits, Pages!Follow(limits)
    PROVE  PagesInv'
  <1> DEFINE a == page.artifact
  <1>1. PICK rest, prefix :
           /\ page.next # Pages!AtEnd
           /\ rest = Pages!Resume(a, page.next)
           /\ prefix = Pages!PagePrefix(rest.content, limits)
           /\ page' = [page EXCEPT
                  !.delivered = @ \o SubSeq(rest.content, 1, prefix),
                  !.next = Pages!Continuation(rest.content, rest.offset, rest.line, prefix)]
           /\ UNCHANGED text
    BY Zenon DEF Pages!Follow
  <1>2. PICK T, p : a \in Seq(T) /\ DeliveredTo(page, p)
    BY DEF PagesInv, Delivered, IsSeq
  <1>3. PICK k \in Nat : k = Len(a)
    BY <1>2, LenProperties
  <1>4. p \in 0..k /\ page.delivered = SubSeq(a, 1, p)
    BY <1>2, <1>3 DEF DeliveredTo
  <1>5. rest = [content |-> SubSeq(a, p + 1, k), offset |-> p,
                line |-> Pages!Terminators(SubSeq(a, 1, p)) + 1]
    <2> DEFINE offset == IF page.next.kind = "line" THEN Pages!LineOffset(a, page.next.line)
                         ELSE page.next.offset
    <2>1. offset = p
      <3>1. CASE page.next = Pages!AtOffset(p)
        BY <3>1 DEF Pages!AtOffset
      <3>2. CASE /\ p > 0 /\ a[p] \in Pages!Newlines
                 /\ page.next = Pages!AtLine(Pages!Terminators(SubSeq(a, 1, p)) + 1)
        <4>1. p \in 1..Len(a)
          BY <1>3, <1>4, <3>2
        <4>2. Pages!LineOffset(a, Pages!Terminators(SubSeq(a, 1, p)) + 1) = p
          BY <1>2, <3>2, <4>1, LineAfterBreak
        <4>3. QED
          BY <3>2, <4>2 DEF Pages!AtLine
      <3>3. QED
        BY <1>1, <1>2, <3>1, <3>2 DEF DeliveredTo
    <2>2. rest = [content |-> SubSeq(a, offset + 1, Len(a)), offset |-> offset,
                  line |-> Pages!Terminators(SubSeq(a, 1, offset)) + 1]
      BY <1>1, Zenon DEF Pages!Resume
    <2> HIDE DEF offset
    <2>3. QED
      BY <1>3, <2>1, <2>2
  <1>6. /\ rest.content = SubSeq(a, p + 1, k) /\ rest.offset = p
        /\ rest.line = Pages!Terminators(SubSeq(a, 1, p)) + 1
    BY <1>5
  <1>7. rest.content \in Seq(T) /\ Len(rest.content) = k - p /\ k - p \in Nat
        /\ \A i \in 1..(k - p) : rest.content[i] = a[p + i]
    <2>1. p \in 0..Len(a) /\ k \in p..Len(a)
      BY <1>3, <1>4
    <2>2. QED
      BY <1>2, <1>4, <1>6, <2>1, PartOf
  <1>8. prefix \in 0..(k - p)
    <2>1. IsSeq(rest.content)
      BY <1>7 DEF IsSeq
    <2>2. QED
      BY <1>1, <1>7, <2>1, PrefixWithin
  <1>9. DOMAIN page = {"artifact", "delivered", "next"}
    BY DEF PagesInv, Delivered
  <1>10. /\ page'.artifact = a /\ DOMAIN page' = {"artifact", "delivered", "next"}
         /\ page'.delivered = SubSeq(a, 1, p) \o SubSeq(rest.content, 1, prefix)
         /\ page'.next = Pages!Continuation(rest.content, rest.offset, rest.line, prefix)
    BY <1>1, <1>4, <1>9
  <1> HIDE DEF a
  <1>11. page'.delivered = SubSeq(a, 1, p + prefix)
    <2>1. prefix \in Nat /\ p \in Nat /\ p + prefix <= k
      BY <1>4, <1>8
    <2>2. SubSeq(rest.content, 1, prefix) = SubSeq(a, p + 1, p + prefix)
      <3>1. SubSeq(rest.content, 1, prefix) = [i \in 1..prefix |-> rest.content[i]]
        BY <1>7, <1>8
      <3>2. SubSeq(a, p + 1, p + prefix) = [i \in 1..prefix |-> a[p + i]]
        <4>1. p \in 0..Len(a) /\ p + prefix \in p..Len(a) /\ (p + prefix) - p = prefix
          BY <1>3, <2>1
        <4>2. SubSeq(a, p + 1, p + prefix) \in Seq(T)
              /\ Len(SubSeq(a, p + 1, p + prefix)) = prefix
              /\ \A i \in 1..prefix : SubSeq(a, p + 1, p + prefix)[i] = a[p + i]
          BY <1>2, <4>1, PartOf
        <4>3. QED
          BY <4>2, LenProperties
      <3>3. \A i \in 1..prefix : rest.content[i] = a[p + i]
        BY <1>7, <1>8
      <3>4. QED
        BY <3>1, <3>2, <3>3
    <2>3. SubSeq(a, 1, p) \o SubSeq(a, p + 1, p + prefix) = SubSeq(a, 1, p + prefix)
      <3>1. 1 \in 1..Len(a) + 1 /\ p \in 1 - 1..Len(a) /\ p + prefix \in p..Len(a)
        BY <1>3, <1>4, <2>1
      <3>2. QED
        BY <1>2, <3>1, ConcatAdjacentSubSeq
    <2>4. QED
      BY <1>10, <2>2, <2>3
  <1>12. DeliveredTo(page', p + prefix)
    <2>1. p \in 0..Len(a) /\ prefix \in 0..(Len(a) - p)
      BY <1>3, <1>4, <1>8
    <2>2. page'.next = Pages!Continuation(SubSeq(a, p + 1, Len(a)), p,
                              Pages!Terminators(SubSeq(a, 1, p)) + 1, prefix)
      BY <1>3, <1>6, <1>10
    <2>3. QED
      BY <1>2, <1>10, <1>11, <2>1, <2>2, Continues
  <1>13. Delivered(page')
    <2>1. IsSeq(page'.artifact)
      BY <1>2, <1>10 DEF IsSeq
    <2>2. QED
      BY <1>10, <1>12, <2>1 DEF Delivered
  <1>14. QED
    BY <1>1, <1>13 DEF PagesInv, Delivered, DeliveredTo, IsSeq

-----------------------------------------------------------------------------
(* Pages: the lines of texts that are joined *)

\* A text that a row may follow as a line of its own, and one that ends in the
\* middle of a line.
Sealed(s) == s = <<>> \/ Pages!EndsWithNewline(s)
Open(s) == s # <<>> /\ ~Pages!EndsWithNewline(s)

\* The line break that ends line n.
BreakAt(s, n, p) ==
    /\ p \in 1..Len(s) /\ s[p] \in Pages!Newlines
    /\ Pages!Terminators(SubSeq(s, 1, p)) = n

\* A part of two texts that are joined, within one of them.
LEMMA PartsOfJoined ==
    ASSUME NEW T, NEW a \in Seq(T), NEW b \in Seq(T)
    PROVE  /\ \A p \in 0..Len(a) : \A q \in p..Len(a) :
                SubSeq(a \o b, p + 1, q) = SubSeq(a, p + 1, q)
           /\ \A p \in 0..Len(b) : \A q \in p..Len(b) :
                SubSeq(a \o b, (Len(a) + p) + 1, Len(a) + q) = SubSeq(b, p + 1, q)
  <1> DEFINE c == a \o b
  <1>1. /\ c \in Seq(T) /\ Len(c) = Len(a) + Len(b) /\ Len(a) \in Nat /\ Len(b) \in Nat
        /\ \A i \in 1..(Len(a) + Len(b)) : c[i] = IF i <= Len(a) THEN a[i] ELSE b[i - Len(a)]
    BY ConcatProperties, LenProperties
  <1> HIDE DEF c
  <1>2. ASSUME NEW p \in 0..Len(a), NEW q \in p..Len(a)
        PROVE  SubSeq(c, p + 1, q) = SubSeq(a, p + 1, q)
    <2>1. p \in 0..Len(c) /\ q \in p..Len(c)
      BY <1>1
    <2>2. /\ SubSeq(c, p + 1, q) \in Seq(T) /\ Len(SubSeq(c, p + 1, q)) = q - p
          /\ \A i \in 1..(q - p) : SubSeq(c, p + 1, q)[i] = c[p + i]
      BY <1>1, <2>1, PartOf
    <2>3. /\ SubSeq(a, p + 1, q) \in Seq(T) /\ Len(SubSeq(a, p + 1, q)) = q - p
          /\ \A i \in 1..(q - p) : SubSeq(a, p + 1, q)[i] = a[p + i]
      BY PartOf
    <2>4. \A i \in 1..(q - p) : c[p + i] = a[p + i]
      BY <1>1
    <2>5. QED
      BY <2>2, <2>3, <2>4, SeqEqual
  <1>3. ASSUME NEW p \in 0..Len(b), NEW q \in p..Len(b)
        PROVE  SubSeq(c, (Len(a) + p) + 1, Len(a) + q) = SubSeq(b, p + 1, q)
    <2> DEFINE u == Len(a) + p
               v == Len(a) + q
    <2>1. u \in 0..Len(c) /\ v \in u..Len(c) /\ v - u = q - p
      BY <1>1
    <2>2. \A i \in 1..(q - p) : c[u + i] = b[p + i]
      <3>1. TAKE i \in 1..(q - p)
      <3>2. u + i \in 1..(Len(a) + Len(b)) /\ ~(u + i <= Len(a)) /\ (u + i) - Len(a) = p + i
        BY <1>1
      <3>3. QED
        BY <1>1, <3>2
    <2> HIDE DEF u, v
    <2>3. /\ SubSeq(c, u + 1, v) \in Seq(T) /\ Len(SubSeq(c, u + 1, v)) = q - p
          /\ \A i \in 1..(q - p) : SubSeq(c, u + 1, v)[i] = c[u + i]
      BY <1>1, <2>1, PartOf
    <2>4. /\ SubSeq(b, p + 1, q) \in Seq(T) /\ Len(SubSeq(b, p + 1, q)) = q - p
          /\ \A i \in 1..(q - p) : SubSeq(b, p + 1, q)[i] = b[p + i]
      BY PartOf
    <2>5. SubSeq(c, u + 1, v) = SubSeq(b, p + 1, q)
      BY <2>2, <2>3, <2>4, SeqEqual, ZenonT(40)
    <2>6. QED
      BY <2>5 DEF u, v
  <1>4. QED
    BY <1>2, <1>3 DEF c

\* How a text ends, and how many lines it has.
LEMMA EndOf ==
    ASSUME NEW T, NEW s \in Seq(T)
    PROVE  /\ Len(s) \in Nat /\ (s = <<>> <=> Len(s) = 0)
           /\ Sealed(s) <=> ~Open(s)
           /\ Pages!EndsWithNewline(s) <=> s # <<>> /\ s[Len(s)] \in Pages!Newlines
           /\ Sealed(s) <=> (s # <<>> => s[Len(s)] \in Pages!Newlines)
  <1>1. Len(s) \in Nat /\ (s = <<>> <=> Len(s) = 0)
    BY LenProperties, EmptySeq
  <1>2. Pages!EndsWithNewline(s) <=> s # <<>> /\ s[Len(s)] \in Pages!Newlines
    BY DEF Pages!EndsWithNewline, Pages!Last
  <1>3. QED
    BY <1>1, <1>2 DEF Sealed, Open

LEMMA LinesOf ==
    ASSUME NEW T, NEW s \in Seq(T)
    PROVE  /\ Pages!LineCount(s) \in Nat /\ Pages!Terminators(s) \in Nat
           /\ Open(s) => Pages!LineCount(s) = Pages!Terminators(s) + 1
           /\ Sealed(s) => Pages!LineCount(s) = Pages!Terminators(s)
  <1>1. Pages!Terminators(s) \in Nat
    BY BreaksFinite
  <1>2. Pages!LineCount(s) = Pages!Terminators(s) + IF Open(s) THEN 1 ELSE 0
    BY DEF Pages!LineCount, Open
  <1>3. Sealed(s) <=> ~Open(s)
    BY EndOf
  <1>4. QED
    BY <1>1, <1>2, <1>3

\* The line breaks of a part that is nothing, one token or all of a text.
LEMMA TerminatorsFew ==
    ASSUME NEW T, NEW s \in Seq(T)
    PROVE  /\ Pages!Terminators(SubSeq(s, 1, 0)) = 0
           /\ Pages!Terminators(SubSeq(s, 1, Len(s))) = Pages!Terminators(s)
           /\ \A p \in 1..Len(s) : Pages!Terminators(SubSeq(s, p, p)) =
                                      IF s[p] \in Pages!Newlines THEN 1 ELSE 0
  <1>1. Len(s) \in Nat
    BY LenProperties
  <1>2. Pages!Terminators(SubSeq(s, 1, 0)) = 0
    <2>1. 0 \in 0..Len(s) /\ 0 \in 0..0
      BY <1>1
    <2> DEFINE e == SubSeq(s, 0 + 1, 0)
    <2>2. e \in Seq(T) /\ Len(e) = 0
      BY <2>1, PartOf
    <2> HIDE DEF e
    <2>3. Pages!Breaks(e) = {}
      <3>1. Pages!Breaks(e) = {i \in 1..Len(e) : e[i] \in Pages!Newlines}
        BY <2>2, BreaksFinite
      <3>2. 1..Len(e) = {}
        BY <2>2
      <3>3. QED
        BY <3>1, <3>2
    <2>4. Pages!Terminators(e) = 0
      BY <2>2, <2>3, BreaksFinite, FS_EmptySet
    <2>5. QED
      BY <2>4 DEF e
  <1>3. Pages!Terminators(SubSeq(s, 1, Len(s))) = Pages!Terminators(s)
    BY SubSeqFull
  <1>4. ASSUME NEW p \in 1..Len(s)
        PROVE  Pages!Terminators(SubSeq(s, p, p)) = IF s[p] \in Pages!Newlines THEN 1 ELSE 0
    <2> DEFINE o == p - 1
               e == SubSeq(s, o + 1, p)
               one == {1}
    <2>1. o \in 0..Len(s) /\ p \in o..Len(s) /\ p - o = 1 /\ o + 1 = p /\ 1 \in 1..1
      BY <1>1
    <2> HIDE DEF o
    <2>2. e \in Seq(T) /\ Len(e) = 1 /\ e[1] = s[p]
      <3>1. e \in Seq(T) /\ Len(e) = p - o /\ \A i \in 1..(p - o) : e[i] = s[o + i]
        BY <2>1, PartOf
      <3> HIDE DEF e
      <3>2. QED
        BY <2>1, <3>1
    <2>3. IsFiniteSet(one) /\ Cardinality(one) = 1
      BY FS_Singleton
    <2> HIDE DEF e
    <2>4. Pages!Breaks(e) = IF s[p] \in Pages!Newlines THEN one ELSE {}
      BY <2>2, BreaksFinite
    <2> HIDE DEF one
    <2>5. Pages!Terminators(e) = IF s[p] \in Pages!Newlines THEN 1 ELSE 0
      BY <2>2, <2>3, <2>4, BreaksFinite, FS_EmptySet
    <2>6. QED
      BY <2>1, <2>5 DEF e
  <1>5. QED
    BY <1>2, <1>3, <1>4

\* Every line break is the break of a line.
LEMMA OneBreak ==
    ASSUME NEW T, NEW s \in Seq(T), NEW n \in 1..Pages!Terminators(s)
    PROVE  \E p : BreakAt(s, n, p)
  <1> DEFINE t(p) == Pages!Terminators(SubSeq(s, 1, p))
             S == {p \in 0..Len(s) : n <= t(p)}
  <1>1. Len(s) \in Nat /\ t(0) = 0 /\ t(Len(s)) = Pages!Terminators(s) /\ Pages!Terminators(s) \in Nat
    BY LenProperties, TerminatorsFew, BreaksFinite
  <1>2. PICK p \in S : \A q \in S : p <= q
    <2>1. Len(s) \in S
      BY <1>1
    <2>2. S \in SUBSET Nat /\ S # {}
      BY <2>1
    <2> HIDE DEF S
    <2>3. QED
      BY <2>2, LeastOf
  <1>3. p \in 1..Len(s) /\ n <= t(p) /\ p - 1 \in 0..Len(s) /\ p \in (p - 1)..Len(s)
    BY <1>1, <1>2
  <1>4. ~(n <= t(p - 1))
    <2>1. p - 1 \notin S
      <3>1. ~(p <= p - 1)
        BY <1>3
      <3> HIDE DEF S
      <3>2. QED
        BY <1>2, <3>1
    <2>2. QED
      BY <1>3, <2>1
  <1>5. t(p) = t(p - 1) + Pages!Terminators(SubSeq(s, (p - 1) + 1, p))
    BY <1>3, TerminatorsSplit
  <1>6. Pages!Terminators(SubSeq(s, p, p)) = IF s[p] \in Pages!Newlines THEN 1 ELSE 0
    BY <1>3, TerminatorsFew
  <1>7. t(p - 1) \in Nat
    <2>1. SubSeq(s, 0 + 1, p - 1) \in Seq(T)
      <3>1. 0 \in 0..Len(s) /\ p - 1 \in 0..Len(s)
        BY <1>3
      <3>2. QED
        BY <3>1, PartOf
    <2>2. 0 + 1 = 1
      OBVIOUS
    <2>3. SubSeq(s, 1, p - 1) \in Seq(T)
      BY <2>1, <2>2
    <2>4. QED
      BY <2>3, BreaksFinite
  <1>8. (p - 1) + 1 = p
    BY <1>3
  <1> HIDE DEF t
  <1>9. t(p) = n /\ s[p] \in Pages!Newlines
    BY <1>3, <1>4, <1>5, <1>6, <1>7, <1>8
  <1>10. QED
    BY <1>3, <1>9 DEF BreakAt, t

\* Where lines begin.
LEMMA Offsets ==
    ASSUME NEW T, NEW s \in Seq(T)
    PROVE  /\ Pages!LineOffset(s, 1) = 0
           /\ \A n \in Nat : \A p : BreakAt(s, n, p) => Pages!LineOffset(s, n + 1) = p
           /\ \A n \in Nat : n > Pages!Terminators(s) + 1 => Pages!LineOffset(s, n) = Len(s)
           /\ Pages!LineOffset(s, Pages!LineCount(s) + 1) = Len(s)
  <1> DEFINE B == Pages!Breaks(s)
             starts == {0} \cup B
             below(i) == {j \in starts : j < i}
  <1>1. /\ Len(s) \in Nat /\ B \subseteq 1..Len(s) /\ IsFiniteSet(B)
        /\ Pages!Terminators(s) = Cardinality(B) /\ Pages!Terminators(s) \in Nat
    BY LenProperties, BreaksFinite
  <1>2. IsFiniteSet(starts) /\ Cardinality(starts) = Pages!Terminators(s) + 1
    <2>1. 0 \notin B /\ starts = B \cup {0}
      BY <1>1
    <2> HIDE DEF B, starts
    <2>2. QED
      BY <1>1, <2>1, FS_AddElement
  <1>3. ASSUME NEW n
        PROVE  Pages!LineOffset(s, n) = IF n > Cardinality(starts) THEN Len(s)
                  ELSE CHOOSE i \in starts : Pages!Cardinality(below(i)) = n - 1
    BY PagesCounts DEF Pages!LineOffset
  <1>4. Pages!LineOffset(s, 1) = 0
    <2>1. 0 \in starts /\ below(0) = {}
      BY <1>1
    <2>2. \A i \in starts : i # 0 => 0 \in below(i)
      BY <1>1
    <2>3. ASSUME NEW i \in starts
          PROVE  Cardinality(below(i)) = 0 <=> i = 0
      <3>1. below(i) \subseteq starts
        OBVIOUS
      <3> HIDE DEF below, starts
      <3>2. IsFiniteSet(below(i))
        BY <1>2, <3>1, FS_Subset
      <3>3. Cardinality(below(i)) = 0 <=> below(i) = {}
        BY <3>2, FS_EmptySet
      <3>4. QED
        BY <2>1, <2>2, <3>3
    <2> HIDE DEF below, starts
    <2>4. (CHOOSE i \in starts : Pages!Cardinality(below(i)) = 1 - 1) = 0
      BY <2>1, <2>3, PagesCounts
    <2>5. ~(1 > Cardinality(starts))
      BY <1>1, <1>2
    <2>6. QED
      BY <1>3, <2>4, <2>5
  <1> HIDE DEF below, starts, B
  <1>5. ASSUME NEW n \in Nat, NEW p, BreakAt(s, n, p)
        PROVE  Pages!LineOffset(s, n + 1) = p
    BY <1>5, LineAfterBreak DEF BreakAt
  <1>6. ASSUME NEW n \in Nat, n > Pages!Terminators(s) + 1
        PROVE  Pages!LineOffset(s, n) = Len(s)
    BY <1>2, <1>3, <1>6
  <1>7. Pages!LineOffset(s, Pages!LineCount(s) + 1) = Len(s)
    <2>1. CASE Open(s)
      <3>1. Pages!LineCount(s) + 1 \in Nat /\ Pages!LineCount(s) + 1 > Pages!Terminators(s) + 1
        BY <1>1, <2>1, LinesOf
      <3>2. QED
        BY <1>6, <3>1
    <2>2. CASE s = <<>>
      <3>1. Len(s) = 0 /\ Sealed(s)
        BY <2>2, EndOf DEF Sealed
      <3>2. B = {}
        BY <1>1, <3>1
      <3>3. Pages!LineCount(s) = 0
        BY <1>1, <3>1, <3>2, LinesOf, FS_EmptySet
      <3>4. QED
        BY <1>4, <3>1, <3>3
    <2>3. CASE ~Open(s) /\ s # <<>>
      <3>1. Sealed(s) /\ Len(s) \in 1..Len(s) /\ s[Len(s)] \in Pages!Newlines
        BY <1>1, <2>3, EndOf
      <3>2. BreakAt(s, Pages!Terminators(s), Len(s))
        BY <3>1, TerminatorsFew DEF BreakAt
      <3>3. Pages!LineCount(s) = Pages!Terminators(s)
        BY <3>1, LinesOf
      <3>4. QED
        BY <1>1, <1>5, <3>2, <3>3
    <2>4. QED
      BY <2>1, <2>2, <2>3
  <1>8. QED
    BY <1>4, <1>5, <1>6, <1>7

LEMMA EndOfJoined ==
    ASSUME NEW T, NEW a \in Seq(T), NEW b \in Seq(T)
    PROVE  /\ a \o b \in Seq(T) /\ Len(a \o b) = Len(a) + Len(b)
           /\ b = <<>> => a \o b = a
           /\ a = <<>> => a \o b = b
           /\ b # <<>> => /\ a \o b # <<>>
                          /\ Pages!EndsWithNewline(a \o b) <=> Pages!EndsWithNewline(b)
                          /\ Sealed(a \o b) <=> Sealed(b)
                          /\ Open(a \o b) <=> Open(b)
           /\ Sealed(a) /\ Sealed(b) => Sealed(a \o b)
  <1> DEFINE c == a \o b
  <1>1. /\ c \in Seq(T) /\ Len(c) = Len(a) + Len(b)
        /\ \A i \in 1..(Len(a) + Len(b)) : c[i] = IF i <= Len(a) THEN a[i] ELSE b[i - Len(a)]
    BY ConcatProperties
  <1>2. b = <<>> => c = a
    BY ConcatEmptySeq
  <1>3. a = <<>> => c = b
    BY ConcatEmptySeq
  <1> HIDE DEF c
  <1>4. ASSUME b # <<>>
        PROVE  c # <<>> /\ c[Len(c)] = b[Len(b)]
    <2>1. Len(a) \in Nat /\ Len(b) \in Nat /\ Len(b) # 0
      BY <1>4, EndOf
    <2>2. Len(c) # 0 /\ Len(c) \in 1..(Len(a) + Len(b)) /\ ~(Len(c) <= Len(a)) /\ Len(c) - Len(a) = Len(b)
      BY <1>1, <2>1
    <2>3. QED
      BY <1>1, <2>2, EndOf
  <1>5. ASSUME b # <<>>
        PROVE  /\ Pages!EndsWithNewline(c) <=> Pages!EndsWithNewline(b)
               /\ Sealed(c) <=> Sealed(b)
               /\ Open(c) <=> Open(b)
    <2>1. Pages!EndsWithNewline(c) <=> Pages!EndsWithNewline(b)
      BY <1>1, <1>4, <1>5, EndOf
    <2>2. QED
      BY <1>4, <1>5, <2>1 DEF Sealed, Open
  <1>6. Sealed(a) /\ Sealed(b) => Sealed(c)
    BY <1>2, <1>5
  <1>7. QED
    BY <1>1, <1>2, <1>3, <1>4, <1>5, <1>6 DEF c

\* Line breaks of texts that are joined.
LEMMA TerminatorsJoined ==
    ASSUME NEW T, NEW a \in Seq(T), NEW b \in Seq(T)
    PROVE  Pages!Terminators(a \o b) = Pages!Terminators(a) + Pages!Terminators(b)
  <1> DEFINE c == a \o b
             p == Len(a)
             q == Len(b)
  <1>1. c \in Seq(T) /\ Len(c) = p + q /\ p \in Nat /\ q \in Nat
    BY EndOfJoined, EndOf
  <1>2. /\ \A i \in 0..p : \A j \in i..p : SubSeq(c, i + 1, j) = SubSeq(a, i + 1, j)
        /\ \A i \in 0..q : \A j \in i..q : SubSeq(c, (p + i) + 1, p + j) = SubSeq(b, i + 1, j)
    BY PartsOfJoined
  <1>3. SubSeq(a, 1, p) = a /\ SubSeq(b, 1, q) = b /\ SubSeq(c, 1, Len(c)) = c
    <2> HIDE DEF c
    <2>1. QED
      BY <1>1, SubSeqFull
  <1> HIDE DEF c, p, q
  <1>4. SubSeq(c, 1, p) = a
    <2>1. 0 \in 0..p /\ p \in 0..p /\ 0 + 1 = 1
      BY <1>1
    <2>2. QED
      BY <1>2, <1>3, <2>1
  <1>5. SubSeq(c, p + 1, p + q) = b
    <2>1. 0 \in 0..q /\ q \in 0..q /\ 0 + 1 = 1 /\ p + 0 = p
      BY <1>1
    <2>2. SubSeq(c, (p + 0) + 1, p + q) = SubSeq(b, 0 + 1, q)
      BY <1>2, <2>1
    <2>3. QED
      BY <1>3, <2>1, <2>2
  <1>6. p \in 0..Len(c) /\ p + q \in p..Len(c)
    BY <1>1
  <1>7. Pages!Terminators(SubSeq(c, 1, p + q))
          = Pages!Terminators(SubSeq(c, 1, p)) + Pages!Terminators(SubSeq(c, p + 1, p + q))
    BY <1>1, <1>6, TerminatorsSplit
  <1>8. QED
    BY <1>1, <1>3, <1>4, <1>5, <1>7 DEF c

LEMMA BreaksJoined ==
    ASSUME NEW T, NEW a \in Seq(T), NEW b \in Seq(T), NEW n \in Nat, NEW p
    PROVE  /\ BreakAt(a, n, p) => BreakAt(a \o b, n, p)
           /\ BreakAt(b, n, p) => BreakAt(a \o b, Pages!Terminators(a) + n, Len(a) + p)
  <1> DEFINE c == a \o b
  <1>1. c \in Seq(T) /\ Len(c) = Len(a) + Len(b) /\ Len(a) \in Nat /\ Len(b) \in Nat
    BY EndOfJoined, EndOf
  <1>2. /\ \A i \in 0..Len(a) : \A j \in i..Len(a) : SubSeq(c, i + 1, j) = SubSeq(a, i + 1, j)
        /\ \A i \in 0..Len(b) : \A j \in i..Len(b) :
             SubSeq(c, (Len(a) + i) + 1, Len(a) + j) = SubSeq(b, i + 1, j)
    BY PartsOfJoined
  <1>3. \A i \in 1..(Len(a) + Len(b)) : c[i] = IF i <= Len(a) THEN a[i] ELSE b[i - Len(a)]
    BY ConcatProperties
  <1> HIDE DEF c
  <1>4. ASSUME BreakAt(a, n, p)
        PROVE  BreakAt(c, n, p)
    <2>1. p \in 1..Len(a) /\ a[p] \in Pages!Newlines /\ Pages!Terminators(SubSeq(a, 1, p)) = n
      BY <1>4 DEF BreakAt
    <2>2. 0 \in 0..Len(a) /\ p \in 0..Len(a) /\ 0 + 1 = 1 /\ p \in 1..Len(c) /\ p <= Len(a)
          /\ p \in 1..(Len(a) + Len(b))
      BY <1>1, <2>1
    <2>3. SubSeq(c, 1, p) = SubSeq(a, 1, p)
      BY <1>2, <2>2
    <2>4. QED
      BY <1>3, <2>1, <2>2, <2>3 DEF BreakAt
  <1>5. ASSUME BreakAt(b, n, p)
        PROVE  BreakAt(c, Pages!Terminators(a) + n, Len(a) + p)
    <2> DEFINE u == Len(a)
               v == Len(a) + p
    <2>1. p \in 1..Len(b) /\ b[p] \in Pages!Newlines /\ Pages!Terminators(SubSeq(b, 1, p)) = n
      BY <1>5 DEF BreakAt
    <2>2. /\ v \in 1..Len(c) /\ v \in 1..(Len(a) + Len(b)) /\ ~(v <= Len(a)) /\ v - Len(a) = p
          /\ u \in 0..Len(c) /\ v \in u..Len(c) /\ p \in 0..Len(b)
      BY <1>1, <2>1
    <2>3. SubSeq(c, u + 1, v) = SubSeq(b, 1, p)
      <3>1. 0 \in 0..Len(b) /\ p \in 0..Len(b) /\ Len(a) + 0 = u /\ 0 + 1 = 1
        BY <1>1, <2>2
      <3>2. SubSeq(c, (Len(a) + 0) + 1, Len(a) + p) = SubSeq(b, 0 + 1, p)
        BY <1>2, <3>1
      <3>3. QED
        BY <3>1, <3>2
    <2>4. SubSeq(c, 1, u) = a
      <3>1. 0 \in 0..Len(a) /\ Len(a) \in 0..Len(a) /\ 0 + 1 = 1
        BY <1>1
      <3>2. SubSeq(a, 1, Len(a)) = a
        BY SubSeqFull
      <3>3. QED
        BY <1>2, <3>1, <3>2
    <2> HIDE DEF u, v
    <2>5. Pages!Terminators(SubSeq(c, 1, v)) = Pages!Terminators(a) + n
      <3>1. Pages!Terminators(SubSeq(c, 1, v))
              = Pages!Terminators(SubSeq(c, 1, u)) + Pages!Terminators(SubSeq(c, u + 1, v))
        BY <1>1, <2>2, TerminatorsSplit
      <3>2. QED
        BY <2>1, <2>3, <2>4, <3>1
    <2>6. c[v] \in Pages!Newlines
      BY <1>3, <2>1, <2>2
    <2>7. QED
      BY <2>2, <2>5, <2>6 DEF BreakAt, v
  <1>6. QED
    BY <1>4, <1>5 DEF c

\* Where the lines of texts that are joined begin.
LEMMA OffsetsJoined ==
    ASSUME NEW T, NEW a \in Seq(T), NEW b \in Seq(T)
    PROVE  /\ \A n \in 1..(Pages!Terminators(a) + 1) :
                Pages!LineOffset(a \o b, n) = Pages!LineOffset(a, n)
           /\ \A n \in Nat \ {0} : n > 1 \/ Sealed(a) =>
                Pages!LineOffset(a \o b, Pages!Terminators(a) + n) = Len(a) + Pages!LineOffset(b, n)
  <1> DEFINE c == a \o b
             t == Pages!Terminators(a)
             u == Pages!Terminators(b)
  <1>1. c \in Seq(T) /\ Len(c) = Len(a) + Len(b) /\ Len(a) \in Nat /\ Len(b) \in Nat
    BY EndOfJoined, EndOf
  <1>2. t \in Nat /\ u \in Nat /\ Pages!Terminators(c) = t + u
    BY LinesOf, TerminatorsJoined
  <1>3. \A n \in Nat : \A p :
          /\ BreakAt(a, n, p) => BreakAt(c, n, p)
          /\ BreakAt(b, n, p) => BreakAt(c, t + n, Len(a) + p)
    BY BreaksJoined
  <1> HIDE DEF c
  <1>4. ASSUME NEW n \in 1..(t + 1)
        PROVE  Pages!LineOffset(c, n) = Pages!LineOffset(a, n)
    <2>1. CASE n = 1
      BY <1>1, <2>1, Offsets
    <2>2. CASE n # 1
      <3> DEFINE m == n - 1
      <3>1. m \in 1..t /\ m \in Nat /\ m + 1 = n
        BY <1>2, <2>2
      <3> HIDE DEF m
      <3>2. PICK p : BreakAt(a, m, p)
        BY <3>1, OneBreak
      <3>3. BreakAt(c, m, p)
        BY <1>3, <3>1, <3>2
      <3>4. Pages!LineOffset(c, m + 1) = p /\ Pages!LineOffset(a, m + 1) = p
        BY <1>1, <3>1, <3>2, <3>3, Offsets
      <3>5. QED
        BY <3>1, <3>4
    <2>3. QED
      BY <2>1, <2>2
  <1>5. ASSUME NEW n \in Nat \ {0}, n > 1
        PROVE  Pages!LineOffset(c, t + n) = Len(a) + Pages!LineOffset(b, n)
    <2> DEFINE m == n - 1
    <2>1. m \in Nat \ {0} /\ m + 1 = n /\ t + n = (t + m) + 1 /\ t + m \in Nat /\ t + n \in Nat
      BY <1>2, <1>5
    <2>2. CASE n <= u + 1
      <3>1. m \in 1..u
        BY <1>2, <2>1, <2>2
      <3> HIDE DEF m
      <3>2. PICK p : BreakAt(b, m, p)
        BY <3>1, OneBreak
      <3>3. BreakAt(c, t + m, Len(a) + p)
        BY <1>3, <2>1, <3>2
      <3>4. Pages!LineOffset(c, (t + m) + 1) = Len(a) + p
        BY <1>1, <2>1, <3>3, Offsets
      <3>5. Pages!LineOffset(b, m + 1) = p
        BY <2>1, <3>2, Offsets
      <3>6. QED
        BY <2>1, <3>4, <3>5
    <2>3. CASE ~(n <= u + 1)
      <3>1. n > u + 1 /\ t + n > Pages!Terminators(c) + 1
        BY <1>2, <2>3
      <3>2. Pages!LineOffset(b, n) = Len(b)
        BY <3>1, Offsets
      <3>3. Pages!LineOffset(c, t + n) = Len(c)
        BY <1>1, <2>1, <3>1, Offsets
      <3>4. QED
        BY <1>1, <3>2, <3>3
    <2>4. QED
      BY <2>2, <2>3
  <1>6. ASSUME Sealed(a)
        PROVE  Pages!LineOffset(c, t + 1) = Len(a) + Pages!LineOffset(b, 1)
    <2>1. Pages!LineOffset(b, 1) = 0
      BY Offsets
    <2>2. Pages!LineOffset(a, t + 1) = Len(a)
      BY <1>6, Offsets, LinesOf
    <2>3. t + 1 \in 1..(t + 1)
      BY <1>2
    <2>4. QED
      BY <1>1, <1>4, <2>1, <2>2, <2>3
  <1>7. QED
    BY <1>4, <1>5, <1>6 DEF c

\* The lines of texts that are joined.
LEMMA LinesJoined ==
    ASSUME NEW T, NEW a \in Seq(T), NEW b \in Seq(T)
    PROVE  /\ \A n \in 1..Pages!Terminators(a) :
                Pages!LineTokens(a \o b, n) = Pages!LineTokens(a, n)
           /\ Sealed(a) => \A n \in Nat \ {0} :
                Pages!LineTokens(a \o b, Pages!Terminators(a) + n) = Pages!LineTokens(b, n)
  <1> DEFINE c == a \o b
             t == Pages!Terminators(a)
             A == Len(a)
  <1>1. Len(a) \in Nat /\ Len(b) \in Nat /\ t \in Nat
    BY EndOf, LinesOf
  <1>2. ASSUME NEW p \in 0..Len(a), NEW q \in 0..Len(a)
        PROVE  SubSeq(c, p + 1, q) = SubSeq(a, p + 1, q)
    <2>1. CASE p <= q
      <3>1. q \in p..Len(a)
        BY <1>1, <2>1
      <3>2. QED
        BY <3>1, PartsOfJoined
    <2>2. CASE ~(p <= q)
      <3>1. q < p + 1 /\ p + 1 \in Int /\ q \in Int
        BY <1>1, <2>2
      <3>2. QED
        BY <3>1, SubSeqEmpty
    <2>3. QED
      BY <2>1, <2>2
  <1>3. ASSUME NEW p \in 0..Len(b), NEW q \in 0..Len(b)
        PROVE  SubSeq(c, (A + p) + 1, A + q) = SubSeq(b, p + 1, q)
    <2>1. CASE p <= q
      <3>1. q \in p..Len(b)
        BY <1>1, <2>1
      <3>2. QED
        BY <3>1, PartsOfJoined
    <2>2. CASE ~(p <= q)
      <3> DEFINE u == (A + p) + 1
                 v == A + q
      <3>1. q < p + 1 /\ p + 1 \in Int /\ q \in Int /\ v < u /\ u \in Int /\ v \in Int
        BY <1>1, <2>2
      <3> HIDE DEF u, v, c
      <3>2. SubSeq(c, u, v) = <<>> /\ SubSeq(b, p + 1, q) = <<>>
        BY <3>1, SubSeqEmpty
      <3>3. QED
        BY <3>2 DEF u, v
    <2>3. QED
      BY <2>1, <2>2
  <1> HIDE DEF c, t, A
  <1>4. ASSUME NEW n \in 1..t
        PROVE  Pages!LineTokens(c, n) = Pages!LineTokens(a, n)
    <2>1. n \in 1..(t + 1) /\ n + 1 \in 1..(t + 1) /\ n \in Nat \ {0} /\ n + 1 \in Nat \ {0}
      BY <1>1
    <2>2. /\ Pages!LineOffset(c, n) = Pages!LineOffset(a, n)
          /\ Pages!LineOffset(c, n + 1) = Pages!LineOffset(a, n + 1)
      BY <2>1, OffsetsJoined DEF c, t
    <2>3. Pages!LineOffset(a, n) \in 0..Len(a) /\ Pages!LineOffset(a, n + 1) \in 0..Len(a)
      BY <2>1, LineBegins
    <2>4. QED
      BY <1>2, <2>2, <2>3 DEF Pages!LineTokens
  <1>5. ASSUME Sealed(a), NEW n \in Nat \ {0}
        PROVE  Pages!LineTokens(c, t + n) = Pages!LineTokens(b, n)
    <2>1. n + 1 \in Nat \ {0} /\ (t + n) + 1 = t + (n + 1)
      BY <1>1
    <2>2. /\ Pages!LineOffset(c, t + n) = A + Pages!LineOffset(b, n)
          /\ Pages!LineOffset(c, t + (n + 1)) = A + Pages!LineOffset(b, n + 1)
      BY <1>5, <2>1, OffsetsJoined DEF c, t, A
    <2>3. Pages!LineOffset(b, n) \in 0..Len(b) /\ Pages!LineOffset(b, n + 1) \in 0..Len(b)
      BY <2>1, LineBegins
    <2>4. Pages!LineTokens(c, t + n)
            = SubSeq(c, (A + Pages!LineOffset(b, n)) + 1, A + Pages!LineOffset(b, n + 1))
      BY <2>1, <2>2 DEF Pages!LineTokens
    <2>5. QED
      BY <1>3, <2>3, <2>4 DEF Pages!LineTokens
  <1>6. QED
    BY <1>4, <1>5 DEF c, t

\* A line without its terminator.
RowOf(line) == IF Pages!EndsWithNewline(line) THEN Pages!Front(line) ELSE line

LEMMA RowsOfText ==
    ASSUME NEW T, NEW s \in Seq(T)
    PROVE  /\ Pages!Rows(s) \in Seq(Seq(T)) /\ Len(Pages!Rows(s)) = Pages!LineCount(s)
           /\ \A n \in 1..Pages!LineCount(s) : Pages!Rows(s)[n] = RowOf(Pages!LineTokens(s, n))
           /\ \A n \in Nat \ {0} : /\ Pages!LineTokens(s, n) \in Seq(T)
                                   /\ Pages!LineOffset(s, n) \in 0..Len(s)
  <1> DEFINE m == Pages!LineCount(s)
             r == Pages!Rows(s)
  <1>1. m \in Nat /\ Len(s) \in Nat
    BY LinesOf, EndOf
  <1>2. ASSUME NEW p \in 0..Len(s), NEW q \in 0..Len(s)
        PROVE  SubSeq(s, p + 1, q) \in Seq(T)
    <2>1. \A i \in (p + 1)..q : s[i] \in T
      BY <1>1, ElementOfSeq
    <2>2. p + 1 \in Int /\ q \in Int
      BY <1>1
    <2>3. QED
      BY <2>1, <2>2, SubSeqProperties
  <1>3. \A n \in Nat \ {0} : Pages!LineOffset(s, n) \in 0..Len(s)
    BY LineBegins
  <1>4. ASSUME NEW n \in Nat \ {0}
        PROVE  Pages!LineTokens(s, n) \in Seq(T)
    <2>1. n + 1 \in Nat \ {0}
      OBVIOUS
    <2>2. QED
      BY <1>2, <1>3, <2>1 DEF Pages!LineTokens
  <1>5. ASSUME NEW x \in Seq(T)
        PROVE  RowOf(x) \in Seq(T)
    <2>1. ASSUME Pages!EndsWithNewline(x)
          PROVE  Pages!Front(x) \in Seq(T)
      <3>1. Len(x) \in Nat \ {0}
        BY <2>1, EndOf
      <3>2. 0 \in 0..Len(x) /\ Len(x) - 1 \in 0..Len(x) /\ 0 + 1 = 1
        BY <3>1
      <3>3. SubSeq(x, 0 + 1, Len(x) - 1) \in Seq(T)
        BY <3>2, PartOf
      <3>4. QED
        BY <3>2, <3>3 DEF Pages!Front
    <2>2. QED
      BY <2>1 DEF RowOf
  <1>6. r = [n \in 1..m |-> RowOf(Pages!LineTokens(s, n))]
    BY DEF Pages!Rows, RowOf
  <1> HIDE DEF m, r
  <1>7. \A n \in 1..m : RowOf(Pages!LineTokens(s, n)) \in Seq(T)
    BY <1>1, <1>4, <1>5
  <1>8. r \in [1..m -> Seq(T)]
    BY <1>6, <1>7
  <1>9. r \in Seq(Seq(T)) /\ Len(r) = m
    BY <1>1, <1>8, SeqDef, LenProperties
  <1>10. QED
    BY <1>3, <1>4, <1>6, <1>9 DEF m, r

\* The rows of texts that are joined where a line ends.
LEMMA RowsJoined ==
    ASSUME NEW T, NEW a \in Seq(T), NEW b \in Seq(T), Sealed(a)
    PROVE  /\ Pages!LineCount(a \o b) = Pages!LineCount(a) + Pages!LineCount(b)
           /\ Pages!Rows(a \o b) = Pages!Rows(a) \o Pages!Rows(b)
  <1> DEFINE c == a \o b
             k == Pages!LineCount(a)
             m == Pages!LineCount(b)
             r == Pages!Rows(a)
             q == Pages!Rows(b)
             x == Pages!Rows(c)
             y == r \o q
  <1>1. c \in Seq(T) /\ (b = <<>> => c = a) /\ (b # <<>> => (Open(c) <=> Open(b)))
    BY EndOfJoined
  <1>2. /\ k \in Nat /\ m \in Nat /\ k = Pages!Terminators(a)
        /\ m = Pages!Terminators(b) + (IF Open(b) THEN 1 ELSE 0)
        /\ Pages!LineCount(c) = Pages!Terminators(c) + (IF Open(c) THEN 1 ELSE 0)
    <2> HIDE DEF c
    <2>1. \A s \in Seq(T) : Sealed(s) <=> ~Open(s)
      BY EndOf
    <2>2. QED
      BY <1>1, <2>1, LinesOf
  <1>3. Pages!Terminators(c) = Pages!Terminators(a) + Pages!Terminators(b)
    BY TerminatorsJoined
  <1>4. /\ \A n \in 1..k : Pages!LineTokens(c, n) = Pages!LineTokens(a, n)
        /\ \A n \in Nat \ {0} : Pages!LineTokens(c, k + n) = Pages!LineTokens(b, n)
    BY <1>2, LinesJoined
  <1>5. ~Open(a) /\ ~Open(<<>>)
    BY EndOf DEF Open
  <1> HIDE DEF c, k, m
  <1>6. Pages!LineCount(c) = k + m
    <2>1. Pages!Terminators(a) \in Nat /\ Pages!Terminators(b) \in Nat
      BY LinesOf
    <2>2. Open(c) <=> Open(b)
      BY <1>1, <1>5
    <2>3. QED
      BY <1>2, <1>3, <2>1, <2>2
  <1>7. /\ x \in Seq(Seq(T)) /\ Len(x) = k + m
        /\ \A n \in 1..(k + m) : x[n] = RowOf(Pages!LineTokens(c, n))
    BY <1>1, <1>6, RowsOfText
  <1>8. /\ r \in Seq(Seq(T)) /\ Len(r) = k
        /\ \A n \in 1..k : r[n] = RowOf(Pages!LineTokens(a, n))
    BY RowsOfText DEF k
  <1>9. /\ q \in Seq(Seq(T)) /\ Len(q) = m
        /\ \A n \in 1..m : q[n] = RowOf(Pages!LineTokens(b, n))
    BY RowsOfText DEF m
  <1> HIDE DEF r, q, x
  <1>10. /\ y \in Seq(Seq(T)) /\ Len(y) = k + m
         /\ \A n \in 1..(k + m) : y[n] = IF n <= k THEN r[n] ELSE q[n - k]
    BY <1>8, <1>9, ConcatProperties
  <1> HIDE DEF y
  <1>11. ASSUME NEW n \in 1..(k + m)
         PROVE  x[n] = y[n]
    <2>1. CASE n <= k
      <3>1. n \in 1..k
        BY <1>2, <2>1
      <3>2. QED
        BY <1>4, <1>7, <1>8, <1>10, <2>1, <3>1
    <2>2. CASE ~(n <= k)
      <3> DEFINE j == n - k
      <3>1. j \in 1..m /\ j \in Nat \ {0} /\ k + j = n
        BY <1>2, <2>2
      <3>2. y[n] = q[j]
        BY <1>10, <2>2
      <3> HIDE DEF j
      <3>3. QED
        BY <1>4, <1>7, <1>9, <3>1, <3>2
    <2>3. QED
      BY <2>1, <2>2
  <1>12. x = y
    BY <1>7, <1>10, <1>11, SeqEqual
  <1>13. QED
    BY <1>6, <1>12 DEF x, y, r, q, c, k, m

\* Where the last line of a text begins, which ends in the middle of it.
LEMMA LastLine ==
    ASSUME NEW T, NEW s \in Seq(T), Open(s)
    PROVE  Pages!LineOffset(s, Pages!Terminators(s) + 1) \in 0..(Len(s) - 1)
  <1> DEFINE t == Pages!Terminators(s)
  <1>1. Len(s) \in Nat \ {0} /\ t \in Nat /\ s[Len(s)] \notin Pages!Newlines
    BY EndOf, LinesOf DEF Open
  <1> HIDE DEF t
  <1>2. CASE t = 0
    <2>1. Pages!LineOffset(s, 1) = 0 /\ t + 1 = 1
      BY <1>2, Offsets
    <2>2. QED
      BY <1>1, <2>1 DEF t
  <1>3. CASE t # 0
    <2>1. t \in 1..t
      BY <1>1, <1>3
    <2>2. PICK p : BreakAt(s, t, p)
      BY <2>1, OneBreak DEF t
    <2>3. Pages!LineOffset(s, t + 1) = p
      BY <1>1, <2>2, Offsets
    <2>4. p \in 1..Len(s) /\ p # Len(s)
      BY <1>1, <2>2 DEF BreakAt
    <2>5. QED
      BY <1>1, <2>3, <2>4 DEF t
  <1>4. QED
    BY <1>2, <1>3

\* A terminator at the end of a text that ends in the middle of a line ends that
\* line, and adds none.
LEMMA RowsClosing ==
    ASSUME NEW T, NEW a \in Seq(T), Open(a), NEW c \in T, c \in Pages!Newlines
    PROVE  /\ a \o <<c>> \in Seq(T) /\ Sealed(a \o <<c>>)
           /\ Pages!Rows(a \o <<c>>) = Pages!Rows(a)
  <1> DEFINE b == <<c>>
             d == a \o b
             t == Pages!Terminators(a)
             L == Len(a)
             o == Pages!LineOffset(a, t + 1)
             x == SubSeq(d, o + 1, L + 1)
             y == SubSeq(a, o + 1, L)
  <1>1. b \in Seq(T) /\ Len(b) = 1 /\ b[1] = c /\ b # <<>>
    OBVIOUS
  <1>2. t \in Nat /\ L \in Nat /\ Pages!LineCount(a) = t + 1
    BY LinesOf, EndOf
  <1> HIDE DEF b
  <1>3. Sealed(b)
    BY <1>1, EndOf
  <1>4. /\ d \in Seq(T) /\ Len(d) = L + 1 /\ Sealed(d)
        /\ \A i \in 1..(L + 1) : d[i] = IF i <= L THEN a[i] ELSE b[i - L]
    <2>1. d \in Seq(T) /\ Len(d) = Len(a) + Len(b) /\ (Sealed(d) <=> Sealed(b))
      BY <1>1, EndOfJoined
    <2>2. \A i \in 1..(Len(a) + Len(b)) : d[i] = IF i <= Len(a) THEN a[i] ELSE b[i - Len(a)]
      BY <1>1, ConcatProperties
    <2> HIDE DEF d
    <2>3. QED
      BY <1>1, <1>3, <2>1, <2>2
  <1>5. Pages!Terminators(b) = 1
    <2>1. 1 \in 1..Len(b) /\ SubSeq(b, 1, Len(b)) = b
      BY <1>1, SubSeqFull
    <2>2. QED
      BY <1>1, <2>1, TerminatorsFew
  <1>6. Pages!LineCount(d) = t + 1
    <2>1. Pages!Terminators(d) = t + 1
      BY <1>1, <1>5, TerminatorsJoined
    <2> HIDE DEF d
    <2>2. QED
      BY <1>4, <2>1, LinesOf
  <1>7. \A n \in 1..t : Pages!LineTokens(d, n) = Pages!LineTokens(a, n)
    BY <1>1, LinesJoined
  <1>8. o \in 0..(L - 1)
    BY LastLine
  <1>9. Pages!LineTokens(a, t + 1) = y
    <2>1. (t + 1) + 1 = Pages!LineCount(a) + 1
      BY <1>2
    <2>2. Pages!LineOffset(a, Pages!LineCount(a) + 1) = L
      BY Offsets
    <2>3. QED
      BY <2>1, <2>2 DEF Pages!LineTokens
  <1>10. Pages!LineTokens(d, t + 1) = x
    <2>1. (t + 1) + 1 = Pages!LineCount(d) + 1
      BY <1>6
    <2>2. Pages!LineOffset(d, t + 1) = o
      <3>1. t + 1 \in 1..(t + 1)
        BY <1>2
      <3>2. QED
        BY <1>1, <3>1, OffsetsJoined
    <2> HIDE DEF d
    <2>3. Pages!LineOffset(d, Pages!LineCount(d) + 1) = L + 1
      BY <1>4, Offsets
    <2>4. QED
      BY <2>1, <2>2, <2>3 DEF Pages!LineTokens
  <1> HIDE DEF d, t, L, o
  <1>11. /\ x \in Seq(T) /\ Len(x) = (L + 1) - o /\ \A i \in 1..((L + 1) - o) : x[i] = d[o + i]
         /\ y \in Seq(T) /\ Len(y) = L - o /\ \A i \in 1..(L - o) : y[i] = a[o + i]
    <2>1. o \in 0..Len(d) /\ L + 1 \in o..Len(d) /\ o \in 0..Len(a) /\ L \in o..Len(a)
      BY <1>2, <1>4, <1>8 DEF L
    <2>2. QED
      BY <1>4, <2>1, PartOf
  <1> HIDE DEF x, y
  <1>12. RowOf(x) = y
    <2> DEFINE f == SubSeq(x, 0 + 1, L - o)
    <2>1. /\ Len(x) \in Nat /\ L - o \in 0..Len(x) /\ 0 \in 0..Len(x) /\ L - o \in 0..(L - o) /\ Len(x) - 1 = L - o
          /\ Len(x) \in 1..((L + 1) - o) /\ o + Len(x) = L + 1 /\ (L - o) - 0 = L - o
      BY <1>2, <1>8, <1>11
    <2>2. x[Len(x)] = c
      <3>1. x[Len(x)] = d[L + 1]
        BY <1>11, <2>1
      <3>2. L + 1 \in 1..(L + 1) /\ ~(L + 1 <= L) /\ (L + 1) - L = 1
        BY <1>2
      <3>3. QED
        BY <1>1, <1>4, <3>1, <3>2
    <2>3. Pages!EndsWithNewline(x)
      <3>1. x # <<>>
        BY <1>11, <2>1, EndOf
      <3>2. QED
        BY <1>11, <2>2, <3>1, EndOf
    <2>4. L - o \in 0..Len(x) /\ L - o \in (0..(Len(x)))
      BY <2>1
    <2>5. f \in Seq(T) /\ Len(f) = L - o /\ \A i \in 1..(L - o) : f[i] = x[i]
      <3>1. 0 \in 0..Len(x) /\ \A i \in 1..(L - o) : 0 + i = i
        BY <2>1
      <3>2. f \in Seq(T) /\ Len(f) = (L - o) - 0 /\ \A i \in 1..((L - o) - 0) : f[i] = x[0 + i]
        BY <1>11, <2>1, <2>4, PartOf
      <3> HIDE DEF f
      <3>3. QED
        BY <2>1, <3>1, <3>2
    <2> HIDE DEF f
    <2>6. ASSUME NEW i \in 1..(L - o)
          PROVE  f[i] = y[i]
      <3>1. i \in 1..((L + 1) - o) /\ o + i \in 1..(L + 1) /\ o + i <= L
        BY <1>2, <1>8
      <3>2. f[i] = d[o + i] /\ y[i] = a[o + i]
        BY <1>11, <2>5, <3>1
      <3>3. d[o + i] = a[o + i]
        BY <1>4, <3>1
      <3>4. QED
        BY <3>2, <3>3
    <2>7. f = y
      BY <1>11, <2>5, <2>6, SeqEqual
    <2>8. Pages!Front(x) = f
      BY <2>1 DEF Pages!Front, f
    <2>9. QED
      BY <2>3, <2>7, <2>8 DEF RowOf
  <1>13. RowOf(y) = y
    <2>1. Len(y) \in 1..(L - o) /\ o + Len(y) = L /\ a[L] \notin Pages!Newlines
      BY <1>2, <1>8, <1>11, EndOf DEF L, Open
    <2>2. y[Len(y)] \notin Pages!Newlines
      BY <1>11, <2>1
    <2>3. ~Pages!EndsWithNewline(y)
      BY <1>11, <2>2, EndOf
    <2>4. QED
      BY <2>3 DEF RowOf
  <1>14. Pages!Rows(d) = Pages!Rows(a)
    <2> DEFINE r == Pages!Rows(a)
               q == Pages!Rows(d)
    <2>1. /\ r \in Seq(Seq(T)) /\ Len(r) = t + 1
          /\ \A n \in 1..(t + 1) : r[n] = RowOf(Pages!LineTokens(a, n))
      BY <1>2, RowsOfText
    <2>2. /\ q \in Seq(Seq(T)) /\ Len(q) = t + 1
          /\ \A n \in 1..(t + 1) : q[n] = RowOf(Pages!LineTokens(d, n))
      BY <1>4, <1>6, RowsOfText
    <2> HIDE DEF r, q
    <2>3. ASSUME NEW n \in 1..(t + 1)
          PROVE  q[n] = r[n]
      <3>1. CASE n = t + 1
        BY <1>9, <1>10, <1>12, <1>13, <2>1, <2>2, <3>1
      <3>2. CASE n # t + 1
        <4>1. n \in 1..t
          BY <1>2, <3>2
        <4>2. QED
          BY <1>7, <2>1, <2>2, <4>1
      <3>3. QED
        BY <3>1, <3>2
    <2>4. q = r
      BY <2>1, <2>2, <2>3, SeqEqual
    <2>5. QED
      BY <2>4 DEF q, r
  <1>15. QED
    BY <1>4, <1>14 DEF d, b

\* A row is a text without line breaks.
RowText(x) == IsSeq(x) /\ \A i \in 1..Len(x) : x[i] \notin Pages!Newlines

LEMMA RowsOfRow ==
    ASSUME NEW T, NEW x \in Seq(T), RowText(x)
    PROVE  /\ Pages!Rows(x) = IF x = <<>> THEN <<>> ELSE <<x>>
           /\ x # <<>> => Open(x)
           /\ \A c \in T : c \in Pages!Newlines =>
                x \o <<c>> \in Seq(T) /\ Sealed(x \o <<c>>) /\ Pages!Rows(x \o <<c>>) = <<x>>
  <1>1. /\ \A i \in 1..Len(x) : x[i] \notin Pages!Newlines
        /\ Len(x) \in Nat /\ (x = <<>> <=> Len(x) = 0)
    BY EndOf DEF RowText
  <1>2. Pages!Terminators(x) = 0
    <2>1. Pages!Breaks(x) = {}
      BY <1>1, BreaksFinite
    <2>2. QED
      BY <2>1, BreaksFinite, FS_EmptySet
  <1>3. x # <<>> => Open(x)
    <2>1. x # <<>> => Len(x) \in 1..Len(x)
      BY <1>1
    <2>2. QED
      BY <1>1, <2>1, EndOf
  <1>4. ASSUME NEW n, n = 1, NEW s \in Seq(T), Pages!LineCount(s) = n
        PROVE  Pages!Rows(s) = <<RowOf(s)>>
    <2>1. /\ Pages!Rows(s) \in Seq(Seq(T)) /\ Len(Pages!Rows(s)) = 1
          /\ Pages!Rows(s)[1] = RowOf(Pages!LineTokens(s, 1))
      <3>1. 1 \in 1..1
        OBVIOUS
      <3>2. QED
        BY <1>4, <3>1, RowsOfText
    <2>2. Pages!LineTokens(s, 1) = s
      <3>1. Pages!LineOffset(s, 1) = 0 /\ Pages!LineOffset(s, 1 + 1) = Len(s)
        BY <1>4, Offsets
      <3>2. SubSeq(s, 0 + 1, Len(s)) = s
        <4>1. 0 + 1 = 1
          OBVIOUS
        <4>2. QED
          BY <4>1, SubSeqFull
      <3>3. QED
        BY <3>1, <3>2 DEF Pages!LineTokens
    <2> DEFINE r == Pages!Rows(s)
               v == RowOf(s)
    <2>3. r \in Seq(Seq(T)) /\ Len(r) = 1 /\ r[1] = v
      BY <2>1, <2>2
    <2> HIDE DEF r, v
    <2>4. r = <<v>>
      <3>1. v \in Seq(T)
        <4>1. 1 \in 1..Len(r)
          BY <2>3
        <4>2. QED
          BY <2>3, <4>1, ElementOfSeq
      <3>2. <<v>> \in Seq(Seq(T)) /\ Len(<<v>>) = 1 /\ <<v>>[1] = v
        BY <3>1
      <3>3. \A i \in 1..1 : i = 1
        OBVIOUS
      <3> DEFINE w == <<v>>
      <3>4. w \in Seq(Seq(T)) /\ Len(w) = 1 /\ w[1] = v
        BY <3>2
      <3> HIDE DEF w
      <3>5. r = w
        BY <2>3, <3>3, <3>4, SeqEqual
      <3>6. QED
        BY <3>5 DEF w
    <2>5. QED
      BY <2>4 DEF r, v
  <1>5. CASE x = <<>>
    <2>1. Pages!Rows(x) = <<>>
      <3>1. Pages!LineCount(x) = 0
        BY <1>2, <1>5, LinesOf, EndOf DEF Open
      <3>2. Pages!Rows(x) \in Seq(Seq(T)) /\ Len(Pages!Rows(x)) = 0
        BY <3>1, RowsOfText
      <3>3. QED
        BY <3>2, EmptySeq
    <2>2. ASSUME NEW c \in T, c \in Pages!Newlines
          PROVE  x \o <<c>> \in Seq(T) /\ Sealed(x \o <<c>>) /\ Pages!Rows(x \o <<c>>) = <<x>>
      <3> DEFINE b == <<c>>
      <3>1. b \in Seq(T) /\ Len(b) = 1 /\ b[1] = c /\ b # <<>> /\ SubSeq(b, 1, 0) = <<>>
        OBVIOUS
      <3> HIDE DEF b
      <3>2. x \o b = b
        BY <1>5, <3>1, EndOfJoined
      <3>3. Sealed(b) /\ Pages!EndsWithNewline(b)
        BY <2>2, <3>1, EndOf
      <3>4. 1 \in 1..Len(b) /\ SubSeq(b, 1, Len(b)) = b
        BY <3>1, SubSeqFull
      <3>5. Pages!Terminators(b) = 1
        BY <2>2, <3>1, <3>4, TerminatorsFew
      <3>6. Pages!LineCount(b) = 1
        BY <3>1, <3>3, <3>5, LinesOf
      <3>7. Pages!Rows(b) = <<RowOf(b)>>
        BY <1>4, <3>1, <3>6
      <3>8. RowOf(b) = <<>>
        <4>1. Len(b) - 1 = 0
          BY <3>1
        <4>2. QED
          BY <3>1, <3>3, <4>1 DEF RowOf, Pages!Front
      <3>9. QED
        BY <1>5, <3>1, <3>2, <3>3, <3>7, <3>8 DEF b
    <2>3. QED
      BY <1>3, <1>5, <2>1, <2>2
  <1>6. CASE x # <<>>
    <2>1. Open(x) /\ ~Pages!EndsWithNewline(x)
      BY <1>3, <1>6 DEF Open
    <2>2. Pages!LineCount(x) = 1
      BY <1>2, <2>1, LinesOf
    <2>3. Pages!Rows(x) = <<x>>
      <3>1. Pages!Rows(x) = <<RowOf(x)>>
        BY <1>4, <2>2
      <3>2. QED
        BY <2>1, <3>1 DEF RowOf
    <2>4. QED
      BY <1>6, <2>1, <2>3, RowsClosing
  <1>7. QED
    BY <1>5, <1>6

\* The lines of a text from one up to another.
LinesFrom(s, i, j) == SubSeq(s, Pages!LineOffset(s, i) + 1, Pages!LineOffset(s, j))

LEMMA LinesBefore ==
    ASSUME NEW T, NEW s \in Seq(T), NEW i \in 1..(Pages!LineCount(s) + 1)
    PROVE  LET a == SubSeq(s, 1, Pages!LineOffset(s, i))
           IN /\ a \in Seq(T) /\ Pages!LineCount(a) = i - 1
              /\ i <= Pages!LineCount(s) => Sealed(a)
              /\ i = Pages!LineCount(s) + 1 => a = s
  <1> DEFINE n == Pages!LineCount(s)
             t == Pages!Terminators(s)
             p == Pages!LineOffset(s, i)
             a == SubSeq(s, 1, p)
  <1>1. n \in Nat /\ t \in Nat /\ n <= t + 1 /\ Len(s) \in Nat
    BY LinesOf, EndOf
  <1>2. p \in 0..Len(s)
    BY <1>1, LineBegins
  <1>3. /\ a \in Seq(T) /\ Len(a) = p /\ \A k \in 1..p : a[k] = s[k]
    <2>1. 0 \in 0..Len(s) /\ p \in 0..Len(s) /\ 0 + 1 = 1 /\ p - 0 = p /\ \A k \in 1..p : 0 + k = k
      BY <1>1, <1>2
    <2> HIDE DEF p
    <2>2. QED
      BY <2>1, PartOf
  <1>4. CASE i = n + 1
    <2>1. p = Len(s)
      BY <1>4, Offsets
    <2>2. a = s
      BY <2>1, SubSeqFull
    <2>3. Pages!LineCount(a) = i - 1 /\ ~(i <= n)
      <3>1. Pages!LineCount(a) = n
        BY <2>2
      <3>2. QED
        BY <1>1, <1>4, <3>1
    <2>4. QED
      BY <1>3, <2>2, <2>3
  <1>5. CASE i # n + 1 /\ i = 1
    <2>1. p = 0
      BY <1>5, Offsets
    <2>2. a = <<>>
      BY <1>3, <2>1, EndOf
    <2>3. Pages!Terminators(a) = 0
      <3>1. Pages!Terminators(SubSeq(s, 1, 0)) = 0
        BY TerminatorsFew
      <3>2. QED
        BY <2>1, <3>1
    <2>4. Sealed(a) /\ Pages!LineCount(a) = 0
      <3> HIDE DEF a
      <3>1. Sealed(a)
        BY <2>2 DEF Sealed
      <3>2. QED
        BY <1>3, <2>3, <3>1, LinesOf
    <2>5. QED
      BY <1>3, <1>5, <2>4
  <1>6. CASE i # n + 1 /\ i # 1
    <2> DEFINE m == i - 1
    <2>1. m \in 1..t /\ m \in Nat /\ m + 1 = i
      BY <1>1, <1>6
    <2> HIDE DEF m
    <2>2. PICK q : BreakAt(s, m, q)
      BY <2>1, OneBreak
    <2>3. Pages!LineOffset(s, m + 1) = q
      BY <2>1, <2>2, Offsets
    <2>4. p \in 1..Len(s) /\ s[p] \in Pages!Newlines /\ Pages!Terminators(a) = m
      BY <2>1, <2>2, <2>3 DEF BreakAt
    <2>5. Sealed(a)
      <3> HIDE DEF a, p
      <3>1. p \in 1..p
        BY <1>1, <2>4
      <3>2. QED
        BY <1>3, <2>4, <3>1, EndOf
    <2>6. Pages!LineCount(a) = m
      <3> HIDE DEF a
      <3>1. QED
        BY <1>3, <2>4, <2>5, LinesOf
    <2>7. QED
      BY <1>3, <1>6, <2>1, <2>5, <2>6
  <1>7. QED
    BY <1>4, <1>5, <1>6

\* Some of the rows of three texts that are joined are those of the one between.
LEMMA RowsBetween ==
    ASSUME NEW V, NEW q \in Seq(V), NEW r \in Seq(V), NEW u \in Seq(V), NEW x, x = (q \o r) \o u
    PROVE  SubSeq(x, Len(q) + 1, Len(q) + Len(r)) = r
  <1> DEFINE y == q \o r
             k == Len(q)
             m == Len(q) + Len(r)
             z == SubSeq(x, k + 1, m)
  <1>1. Len(q) \in Nat /\ Len(r) \in Nat /\ Len(u) \in Nat
    BY EndOf
  <1>2. /\ y \in Seq(V) /\ Len(y) = m
        /\ \A i \in 1..(Len(q) + Len(r)) : y[i] = IF i <= Len(q) THEN q[i] ELSE r[i - Len(q)]
    BY ConcatProperties
  <1>3. x = y \o u
    OBVIOUS
  <1> HIDE DEF y
  <1>4. /\ x \in Seq(V) /\ Len(x) = m + Len(u)
        /\ \A i \in 1..(Len(y) + Len(u)) : x[i] = IF i <= Len(y) THEN y[i] ELSE u[i - Len(y)]
    <2> HIDE DEF m
    <2>1. /\ y \o u \in Seq(V) /\ Len(y \o u) = Len(y) + Len(u)
          /\ \A i \in 1..(Len(y) + Len(u)) :
               (y \o u)[i] = IF i <= Len(y) THEN y[i] ELSE u[i - Len(y)]
      BY <1>2, ConcatProperties
    <2>2. QED
      BY <1>2, <1>3, <2>1
  <1>5. k \in 0..Len(x) /\ m \in k..Len(x) /\ m - k = Len(r)
    BY <1>1, <1>4
  <1>6. z \in Seq(V) /\ Len(z) = m - k /\ \A i \in 1..(m - k) : z[i] = x[k + i]
    BY <1>4, <1>5, PartOf
  <1> HIDE DEF z
  <1>7. ASSUME NEW i \in 1..Len(r)
        PROVE  z[i] = r[i]
    <2>1. /\ k + i \in 1..(Len(y) + Len(u)) /\ k + i <= Len(y) /\ k + i \in 1..(Len(q) + Len(r))
          /\ ~(k + i <= Len(q)) /\ (k + i) - Len(q) = i
      BY <1>1, <1>2
    <2>2. x[k + i] = y[k + i] /\ y[k + i] = r[i]
      BY <1>2, <1>4, <2>1
    <2>3. QED
      BY <1>5, <1>6, <2>2
  <1>8. z = r
    BY <1>5, <1>6, <1>7, SeqEqual
  <1>9. QED
    BY <1>8 DEF z

\* Some lines of a text are a text with their rows.
LEMMA RowsOfLines ==
    ASSUME NEW T, NEW s \in Seq(T), NEW i \in 1..(Pages!LineCount(s) + 1),
           NEW j \in i..(Pages!LineCount(s) + 1)
    PROVE  LET b == LinesFrom(s, i, j)
               n == Pages!LineCount(s)
           IN /\ b \in Seq(T) /\ Pages!Rows(b) = SubSeq(Pages!Rows(s), i, j - 1)
              /\ j <= n \/ Sealed(s) => Sealed(b)
              /\ i < j /\ j = n + 1 /\ Open(s) => Open(b)
              /\ i = j => b = <<>>
  <1> DEFINE n == Pages!LineCount(s)
             p == Pages!LineOffset(s, i)
             q == Pages!LineOffset(s, j)
             a == SubSeq(s, 1, p)
             d == SubSeq(s, 1, q)
             b == SubSeq(s, p + 1, q)
             e == SubSeq(s, q + 1, Len(s))
  <1>1. n \in Nat /\ Len(s) \in Nat /\ j \in 1..(n + 1) /\ i <= j
    BY LinesOf, EndOf
  <1>2. p \in 0..Len(s) /\ q \in 0..Len(s)
    BY <1>1, LineBegins
  <1>3. /\ a \in Seq(T) /\ Pages!LineCount(a) = i - 1
        /\ (i <= n => Sealed(a)) /\ (i = n + 1 => a = s)
    BY LinesBefore
  <1>4. /\ d \in Seq(T) /\ Pages!LineCount(d) = j - 1
        /\ (j <= n => Sealed(d)) /\ (j = n + 1 => d = s)
    BY <1>1, LinesBefore
  <1> HIDE DEF n
  <1>5. Len(a) = p /\ Len(d) = q
    <2>1. 0 \in 0..Len(s) /\ p \in 0..Len(s) /\ q \in 0..Len(s) /\ 0 + 1 = 1 /\ p - 0 = p /\ q - 0 = q
      BY <1>1, <1>2
    <2> HIDE DEF p, q
    <2>2. QED
      BY <2>1, PartOf
  <1>6. p <= q
    <2>1. ASSUME q < p
          PROVE  FALSE
      <3> DEFINE f == SubSeq(s, q + 1, p)
      <3>1. q \in 0..Len(s) /\ p \in q..Len(s)
        BY <1>1, <1>2, <2>1
      <3>2. f \in Seq(T) /\ Len(f) = p - q
        BY <3>1, PartOf
      <3>3. a = d \o f
        <4>1. 1 \in 1..(Len(s) + 1) /\ q \in (1 - 1)..Len(s)
          BY <1>1, <3>1
        <4> HIDE DEF p, q
        <4>2. QED
          BY <3>1, <4>1, ConcatAdjacentSubSeq
      <3> HIDE DEF f, a, d, p, q
      <3>4. i = j => p = q
        BY DEF p, q
      <3>5. j <= n /\ i \in Nat /\ j \in Nat
        <4>1. j = n + 1 => q = Len(s)
          BY Offsets DEF q, n
        <4>2. QED
          BY <1>1, <3>1, <2>1, <4>1
      <3>6. Pages!LineCount(a) = Pages!LineCount(d) + Pages!LineCount(f) /\ Pages!LineCount(f) \in Nat
        BY <1>4, <3>2, <3>3, <3>5, RowsJoined, LinesOf
      <3>7. i = j
        BY <1>1, <1>3, <1>4, <3>5, <3>6
      <3>8. QED
        BY <1>2, <2>1, <3>4, <3>7
    <2> HIDE DEF p, q
    <2>2. QED
      BY <1>2, <2>1
  <1>7. q \in p..Len(s) /\ Len(s) \in q..Len(s) /\ 1 \in 1..(Len(s) + 1) /\ p \in (1 - 1)..Len(s)
        /\ q \in (1 - 1)..Len(s)
    BY <1>1, <1>2, <1>6
  <1>8. b \in Seq(T) /\ Len(b) = q - p /\ e \in Seq(T)
    BY <1>2, <1>7, PartOf
  <1>9. d = a \o b /\ s = d \o e
    <2> HIDE DEF p, q
    <2>1. d = a \o b
      BY <1>7, ConcatAdjacentSubSeq
    <2>2. SubSeq(s, 1, Len(s)) = d \o e
      BY <1>7, ConcatAdjacentSubSeq
    <2>3. QED
      BY <2>1, <2>2, SubSeqFull
  <1> HIDE DEF a, b, d, e, p, q
  <1>10. i = j => b = <<>>
    <2>1. i = j => p = q
      BY DEF p, q
    <2>2. i = j => Len(b) = 0
      BY <1>2, <1>8, <2>1
    <2>3. QED
      BY <1>8, <2>2, EndOf
  <1>11. b = <<>> => i = j
    <2>1. b = <<>> => d = a
      BY <1>3, <1>8, <1>9, EndOfJoined
    <2>2. QED
      BY <1>1, <1>3, <1>4, <2>1
  <1>12. j <= n \/ Sealed(s) => Sealed(b)
    <2>1. j = n + 1 \/ j <= n
      BY <1>1
    <2>2. b # <<>> => (Sealed(d) <=> Sealed(b))
      BY <1>3, <1>8, <1>9, EndOfJoined
    <2>3. b = <<>> => Sealed(b)
      BY DEF Sealed
    <2>4. QED
      BY <1>4, <2>1, <2>2, <2>3
  <1>13. i < j /\ j = n + 1 /\ Open(s) => Open(b)
    <2>1. i < j => b # <<>>
      BY <1>1, <1>11
    <2>2. b # <<>> => (Open(d) <=> Open(b))
      BY <1>3, <1>8, <1>9, EndOfJoined
    <2>3. QED
      BY <1>4, <2>1, <2>2
  <1> DEFINE A == Pages!Rows(a)
             B == Pages!Rows(b)
             E == Pages!Rows(e)
             S == Pages!Rows(s)
  <1>14. A \in Seq(Seq(T)) /\ B \in Seq(Seq(T)) /\ E \in Seq(Seq(T)) /\ S \in Seq(Seq(T))
         /\ Len(A) = i - 1
    BY <1>3, <1>8, RowsOfText
  <1>15. CASE i = n + 1
    <2>1. i = j /\ Len(S) = n
      BY <1>1, <1>15, RowsOfText DEF n
    <2>2. SubSeq(S, i, j - 1) = <<>>
      <3>1. j - 1 < i /\ i \in Int /\ j - 1 \in Int
        BY <1>1, <2>1
      <3> HIDE DEF S
      <3>2. QED
        BY <3>1, SubSeqEmpty
    <2>3. B = <<>>
      <3>1. <<>> \in Seq(T) /\ RowText(<<>>)
        BY EmptySeq DEF RowText, IsSeq
      <3>2. Pages!Rows(<<>>) = <<>>
        BY <3>1, RowsOfRow
      <3>3. QED
        BY <1>10, <2>1, <3>2
    <2>4. QED
      BY <1>8, <1>10, <1>12, <1>13, <2>2, <2>3 DEF LinesFrom, b, p, q, n
  <1>16. CASE i # n + 1
    <2>1. Sealed(a)
      BY <1>1, <1>3, <1>16
    <2>2. Pages!LineCount(d) = (i - 1) + Pages!LineCount(b) /\ Pages!Rows(d) = A \o B
      BY <1>3, <1>8, <1>9, <2>1, RowsJoined
    <2>3. S = (A \o B) \o E
      <3>1. CASE Sealed(d)
        BY <1>4, <1>8, <1>9, <2>2, <3>1, RowsJoined
      <3>2. CASE ~Sealed(d)
        <4>1. d = s
          BY <1>1, <1>4, <3>2
        <4>2. e = <<>>
          BY <1>4, <1>8, <1>9, <4>1, ConcatEqualIffEmpty
        <4>3. E = <<>>
          <5>1. <<>> \in Seq(T) /\ RowText(<<>>)
            BY EmptySeq DEF RowText, IsSeq
          <5>2. Pages!Rows(<<>>) = <<>>
            BY <5>1, RowsOfRow
          <5>3. QED
            BY <4>2, <5>2
        <4> HIDE DEF A, B, E
        <4>4. A \o B \in Seq(Seq(T))
          BY <1>14, ConcatProperties
        <4> DEFINE AB == A \o B
        <4>5. AB \o <<>> = AB
          <5> HIDE DEF AB
          <5>1. AB \in Seq(Seq(T))
            BY <4>4 DEF AB
          <5>2. QED
            BY <5>1, ConcatEmptySeq
        <4>6. QED
          BY <2>2, <4>1, <4>3, <4>5
      <3>3. QED
        BY <3>1, <3>2
    <2>5. Len(B) = Pages!LineCount(b)
      BY <1>8, RowsOfText
    <2> HIDE DEF A, B, E, S
    <2>6. SubSeq(S, Len(A) + 1, Len(A) + Len(B)) = B
      BY <1>14, <2>3, RowsBetween
    <2>7. Len(A) + 1 = i /\ Len(A) + Len(B) = j - 1
      <3>1. Len(B) \in Nat
        BY <1>14, EndOf
      <3>2. QED
        BY <1>1, <1>4, <1>14, <2>2, <2>5, <3>1
    <2>8. QED
      BY <1>8, <1>10, <1>12, <1>13, <2>6, <2>7 DEF LinesFrom, b, p, q, n, B, S
  <1>17. QED
    BY <1>15, <1>16

-----------------------------------------------------------------------------
(* Pages: sequences one after the other *)

\* From one number up to another.
LEMMA Climb ==
    ASSUME NEW p \in Nat, NEW q \in Nat, NEW S, p \in S,
           \A k \in (p + 1)..q : k - 1 \in S => k \in S
    PROVE  \A k \in p..q : k \in S
  <1> DEFINE Bad == {k \in p..q : k \notin S}
  <1>1. SUFFICES ASSUME Bad # {} PROVE FALSE
    OBVIOUS
  <1>2. Bad \in SUBSET Nat
    OBVIOUS
  <1> HIDE DEF Bad
  <1>3. PICK k \in Bad : \A j \in Bad : k <= j
    BY <1>1, <1>2, LeastOf
  <1>4. k \in p..q /\ k \notin S
    BY DEF Bad
  <1>5. k # p /\ k \in Nat
    BY <1>4
  <1>6. k \in (p + 1)..q /\ k - 1 \in p..q /\ ~(k <= k - 1)
    BY <1>4, <1>5
  <1>7. k - 1 \in S
    BY <1>3, <1>6 DEF Bad
  <1>8. QED
    BY <1>4, <1>6, <1>7

\* What the first k of the sequences f come to is F[k].
Chain(F, f, n, T) ==
    /\ F \in [0..n -> Seq(T)] /\ F[0] = <<>>
    /\ \A k \in 1..n : F[k] = F[k - 1] \o f[k]

LEMMA ChainOf ==
    ASSUME NEW n \in Nat, NEW T, NEW f \in [1..n -> Seq(T)]
    PROVE  \E F : Chain(F, f, n, T)
  <1> DEFINE on(k, v) == v \o f[k]
             G == [p \in (1..n) \X Seq(T) |-> on(p[1], p[2])]
  <1>1. \A k \in 1..n, v \in Seq(T) : on(k, v) \in Seq(T)
    BY ConcatProperties
  <1>2. G \in [(1..n) \X Seq(T) -> Seq(T)] /\ \A k \in 1..n, v \in Seq(T) : G[<<k, v>>] = on(k, v)
    <2> HIDE DEF on
    <2>1. QED
      BY <1>1
  <1> HIDE DEF G
  <1>3. PICK F : Follows(F, n, Seq(T), <<>>, G)
    <2>1. <<>> \in Seq(T)
      BY EmptySeq
    <2>2. Leads(n, Seq(T), <<>>, G)
      BY <1>2, <2>1 DEF Leads
    <2>3. QED
      BY <2>2, Recursion
  <1>4. ASSUME NEW k \in 1..n
        PROVE  F[k] = F[k - 1] \o f[k]
    <2>1. k - 1 \in 0..n
      OBVIOUS
    <2>2. F[k - 1] \in Seq(T) /\ F[k] = G[<<k, F[k - 1]>>]
      BY <1>3, <2>1 DEF Follows
    <2>3. F[k] = on(k, F[k - 1])
      <3> HIDE DEF on
      <3>1. QED
        BY <1>2, <2>2
    <2>4. QED
      BY <2>3
  <1>5. QED
    BY <1>3, <1>4 DEF Follows, Chain

\* All of them come to what FlattenSeq makes of them.
LEMMA FlattenIs ==
    ASSUME NEW n \in Nat, NEW T, NEW f \in [1..n -> Seq(T)], NEW F, Chain(F, f, n, T)
    PROVE  Pages!FlattenSeq(f) = F[n]
  <1>1. f \in Seq(Seq(T)) /\ Len(f) = n
    <2>1. f \in Seq(Seq(T))
      BY SeqDef
    <2>2. QED
      BY <2>1, LenProperties
  <1>2. CASE n = 0
    <2>1. Pages!FlattenSeq(f) = f /\ f = <<>>
      BY <1>1, <1>2, EmptySeq DEF Pages!FlattenSeq
    <2>2. QED
      BY <1>2, <2>1 DEF Chain
  <1>3. CASE n # 0
    <2> DEFINE Goes(h) == h = [k \in 1..n |-> IF k = 1 THEN f[k] ELSE h[k - 1] \o f[k]]
               g == [k \in 1..n |-> F[k]]
               flatten == CHOOSE h : Goes(h)
               S == {k \in 0..n : k = 0 \/ flatten[k] = F[k]}
    <2>1. F[0] = <<>> /\ \A k \in 0..n : F[k] \in Seq(T)
      BY DEF Chain
    <2>2. ASSUME NEW k \in 1..n
          PROVE  F[k] = IF k = 1 THEN f[k] ELSE F[k - 1] \o f[k]
      <3>1. F[k] = F[k - 1] \o f[k] /\ (k = 1 => F[k - 1] = <<>>)
        <4>1. F[k] = F[k - 1] \o f[k]
          BY DEF Chain
        <4>2. k = 1 => k - 1 = 0
          OBVIOUS
        <4>3. QED
          BY <2>1, <4>1, <4>2
      <3>3. f[k] \in Seq(T)
        OBVIOUS
      <3>2. <<>> \o f[k] = f[k]
        BY <3>3, ConcatEmptySeq
      <3>4. QED
        BY <3>1, <3>2
    <2>3. Goes(g)
      <3>1. \A k \in 1..n : k # 1 => k - 1 \in 1..n
        OBVIOUS
      <3>2. QED
        BY <2>2, <3>1
    <2>4. Goes(flatten)
      <3> HIDE DEF Goes, g
      <3>1. QED
        BY <2>3
    <2>5. Pages!FlattenSeq(f) = flatten[n]
      BY <1>1, <1>3 DEF Pages!FlattenSeq
    <2> HIDE DEF flatten
    <2>6. \A k \in 1..n : flatten[k] = IF k = 1 THEN f[k] ELSE flatten[k - 1] \o f[k]
      BY <2>4, Zenon
    <2>7. ASSUME NEW k \in (0 + 1)..n, k - 1 \in S
          PROVE  k \in S
      <3>1. k \in 1..n /\ k \in 0..n /\ (k # 1 => k - 1 # 0)
        OBVIOUS
      <3>2. k # 1 => flatten[k - 1] = F[k - 1]
        BY <2>7, <3>1
      <3>3. flatten[k] = F[k]
        BY <2>2, <2>6, <3>1, <3>2
      <3>4. QED
        BY <3>1, <3>3
    <2>8. 0 \in S /\ n \in 0..n /\ 0 \in Nat
      OBVIOUS
    <2> HIDE DEF S
    <2>9. n \in S
      BY <2>7, <2>8, Climb
    <2>10. QED
      BY <1>3, <2>5, <2>9 DEF S
  <1>4. QED
    BY <1>2, <1>3

LEMMA FlattenFew ==
    ASSUME NEW n \in Nat, NEW T, NEW f \in [1..n -> Seq(T)]
    PROVE  /\ n = 1 => Pages!FlattenSeq(f) = f[1]
           /\ n = 2 => Pages!FlattenSeq(f) = f[1] \o f[2]
  <1>1. PICK F : Chain(F, f, n, T)
    BY ChainOf
  <1>2. Pages!FlattenSeq(f) = F[n]
    BY <1>1, FlattenIs
  <1>3. ASSUME n >= 1
        PROVE  F[1] = f[1]
    <2>1. 1 \in 1..n /\ 1 - 1 = 0
      BY <1>3
    <2>2. F[1] = <<>> \o f[1] /\ f[1] \in Seq(T)
      BY <1>1, <2>1 DEF Chain
    <2>3. QED
      BY <2>2, ConcatEmptySeq
  <1>4. n = 2 => F[2] = F[1] \o f[2]
    <2>1. n = 2 => 2 \in 1..n /\ 2 - 1 = 1
      OBVIOUS
    <2>2. QED
      BY <1>1, <2>1 DEF Chain
  <1>5. CASE n = 1
    BY <1>2, <1>3, <1>5
  <1>6. CASE n = 2
    <2>1. F[2] = F[1] \o f[2] /\ n >= 1
      BY <1>4, <1>6
    <2>2. QED
      BY <1>2, <1>3, <1>6, <2>1
  <1>7. QED
    BY <1>5, <1>6

\* What the sequences after place p up to place q come to.
Joins(F, p, q, x) == F[q] = F[p] \o x

LEMMA Regrouped ==
    ASSUME NEW V, NEW a \in Seq(V), NEW x \in Seq(V), NEW y \in Seq(V)
    PROVE  (a \o x) \o y = a \o (x \o y) /\ x \o y \in Seq(V) /\ a \o x \in Seq(V)
  <1> DEFINE b == a \o x
             c == x \o y
             u == b \o y
             v == a \o c
  <1>1. Len(a) \in Nat /\ Len(x) \in Nat /\ Len(y) \in Nat
    BY EndOf
  <1>2. /\ b \in Seq(V) /\ Len(b) = Len(a) + Len(x)
        /\ \A i \in 1..(Len(a) + Len(x)) : b[i] = IF i <= Len(a) THEN a[i] ELSE x[i - Len(a)]
    BY ConcatProperties
  <1>3. /\ c \in Seq(V) /\ Len(c) = Len(x) + Len(y)
        /\ \A i \in 1..(Len(x) + Len(y)) : c[i] = IF i <= Len(x) THEN x[i] ELSE y[i - Len(x)]
    BY ConcatProperties
  <1> HIDE DEF b, c
  <1>4. /\ u \in Seq(V) /\ Len(u) = Len(b) + Len(y)
        /\ \A i \in 1..(Len(b) + Len(y)) : u[i] = IF i <= Len(b) THEN b[i] ELSE y[i - Len(b)]
    <2>1. b \in Seq(V)
      BY <1>2
    <2>2. QED
      BY <2>1, ConcatProperties
  <1>5. /\ v \in Seq(V) /\ Len(v) = Len(a) + Len(c)
        /\ \A i \in 1..(Len(a) + Len(c)) : v[i] = IF i <= Len(a) THEN a[i] ELSE c[i - Len(a)]
    <2>1. c \in Seq(V)
      BY <1>3
    <2>2. QED
      BY <2>1, ConcatProperties
  <1> HIDE DEF u, v
  <1>6. ASSUME NEW i \in 1..Len(u)
        PROVE  u[i] = v[i]
    <2>1. i \in 1..(Len(b) + Len(y)) /\ i \in 1..(Len(a) + Len(c))
      BY <1>1, <1>2, <1>3, <1>4
    <2>2. CASE i <= Len(a)
      <3>1. i <= Len(b) /\ i \in 1..(Len(a) + Len(x))
        BY <1>1, <1>2, <2>1, <2>2
      <3>2. QED
        BY <1>2, <1>4, <1>5, <2>1, <2>2, <3>1
    <2>3. CASE ~(i <= Len(a)) /\ i <= Len(b)
      <3>1. i \in 1..(Len(a) + Len(x)) /\ i - Len(a) \in 1..(Len(x) + Len(y)) /\ i - Len(a) <= Len(x)
        BY <1>1, <1>2, <2>1, <2>3
      <3>2. QED
        BY <1>2, <1>3, <1>4, <1>5, <2>1, <2>3, <3>1
    <2>4. CASE ~(i <= Len(b))
      <3>1. /\ i - Len(a) \in 1..(Len(x) + Len(y)) /\ ~(i - Len(a) <= Len(x)) /\ ~(i <= Len(a))
            /\ (i - Len(a)) - Len(x) = i - Len(b)
        BY <1>1, <1>2, <1>3, <2>1, <2>4
      <3>2. QED
        BY <1>3, <1>4, <1>5, <2>1, <2>4, <3>1
    <2>5. QED
      BY <2>2, <2>3, <2>4
  <1>7. Len(u) = Len(v)
    BY <1>1, <1>2, <1>3, <1>4, <1>5
  <1>8. u = v
    BY <1>4, <1>5, <1>6, <1>7, SeqEqual
  <1>9. QED
    BY <1>2, <1>3, <1>8 DEF u, v, b, c

LEMMA JoinsOn ==
    ASSUME NEW m \in Nat, NEW V, NEW D, NEW F, Chain(F, D, m, V),
           NEW p \in 0..m, NEW q \in 0..m, NEW w \in 0..m,
           NEW x \in Seq(V), NEW y \in Seq(V), Joins(F, p, q, x), Joins(F, q, w, y)
    PROVE  Joins(F, p, w, x \o y)
  <1> DEFINE a == F[p]
  <1>1. a \in Seq(V) /\ F[w] = (a \o x) \o y
    BY DEF Chain, Joins
  <1> HIDE DEF a
  <1>2. (a \o x) \o y = a \o (x \o y)
    BY <1>1, Regrouped
  <1>3. QED
    BY <1>1, <1>2 DEF Joins, a

LEMMA JoinsOne ==
    ASSUME NEW m \in Nat, NEW V, NEW D, NEW F, Chain(F, D, m, V)
    PROVE  /\ \A p \in 0..m : Joins(F, p, p, <<>>)
           /\ \A k \in 1..m : Joins(F, k - 1, k, D[k])
           /\ \A q \in 0..m : \A x \in Seq(V) : Joins(F, 0, q, x) => F[q] = x
  <1>1. \A p \in 0..m : F[p] \in Seq(V)
    BY DEF Chain
  <1>2. \A p \in 0..m : F[p] \o <<>> = F[p]
    BY <1>1, ConcatEmptySeq
  <1>3. \A x \in Seq(V) : <<>> \o x = x
    BY ConcatEmptySeq
  <1>4. QED
    BY <1>2, <1>3 DEF Chain, Joins

\* One more sequence, which adds something or nothing.
LEMMA JoinsMore ==
    ASSUME NEW m \in Nat, NEW V, NEW D, NEW F, Chain(F, D, m, V),
           NEW p \in 0..m, NEW q \in 0..m, NEW x \in Seq(V), Joins(F, p, q, x)
    PROVE  \A w \in 1..m : w = q + 1 =>
              /\ D[w] = <<>> => Joins(F, p, w, x)
              /\ D[w] \in Seq(V) => Joins(F, p, w, x \o D[w])
  <1> SUFFICES ASSUME NEW w \in 1..m, w = q + 1
               PROVE  /\ D[w] = <<>> => Joins(F, p, w, x)
                      /\ D[w] \in Seq(V) => Joins(F, p, w, x \o D[w])
    OBVIOUS
  <1>1. Joins(F, w - 1, w, D[w]) /\ w - 1 = q /\ w \in 0..m
    BY JoinsOne
  <1>2. Joins(F, q, w, D[w])
    BY <1>1
  <1>3. D[w] \in Seq(V) => Joins(F, p, w, x \o D[w])
    BY <1>1, <1>2, JoinsOn
  <1>4. x \o <<>> = x /\ <<>> \in Seq(V)
    BY ConcatEmptySeq, EmptySeq
  <1>5. QED
    BY <1>3, <1>4

-----------------------------------------------------------------------------
(* Pages: the places of a text's rows.  What is put before row k is at place  *)
(* 2 * k - 1, and the row at place 2 * k.                                     *)

\* A stretch of places begins or ends at a place beside a line: before or after
\* what is put before the line.
Beside(place, line) == place \in {2 * line - 1, 2 * line - 2}

\* After place p up to place q nothing is put, and the rows stay.
Unedited(D, r, p, q) ==
    \A k \in 1..(Len(r) + 1) :
        /\ 2 * k - 1 \in (p + 1)..q => D[2 * k - 1] = <<>>
        /\ 2 * k \in (p + 1)..q => D[2 * k] = <<r[k]>>

LEMMA Stretch ==
    ASSUME NEW V, NEW r \in Seq(V), NEW D, NEW F, Chain(F, D, 2 * Len(r) + 2, V),
           NEW i \in 1..(Len(r) + 1), NEW j \in i..(Len(r) + 1), NEW p, NEW q,
           Beside(p, i), Beside(q, j), p <= q, Unedited(D, r, p, q)
    PROVE  Joins(F, p, q, SubSeq(r, i, j - 1))
  <1> DEFINE n == Len(r)
             m == 2 * n + 2
             x(k) == SubSeq(r, i, k - 1)
             S == {k \in i..j : 2 * k - 1 <= q => Joins(F, p, 2 * k - 1, x(k))}
  <1>1. n \in Nat /\ m \in Nat /\ i \in Nat /\ j \in Nat /\ i <= j /\ j <= n + 1 /\ i >= 1
    BY EndOf
  <1>2. p \in 0..m /\ q \in 0..m /\ (p = 2 * i - 1 \/ p = 2 * i - 2) /\ (q = 2 * j - 1 \/ q = 2 * j - 2)
    BY <1>1 DEF Beside
  <1>3. ASSUME NEW k \in i..j
        PROVE  /\ x(k) \in Seq(V)
               /\ k = i => x(k) = <<>>
               /\ k < j => x(k + 1) = x(k) \o <<r[k]>> /\ <<r[k]>> \in Seq(V)
    <2>1. k - 1 \in Int /\ \A l \in i..(k - 1) : r[l] \in V
      BY <1>1, ElementOfSeq
    <2>2. x(k) \in Seq(V)
      BY <1>1, <2>1, SubSeqProperties
    <2>3. k = i => x(k) = <<>>
      <3>1. k = i => k - 1 < i
        BY <1>1
      <3>2. QED
        BY <1>1, <2>1, <3>1, SubSeqEmpty
    <2>4. ASSUME k < j
          PROVE  x(k + 1) = x(k) \o <<r[k]>> /\ <<r[k]>> \in Seq(V)
      <3>1. i \in 1..n /\ k \in i..n /\ (k + 1) - 1 = k /\ k \in 1..n
        BY <1>1, <2>4
      <3>2. SubSeq(r, i, k) = SubSeq(r, i, k - 1) \o <<r[k]>>
        BY <3>1, SubSeqRecursiveSecond
      <3>3. r[k] \in V
        BY <3>1, ElementOfSeq
      <3>4. QED
        BY <3>1, <3>2, <3>3
    <2>5. QED
      BY <2>2, <2>3, <2>4
  <1> HIDE DEF x, m
  <1>4. ASSUME NEW k \in i..j
        PROVE  /\ 2 * k - 1 \in (p + 1)..q => D[2 * k - 1] = <<>>
               /\ 2 * k \in (p + 1)..q => D[2 * k] = <<r[k]>>
    <2>1. k \in 1..(Len(r) + 1)
      BY <1>1
    <2>2. QED
      BY <2>1 DEF Unedited
  <1>5. i \in S
    <2>1. i \in i..j /\ x(i) = <<>> /\ <<>> \in Seq(V)
      <3>1. i \in i..j
        BY <1>1
      <3>2. x(i) = <<>> /\ x(i) \in Seq(V)
        BY <1>3, <3>1
      <3>3. QED
        BY <3>1, <3>2
    <2>2. Joins(F, p, p, <<>>)
      BY <1>1, <1>2, JoinsOne DEF m
    <2>3. CASE p = 2 * i - 1
      BY <2>1, <2>2, <2>3
    <2>4. CASE p # 2 * i - 1 /\ 2 * i - 1 <= q
      <3> DEFINE w == 2 * i - 1
      <3>1. w \in 1..m /\ w = p + 1 /\ w \in (p + 1)..q
        BY <1>1, <1>2, <2>4
      <3>2. D[w] = <<>>
        BY <1>4, <2>1, <3>1
      <3> HIDE DEF w
      <3>3. Joins(F, p, w, <<>>)
        BY <1>1, <1>2, <2>1, <2>2, <3>1, <3>2, JoinsMore DEF m
      <3>4. QED
        BY <2>1, <3>3 DEF w
    <2>5. CASE ~(2 * i - 1 <= q)
      BY <2>1, <2>5
    <2>6. QED
      BY <2>3, <2>4, <2>5
  \* The row after a place before it.
  <1>6. ASSUME NEW k \in i..j, k < j, Joins(F, p, 2 * k - 1, x(k))
        PROVE  2 * k <= q => Joins(F, p, 2 * k, x(k + 1))
    <2> DEFINE u == 2 * k - 1
               w == 2 * k
    <2>1. u \in 0..m /\ w \in 1..m /\ w = u + 1 /\ (w <= q => w \in (p + 1)..q)
      BY <1>1, <1>2, <1>6 DEF m
    <2>2. x(k) \in Seq(V) /\ x(k + 1) = x(k) \o <<r[k]>> /\ <<r[k]>> \in Seq(V)
      BY <1>3, <1>6
    <2>3. w <= q => D[w] = <<r[k]>>
      BY <1>4, <2>1
    <2>4. Joins(F, p, u, x(k))
      BY <1>6
    <2> HIDE DEF u, w
    <2>5. D[w] \in Seq(V) => Joins(F, p, w, x(k) \o D[w])
      BY <1>1, <1>2, <2>1, <2>2, <2>4, JoinsMore DEF m
    <2>6. w <= q => Joins(F, p, w, x(k + 1))
      BY <2>2, <2>3, <2>5
    <2>7. QED
      BY <2>6 DEF w
  <1>7. ASSUME NEW k \in (i + 1)..j, k - 1 \in S
        PROVE  k \in S
    <2> DEFINE l == k - 1
    <2>1. l \in i..j /\ l < j /\ l + 1 = k /\ k \in i..j /\ 2 * k - 1 = 2 * l + 1
      BY <1>1
    <2>2. SUFFICES ASSUME 2 * k - 1 <= q
                   PROVE  Joins(F, p, 2 * k - 1, x(k))
      BY <2>1
    <2>3. 2 * l - 1 <= q /\ 2 * l <= q
      BY <1>1, <1>2, <2>1, <2>2
    <2>4. Joins(F, p, 2 * l - 1, x(l))
      BY <1>7, <2>3
    <2> HIDE DEF l
    <2>5. Joins(F, p, 2 * l, x(k))
      BY <1>6, <2>1, <2>3, <2>4
    <2> DEFINE u == 2 * l
               w == 2 * k - 1
    <2>6. u \in 0..m /\ w \in 1..m /\ w = u + 1 /\ w \in (p + 1)..q
      BY <1>1, <1>2, <2>1, <2>2 DEF m
    <2>7. D[w] = <<>>
      BY <1>4, <2>1, <2>6
    <2>8. x(k) \in Seq(V)
      BY <1>3, <2>1
    <2>9. Joins(F, p, u, x(k))
      BY <2>5
    <2> HIDE DEF u, w
    <2>10. Joins(F, p, w, x(k))
      BY <1>1, <1>2, <2>6, <2>7, <2>8, <2>9, JoinsMore DEF m
    <2>11. QED
      BY <2>10 DEF w
  <1> HIDE DEF S
  <1>8. \A k \in i..j : k \in S
    BY <1>1, <1>5, <1>7, Climb
  <1>9. \A k \in i..j : 2 * k - 1 <= q => Joins(F, p, 2 * k - 1, x(k))
    BY <1>8 DEF S
  <1>10. CASE q = 2 * j - 1
    BY <1>1, <1>9, <1>10 DEF x
  <1>11. CASE q # 2 * j - 1 /\ i = j
    <2>1. p = q /\ x(j) = <<>>
      BY <1>1, <1>2, <1>3, <1>11
    <2>2. Joins(F, q, q, <<>>)
      BY <1>1, <1>2, JoinsOne DEF m
    <2>3. QED
      BY <2>1, <2>2 DEF x
  <1>12. CASE q # 2 * j - 1 /\ i # j
    <2> DEFINE l == j - 1
    <2>1. l \in i..j /\ l < j /\ l + 1 = j /\ 2 * l - 1 <= q /\ 2 * l = q
      BY <1>1, <1>2, <1>12
    <2> HIDE DEF l
    <2>2. Joins(F, p, 2 * l - 1, x(l))
      BY <1>9, <2>1
    <2>3. 2 * l <= q
      BY <1>2, <2>1
    <2>4. Joins(F, p, 2 * l, x(l + 1))
      BY <1>6, <2>1, <2>2, <2>3
    <2>5. Joins(F, p, q, x(j))
      BY <2>1, <2>4
    <2>6. QED
      BY <2>5 DEF x
  <1>13. QED
    BY <1>10, <1>11, <1>12

-----------------------------------------------------------------------------
(* Pages: hunks and the places they are about *)

\* The line a hunk begins at, and the one that comes after what it is about.
Begins(h, n) ==
    CASE h.kind \in Pages!Ranged \cup {"before"} -> h.start
      [] h.kind = "after" -> h.start + 1
      [] h.kind = "tail" -> n + 1
Ends(h, n) == IF h.kind \in Pages!Ranged THEN h.end + 1 ELSE Begins(h, n)

\* The places of a hunk are after the one and up to the other.
Lo(h, n) == IF h.kind \in Pages!Ranged THEN 2 * Begins(h, n) - 1 ELSE 2 * Begins(h, n) - 2
Hi(h, n) == IF h.kind \in Pages!Ranged THEN 2 * Ends(h, n) - 2 ELSE 2 * Begins(h, n) - 1
At(h, n) == (Lo(h, n) + 1)..Hi(h, n)

\* A hunk for a text of n lines, whose body has rows of V.
HunkFor(h, n, V) ==
    /\ h.kind \in {"replace", "cut", "before", "after", "tail"}
    /\ h.kind # "tail" => h.start \in 1..n /\ h.end \in h.start..n
    /\ h.body \in Seq(V)

LEMMA HunkPlaces ==
    ASSUME NEW n \in Nat, NEW V, NEW h, HunkFor(h, n, V)
    PROVE  /\ Begins(h, n) \in 1..(n + 1) /\ Ends(h, n) \in 1..(n + 1)
           /\ Begins(h, n) <= Ends(h, n)
           /\ h.kind \in Pages!Ranged =>
                Begins(h, n) = h.start /\ Ends(h, n) = h.end + 1 /\ Begins(h, n) < Ends(h, n)
           /\ h.kind \notin Pages!Ranged => Begins(h, n) = Ends(h, n)
           /\ Lo(h, n) \in 0..(2 * n + 1) /\ Hi(h, n) \in 0..(2 * n + 1) /\ Lo(h, n) <= Hi(h, n)
           /\ Beside(Lo(h, n), Begins(h, n)) /\ Beside(Hi(h, n), Ends(h, n))
  <1> DEFINE a == Begins(h, n)
             z == Ends(h, n)
  <1>1. /\ h.kind \in {"replace", "cut", "before", "after", "tail"}
        /\ h.kind # "tail" => h.start \in 1..n /\ h.end \in h.start..n
        /\ h.kind \in Pages!Ranged <=> h.kind \in {"replace", "cut"}
    BY DEF HunkFor, Pages!Ranged
  <1>2. /\ h.kind \in Pages!Ranged => a = h.start /\ z = h.end + 1
        /\ h.kind \notin Pages!Ranged => z = a
        /\ h.kind = "before" => a = h.start
        /\ h.kind = "after" => a = h.start + 1
        /\ h.kind = "tail" => a = n + 1
    BY DEF Begins, Ends, Pages!Ranged
  <1>3. a \in 1..(n + 1) /\ z \in 1..(n + 1)
    BY <1>1, <1>2
  <1>4. h.kind \in Pages!Ranged => a < z
    BY <1>1, <1>2
  <1>5. a <= z
    BY <1>2, <1>3, <1>4
  <1>6. /\ Lo(h, n) = IF h.kind \in Pages!Ranged THEN 2 * a - 1 ELSE 2 * a - 2
        /\ Hi(h, n) = IF h.kind \in Pages!Ranged THEN 2 * z - 2 ELSE 2 * a - 1
    BY DEF Lo, Hi
  <1> HIDE DEF a, z
  <1>7. /\ Lo(h, n) \in 0..(2 * n + 1) /\ Hi(h, n) \in 0..(2 * n + 1) /\ Lo(h, n) <= Hi(h, n)
        /\ Beside(Lo(h, n), a) /\ Beside(Hi(h, n), z)
    BY <1>2, <1>3, <1>4, <1>6 DEF Beside
  <1>8. QED
    BY <1>2, <1>3, <1>4, <1>5, <1>7 DEF a, z

\* Which places they are.
LEMMA PlacesOf ==
    ASSUME NEW n \in Nat, NEW V, NEW h, HunkFor(h, n, V), NEW i \in 1..(n + 1)
    PROVE  /\ h.kind \notin Pages!Ranged =>
                (Begins(h, n) = i <=> 2 * i - 1 \in At(h, n)) /\ 2 * i \notin At(h, n)
           /\ h.kind \in Pages!Ranged => (i \in h.start..h.end <=> 2 * i \in At(h, n))
  <1> DEFINE a == Begins(h, n)
             z == Ends(h, n)
  <1>1. /\ a \in 1..(n + 1) /\ z \in 1..(n + 1)
        /\ h.kind \in Pages!Ranged => a = h.start /\ z = h.end + 1
    BY HunkPlaces
  <1>2. h.kind \in Pages!Ranged => h.start \in 1..n /\ h.end \in h.start..n
    BY DEF HunkFor, Pages!Ranged
  <1>3. /\ Lo(h, n) = IF h.kind \in Pages!Ranged THEN 2 * a - 1 ELSE 2 * a - 2
        /\ Hi(h, n) = IF h.kind \in Pages!Ranged THEN 2 * z - 2 ELSE 2 * a - 1
    BY DEF Lo, Hi
  <1> HIDE DEF a, z
  <1>4. h.kind \notin Pages!Ranged => (a = i <=> 2 * i - 1 \in At(h, n)) /\ 2 * i \notin At(h, n)
    BY <1>1, <1>3 DEF At
  <1>5. h.kind \in Pages!Ranged => (i \in h.start..h.end <=> 2 * i \in At(h, n))
    BY <1>1, <1>2, <1>3 DEF At
  <1>6. QED
    BY <1>4, <1>5 DEF a

\* A patch of one hunk or two.
PatchFor(patch, n, V) ==
    \E m \in {1, 2} : DOMAIN patch = 1..m /\ \A k \in 1..m : HunkFor(patch[k], n, V)

\* What a patch puts before line i, the hunks that are about row i, and what it
\* makes of that row.
Puts(patch, n, i) ==
    Pages!FlattenSeq([k \in DOMAIN patch |->
        IF patch[k].kind \notin Pages!Ranged /\ Begins(patch[k], n) = i THEN patch[k].body ELSE <<>>])
Over(patch, i) ==
    {k \in DOMAIN patch : patch[k].kind \in Pages!Ranged /\ i \in patch[k].start..patch[k].end}
Makes(r, patch, i) ==
    IF i > Len(r) THEN <<>>
    ELSE IF Over(patch, i) = {} THEN <<r[i]>>
    ELSE LET h == patch[CHOOSE k \in Over(patch, i) : TRUE]
         IN  IF i = h.start THEN h.body ELSE <<>>

LEMMA RowsAfterIs ==
    ASSUME NEW V, NEW r \in Seq(V), NEW patch, PatchFor(patch, Len(r), V)
    PROVE  Pages!RowsAfter(r, patch) =
             Pages!FlattenSeq([i \in 1..(Len(r) + 1) |-> Puts(patch, Len(r), i) \o Makes(r, patch, i)])
  <1> DEFINE n == Len(r)
             gap(h) == IF h.kind = "tail" THEN n ELSE Pages!Gap(h)
             inserted(i) == Pages!FlattenSeq([k \in DOMAIN patch |->
                 IF patch[k].kind \notin Pages!Ranged /\ gap(patch[k]) = i - 1
                 THEN patch[k].body ELSE <<>>])
  <1>1. n \in Nat
    BY EndOf
  <1>2. Pages!RowsAfter(r, patch) = Pages!FlattenSeq([i \in 1..(n + 1) |-> inserted(i) \o Makes(r, patch, i)])
    BY DEF Pages!RowsAfter, Makes, Over
  <1>3. ASSUME NEW i \in 1..(n + 1)
        PROVE  inserted(i) = Puts(patch, n, i)
    <2>1. ASSUME NEW k \in DOMAIN patch
          PROVE  patch[k].kind \notin Pages!Ranged =>
                   (gap(patch[k]) = i - 1 <=> Begins(patch[k], n) = i)
      <3> DEFINE h == patch[k]
      <3>1. HunkFor(h, n, V)
        BY DEF PatchFor
      <3> HIDE DEF h
      <3>2. /\ h.kind \in {"replace", "cut", "before", "after", "tail"}
            /\ h.kind # "tail" => h.start \in 1..n
        BY <3>1 DEF HunkFor
      <3>3. /\ h.kind = "before" => Begins(h, n) = h.start /\ gap(h) = h.start - 1
            /\ h.kind = "after" => Begins(h, n) = h.start + 1 /\ gap(h) = h.start
            /\ h.kind = "tail" => Begins(h, n) = n + 1 /\ gap(h) = n
        BY DEF Begins, Pages!Gap, Pages!Ranged
      <3> HIDE DEF gap
      <3>4. h.kind \notin Pages!Ranged => h.kind \in {"before", "after", "tail"}
        BY <3>2 DEF Pages!Ranged
      <3>5. h.kind \notin Pages!Ranged => (gap(h) = i - 1 <=> Begins(h, n) = i)
        BY <1>1, <3>2, <3>3, <3>4
      <3>6. QED
        BY <3>5 DEF h
    <2> HIDE DEF gap
    <2>2. [k \in DOMAIN patch |-> IF patch[k].kind \notin Pages!Ranged /\ gap(patch[k]) = i - 1
                                  THEN patch[k].body ELSE <<>>]
            = [k \in DOMAIN patch |-> IF patch[k].kind \notin Pages!Ranged /\ Begins(patch[k], n) = i
                                      THEN patch[k].body ELSE <<>>]
      BY <2>1
    <2>3. QED
      BY <2>2, Zenon DEF Puts
  <1> HIDE DEF inserted, n
  <1>4. [i \in 1..(n + 1) |-> inserted(i) \o Makes(r, patch, i)]
          = [i \in 1..(n + 1) |-> Puts(patch, n, i) \o Makes(r, patch, i)]
    BY <1>3
  <1>5. QED
    BY <1>2, <1>4, Zenon DEF n

LEMMA PutsAre ==
    ASSUME NEW n \in Nat, NEW V, NEW patch, PatchFor(patch, n, V), NEW i \in 1..(n + 1)
    PROVE  LET Puts1(k) == patch[k].kind \notin Pages!Ranged /\ Begins(patch[k], n) = i
           IN /\ Puts(patch, n, i) \in Seq(V)
              /\ (\A k \in DOMAIN patch : ~Puts1(k)) => Puts(patch, n, i) = <<>>
              /\ \A k \in DOMAIN patch : Puts1(k) /\ (\A l \in DOMAIN patch : Puts1(l) => l = k) =>
                    Puts(patch, n, i) = patch[k].body
  <1> DEFINE Puts1(k) == patch[k].kind \notin Pages!Ranged /\ Begins(patch[k], n) = i
             f == [k \in DOMAIN patch |-> IF Puts1(k) THEN patch[k].body ELSE <<>>]
  <1>1. PICK m \in {1, 2} : DOMAIN patch = 1..m /\ \A k \in 1..m : HunkFor(patch[k], n, V)
    BY DEF PatchFor
  <1>2. Puts(patch, n, i) = Pages!FlattenSeq(f)
    BY DEF Puts
  <1>3. \A k \in 1..m : patch[k].body \in Seq(V)
    BY <1>1 DEF HunkFor
  <1>4. <<>> \in Seq(V)
    BY EmptySeq
  <1> HIDE DEF Puts1
  <1>5. f \in [1..m -> Seq(V)] /\ \A k \in 1..m : f[k] = IF Puts1(k) THEN patch[k].body ELSE <<>>
    BY <1>1, <1>3, <1>4
  <1> HIDE DEF f
  <1>6. /\ m = 1 => Pages!FlattenSeq(f) = f[1]
        /\ m = 2 => Pages!FlattenSeq(f) = f[1] \o f[2]
    <2>1. m \in Nat
      OBVIOUS
    <2>2. QED
      BY <1>5, <2>1, FlattenFew
  <1>7. f[1] \in Seq(V) /\ (m = 2 => f[2] \in Seq(V))
    BY <1>5
  <1>8. /\ f[1] \o <<>> = f[1] /\ <<>> \o f[1] = f[1]
        /\ m = 2 => <<>> \o f[2] = f[2] /\ f[1] \o f[2] \in Seq(V)
        /\ <<>> \o <<>> = <<>>
    BY <1>4, <1>7, ConcatEmptySeq, ConcatProperties
  <1>9. f[1] = (IF Puts1(1) THEN patch[1].body ELSE <<>>)
        /\ (m = 2 => f[2] = IF Puts1(2) THEN patch[2].body ELSE <<>>)
    BY <1>5
  <1>10. Pages!FlattenSeq(f) \in Seq(V)
    BY <1>6, <1>7, <1>8
  <1>11. CASE m = 1
    BY <1>1, <1>2, <1>6, <1>9, <1>10, <1>11 DEF Puts1
  <1>12. CASE m = 2
    <2>1. 1..m = {1, 2}
      BY <1>12
    <2>2. (\A k \in 1..m : ~Puts1(k)) => Pages!FlattenSeq(f) = <<>>
      BY <1>6, <1>8, <1>9, <1>12, <2>1
    <2>3. ASSUME NEW k \in 1..m, Puts1(k), \A l \in 1..m : Puts1(l) => l = k
          PROVE  Pages!FlattenSeq(f) = patch[k].body
      <3>1. CASE k = 1
        BY <1>6, <1>8, <1>9, <1>12, <2>1, <2>3, <3>1
      <3>2. CASE k = 2
        BY <1>6, <1>8, <1>9, <1>12, <2>1, <2>3, <3>2
      <3>3. QED
        BY <2>1, <3>1, <3>2
    <2>4. QED
      BY <1>1, <1>2, <1>10, <2>2, <2>3 DEF Puts1
  <1>13. QED
    BY <1>11, <1>12

LEMMA MakesAre ==
    ASSUME NEW V, NEW r \in Seq(V), NEW patch, PatchFor(patch, Len(r), V), NEW i \in 1..(Len(r) + 1)
    PROVE  /\ Makes(r, patch, i) \in Seq(V)
           /\ i = Len(r) + 1 => Makes(r, patch, i) = <<>>
           /\ i <= Len(r) /\ Over(patch, i) = {} => Makes(r, patch, i) = <<r[i]>>
           /\ \A k : i <= Len(r) /\ Over(patch, i) = {k} =>
                Makes(r, patch, i) = IF i = patch[k].start THEN patch[k].body ELSE <<>>
  <1> DEFINE O == Over(patch, i)
  <1>1. Len(r) \in Nat /\ <<>> \in Seq(V)
    BY EndOf, EmptySeq
  <1>2. O \subseteq DOMAIN patch
    BY DEF Over
  <1>3. \A k \in DOMAIN patch : patch[k].body \in Seq(V)
    BY DEF PatchFor, HunkFor
  <1>4. i <= Len(r) => r[i] \in V
    BY <1>1, ElementOfSeq
  <1>5. Makes(r, patch, i) = IF i > Len(r) THEN <<>>
                             ELSE IF O = {} THEN <<r[i]>>
                             ELSE LET h == patch[CHOOSE k \in O : TRUE]
                                  IN  IF i = h.start THEN h.body ELSE <<>>
    BY Zenon DEF Makes
  <1> HIDE DEF O
  <1>6. O # {} => (CHOOSE k \in O : TRUE) \in O
    OBVIOUS
  <1>7. Makes(r, patch, i) \in Seq(V)
    <2>1. i <= Len(r) => <<r[i]>> \in Seq(V)
      BY <1>4
    <2>2. QED
      BY <1>1, <1>2, <1>3, <1>5, <1>6, <2>1
  <1>8. i = Len(r) + 1 => Makes(r, patch, i) = <<>>
    BY <1>1, <1>5
  <1>9. i <= Len(r) /\ O = {} => Makes(r, patch, i) = <<r[i]>>
    BY <1>1, <1>5
  <1>10. ASSUME NEW k, i <= Len(r), O = {k}
         PROVE  Makes(r, patch, i) = IF i = patch[k].start THEN patch[k].body ELSE <<>>
    <2>1. (CHOOSE l \in O : TRUE) = k /\ O # {}
      BY <1>6, <1>10
    <2>2. QED
      BY <1>1, <1>5, <1>10, <2>1
  <1>11. QED
    BY <1>7, <1>8, <1>9, <1>10 DEF O

-----------------------------------------------------------------------------
(* Pages: the rows a patch leaves *)

\* What a patch makes of each place.
Made(D, r, patch, V) ==
    /\ D \in [1..(2 * Len(r) + 2) -> Seq(V)]
    /\ \A i \in 1..(Len(r) + 1) :
          D[2 * i - 1] = Puts(patch, Len(r), i) /\ D[2 * i] = Makes(r, patch, i)

\* A patch for the rows r, what it makes of their places, and what those come to.
Doing(V, r, patch, D, F) ==
    /\ r \in Seq(V) /\ PatchFor(patch, Len(r), V)
    /\ Made(D, r, patch, V) /\ Chain(F, D, 2 * Len(r) + 2, V)

LEMMA DoingOf ==
    ASSUME NEW V, NEW r \in Seq(V), NEW patch, PatchFor(patch, Len(r), V)
    PROVE  \E D, F : Doing(V, r, patch, D, F)
  <1> DEFINE n == Len(r)
             m == 2 * n + 2
             puts(i) == Puts(patch, n, i)
             makes(i) == Makes(r, patch, i)
             D == [k \in 1..m |-> IF \E i \in 1..(n + 1) : k = 2 * i
                                  THEN makes(k \div 2) ELSE puts((k + 1) \div 2)]
  <1>1. n \in Nat /\ m \in Nat
    BY EndOf
  <1>2. \A i \in 1..(n + 1) : puts(i) \in Seq(V) /\ makes(i) \in Seq(V)
    BY <1>1, PutsAre, MakesAre
  <1> HIDE DEF puts, makes
  <1>3. ASSUME NEW k \in 1..m
        PROVE  D[k] \in Seq(V)
    <2>1. ASSUME NEW i \in 1..(n + 1), k = 2 * i
          PROVE  k \div 2 = i
      BY <2>1
    <2>2. ASSUME ~\E i \in 1..(n + 1) : k = 2 * i
          PROVE  (k + 1) \div 2 \in 1..(n + 1)
      <3> DEFINE j == (k + 1) \div 2
      <3>1. k = 2 * j \/ k = 2 * j - 1
        BY <1>1
      <3>2. j \in 1..(n + 1)
        BY <1>1, <3>1
      <3>3. QED
        BY <3>2
    <2>3. QED
      BY <1>2, <2>1, <2>2
  <1>4. ASSUME NEW i \in 1..(n + 1)
        PROVE  D[2 * i - 1] = puts(i) /\ D[2 * i] = makes(i)
    <2>1. 2 * i \in 1..m /\ 2 * i - 1 \in 1..m /\ (2 * i) \div 2 = i /\ ((2 * i - 1) + 1) \div 2 = i
      BY <1>1
    <2>2. ~\E j \in 1..(n + 1) : 2 * i - 1 = 2 * j
      BY <1>1
    <2>3. QED
      BY <2>1, <2>2
  <1>5. D \in [1..m -> Seq(V)]
    <2>1. D = [k \in 1..m |-> D[k]]
      OBVIOUS
    <2> HIDE DEF D
    <2>2. QED
      BY <1>3, <2>1
  <1> HIDE DEF D, n, m
  <1>6. PICK F : Chain(F, D, m, V)
    BY <1>1, <1>5, ChainOf
  <1>7. Made(D, r, patch, V)
    BY <1>4, <1>5 DEF Made, puts, makes, n, m
  <1>8. QED
    BY <1>6, <1>7 DEF Doing, m, n

\* The rows after the patch are what its places come to.
LEMMA DoingEnd ==
    ASSUME NEW V, NEW r, NEW patch, NEW D, NEW F, Doing(V, r, patch, D, F)
    PROVE  Pages!RowsAfter(r, patch) = F[2 * Len(r) + 1]
  <1> DEFINE n == Len(r)
             m == 2 * n + 2
             f == [i \in 1..(n + 1) |-> Puts(patch, n, i) \o Makes(r, patch, i)]
  <1>1. /\ r \in Seq(V) /\ PatchFor(patch, n, V) /\ Chain(F, D, m, V)
        /\ \A i \in 1..(n + 1) : D[2 * i - 1] = Puts(patch, n, i) /\ D[2 * i] = Makes(r, patch, i)
    BY DEF Doing, Made
  <1>2. n \in Nat /\ m \in Nat /\ n + 1 \in Nat
    BY <1>1, EndOf
  <1>3. \A i \in 1..(n + 1) : Puts(patch, n, i) \in Seq(V) /\ Makes(r, patch, i) \in Seq(V)
    BY <1>1, <1>2, PutsAre, MakesAre
  <1>4. ASSUME NEW i \in 1..(n + 1)
        PROVE  f[i] \in Seq(V) /\ F[2 * i] = F[2 * (i - 1)] \o f[i]
               /\ (i = n + 1 => F[2 * i] = F[2 * i - 1])
    <2> DEFINE a == F[2 * (i - 1)]
               x == D[2 * i - 1]
               y == D[2 * i]
    <2>1. /\ 2 * (i - 1) \in 0..m /\ 2 * i - 1 \in 1..m /\ 2 * i \in 1..m /\ 2 * i - 1 \in 0..m
          /\ (2 * i - 1) - 1 = 2 * (i - 1)
      BY <1>2
    <2>2. a \in Seq(V) /\ F[2 * i - 1] = a \o x /\ F[2 * i] = F[2 * i - 1] \o y /\ F[2 * i - 1] \in Seq(V)
      BY <1>1, <2>1 DEF Chain
    <2>3. x = Puts(patch, n, i) /\ y = Makes(r, patch, i) /\ x \in Seq(V) /\ y \in Seq(V)
      BY <1>1, <1>3
    <2>4. f[i] = x \o y
      BY <2>3
    <2> DEFINE b == F[2 * i - 1]
               c == F[2 * i]
               d == f[i]
    <2>5. i = n + 1 => y = <<>>
      BY <1>1, <2>3, MakesAre
    <2> HIDE DEF a, x, y, b, c, d, f
    <2>6. (a \o x) \o y = a \o (x \o y) /\ x \o y \in Seq(V)
      <3>1. a \in Seq(V) /\ x \in Seq(V) /\ y \in Seq(V)
        BY <2>2, <2>3, Zenon
      <3>2. \A p, q, t \in Seq(V) : (p \o q) \o t = p \o (q \o t) /\ q \o t \in Seq(V)
        BY Regrouped
      <3>3. QED
        BY <3>1, <3>2, Zenon
    <2>7. b \o <<>> = b
      BY <2>2, ConcatEmptySeq DEF b
    <2>8. QED
      BY <2>2, <2>4, <2>5, <2>6, <2>7 DEF a, b
  <1>5. f \in [1..(n + 1) -> Seq(V)]
    <2>1. f = [i \in 1..(n + 1) |-> f[i]]
      OBVIOUS
    <2> HIDE DEF f
    <2>2. QED
      BY <1>4, <2>1
  <1> DEFINE G == [i \in 0..(n + 1) |-> F[2 * i]]
  <1>6. Chain(G, f, n + 1, V)
    <2>1. ASSUME NEW i \in 0..(n + 1)
          PROVE  G[i] = F[2 * i] /\ G[i] \in Seq(V)
      <3>1. 2 * i \in 0..m
        BY <1>2
      <3>2. F[2 * i] \in Seq(V)
        BY <1>1, <3>1 DEF Chain
      <3>3. QED
        BY <3>2
    <2>2. G \in [0..(n + 1) -> Seq(V)]
      <3>1. G = [i \in 0..(n + 1) |-> G[i]]
        OBVIOUS
      <3> HIDE DEF G
      <3>2. QED
        BY <2>1, <3>1
    <2>3. G[0] = <<>>
      <3>1. 0 \in 0..(n + 1) /\ 2 * 0 = 0
        BY <1>2
      <3>2. QED
        BY <1>1, <2>1, <3>1 DEF Chain
    <2>4. ASSUME NEW i \in 1..(n + 1)
          PROVE  G[i] = G[i - 1] \o f[i]
      <3>1. i \in 0..(n + 1) /\ i - 1 \in 0..(n + 1)
        BY <1>2
      <3> HIDE DEF G, f
      <3>2. G[i] = F[2 * i] /\ G[i - 1] = F[2 * (i - 1)]
        BY <2>1, <3>1
      <3>3. QED
        BY <1>4, <3>2
    <2> HIDE DEF G, f
    <2>5. QED
      BY <2>2, <2>3, <2>4 DEF Chain
  <1>7. Pages!RowsAfter(r, patch) = Pages!FlattenSeq(f)
    BY <1>1, RowsAfterIs
  <1>8. G[n + 1] = F[2 * (n + 1)] /\ n + 1 \in 1..(n + 1)
    BY <1>2
  <1>9. 2 * (n + 1) - 1 = 2 * n + 1
    BY <1>2
  <1> HIDE DEF f, G
  <1>10. Pages!FlattenSeq(f) = G[n + 1]
    BY <1>2, <1>5, <1>6, FlattenIs
  <1>11. F[2 * (n + 1)] = F[2 * n + 1]
    <2> DEFINE i == n + 1
    <2>1. i \in 1..(n + 1) /\ i = n + 1 /\ 2 * i - 1 = 2 * n + 1
      BY <1>8, <1>9
    <2> HIDE DEF i
    <2>2. F[2 * i] = F[2 * i - 1]
      BY <1>4, <2>1
    <2>3. QED
      BY <2>1, <2>2
  <1>12. QED
    BY <1>7, <1>8, <1>10, <1>11

\* None of the places after p up to q is one of a hunk but for k.
Alone(patch, n, p, q, k) == \A x \in (p + 1)..q : \A l \in DOMAIN patch : l # k => x \notin At(patch[l], n)

\* The places of a hunk come to its body.
LEMMA HunkStep ==
    ASSUME NEW V, NEW r, NEW patch, NEW D, NEW F, Doing(V, r, patch, D, F), NEW k \in DOMAIN patch,
           Alone(patch, Len(r), Lo(patch[k], Len(r)), Hi(patch[k], Len(r)), k)
    PROVE  Joins(F, Lo(patch[k], Len(r)), Hi(patch[k], Len(r)), patch[k].body)
  <1> DEFINE n == Len(r)
             m == 2 * n + 2
             h == patch[k]
             lo == Lo(h, n)
             hi == Hi(h, n)
  <1>1. /\ r \in Seq(V) /\ PatchFor(patch, n, V) /\ Chain(F, D, m, V)
        /\ D \in [1..m -> Seq(V)]
        /\ \A i \in 1..(n + 1) : D[2 * i - 1] = Puts(patch, n, i) /\ D[2 * i] = Makes(r, patch, i)
    BY DEF Doing, Made
  <1>2. n \in Nat /\ m \in Nat
    BY <1>1, EndOf
  <1>3. \A l \in DOMAIN patch : HunkFor(patch[l], n, V)
    BY <1>1 DEF PatchFor
  <1>4. \A x \in (lo + 1)..hi : \A l \in DOMAIN patch : l # k => x \notin At(patch[l], n)
    BY DEF Alone
  <1>5. HunkFor(h, n, V) /\ h.body \in Seq(V)
    BY <1>3 DEF HunkFor
  <1>6. CASE h.kind \notin Pages!Ranged
    <2> DEFINE i == Begins(h, n)
               w == 2 * i - 1
    <2>1. i \in 1..(n + 1) /\ lo = w - 1 /\ hi = w
      BY <1>2, <1>5, <1>6, HunkPlaces DEF Lo, Hi
    <2>2. w \in 1..m /\ w \in (lo + 1)..hi
      BY <1>2, <2>1
    <2> HIDE DEF i, w, lo, hi
    <2>3. ASSUME NEW l \in DOMAIN patch, patch[l].kind \notin Pages!Ranged, Begins(patch[l], n) = i
          PROVE  l = k
      <3>1. 2 * i - 1 \in At(patch[l], n)
        BY <1>2, <1>3, <2>1, <2>3, PlacesOf
      <3>2. QED
        BY <1>4, <2>2, <3>1 DEF w
    <2>4. Puts(patch, n, i) = h.body
      BY <1>1, <1>2, <1>6, <2>1, <2>3, PutsAre DEF i
    <2>5. D[w] = h.body
      BY <1>1, <2>1, <2>4 DEF w
    <2>6. Joins(F, w - 1, w, D[w])
      BY <1>1, <1>2, <2>2, JoinsOne
    <2>7. QED
      BY <2>1, <2>5, <2>6 DEF lo, hi
  <1>7. CASE h.kind \in Pages!Ranged
    <2> DEFINE s == h.start
               e == h.end
               S == {i \in s..e : Joins(F, lo, 2 * i, h.body)}
    <2>1. s \in 1..n /\ e \in s..n /\ lo = 2 * s - 1 /\ hi = 2 * (e + 1) - 2
      BY <1>2, <1>5, <1>7, HunkPlaces DEF Lo, Hi, HunkFor, Pages!Ranged
    <2> HIDE DEF lo, hi
    <2>2. ASSUME NEW i \in s..e
          PROVE  Over(patch, i) = {k}
      <3>1. i \in 1..(n + 1) /\ 2 * i \in (lo + 1)..hi
        <4> HIDE DEF n, s, e
        <4>1. QED
          BY <1>2, <2>1
      <3>2. ASSUME NEW l \in DOMAIN patch, patch[l].kind \in Pages!Ranged, i \in patch[l].start..patch[l].end
            PROVE  l = k
        <4>1. 2 * i \in At(patch[l], n)
          BY <1>2, <1>3, <3>1, <3>2, PlacesOf
        <4>2. QED
          BY <1>4, <3>1, <4>1
      <3>3. QED
        BY <1>7, <3>2 DEF Over
    <2>3. ASSUME NEW i \in s..e
          PROVE  D[2 * i] = IF i = s THEN h.body ELSE <<>>
      <3>1. i \in 1..(n + 1) /\ i <= n
        BY <1>2, <2>1
      <3>2. Makes(r, patch, i) = IF i = s THEN h.body ELSE <<>>
        BY <1>1, <2>2, <3>1, MakesAre
      <3>3. QED
        BY <1>1, <3>1, <3>2
    <2>4. ASSUME NEW i \in (s + 1)..e
          PROVE  D[2 * i - 1] = <<>>
      <3>1. i \in 1..(n + 1) /\ 2 * i - 1 \in (lo + 1)..hi
        <4> HIDE DEF n, s, e
        <4>1. QED
          BY <1>2, <2>1
      <3>2. ASSUME NEW l \in DOMAIN patch
            PROVE  ~(patch[l].kind \notin Pages!Ranged /\ Begins(patch[l], n) = i)
        <4>1. SUFFICES ASSUME patch[l].kind \notin Pages!Ranged, Begins(patch[l], n) = i
                       PROVE  FALSE
          OBVIOUS
        <4>2. 2 * i - 1 \in At(patch[l], n)
          BY <1>2, <1>3, <3>1, <4>1, PlacesOf
        <4>3. l = k
          BY <1>4, <3>1, <4>2
        <4>4. QED
          BY <1>7, <4>1, <4>3
      <3>3. Puts(patch, n, i) = <<>>
        BY <1>1, <1>2, <3>1, <3>2, PutsAre
      <3>4. QED
        BY <1>1, <3>1, <3>3
    <2>5. s \in S
      <3> DEFINE w == 2 * s
      <3>1. w \in 1..m /\ w - 1 = lo /\ s \in s..e
        <4> HIDE DEF n, s, e
        <4>1. QED
          BY <1>2, <2>1
      <3>2. Joins(F, w - 1, w, D[w])
        <4> HIDE DEF w
        <4>1. QED
          BY <1>1, <1>2, <3>1, JoinsOne
      <3>3. D[w] = h.body
        BY <2>3, <3>1
      <3>4. QED
        BY <3>1, <3>2, <3>3
    <2>6. ASSUME NEW i \in (s + 1)..e, i - 1 \in S
          PROVE  i \in S
      <3> DEFINE p == 2 * (i - 1)
                 u == 2 * i - 1
                 w == 2 * i
      <3>1. /\ lo \in 0..m /\ p \in 0..m /\ u \in 1..m /\ u \in 0..m /\ w \in 1..m
            /\ u = p + 1 /\ w = u + 1 /\ i \in s..e /\ i # s
        <4> HIDE DEF n, s, e
        <4>1. QED
          BY <1>2, <2>1
      <3>2. Joins(F, lo, p, h.body)
        BY <2>6
      <3>3. D[u] = <<>> /\ D[w] = <<>>
        BY <2>3, <2>4, <3>1
      <3> HIDE DEF p, u, w
      <3>4. Joins(F, lo, u, h.body)
        BY <1>1, <1>2, <1>5, <3>1, <3>2, <3>3, JoinsMore
      <3>5. Joins(F, lo, w, h.body)
        BY <1>1, <1>2, <1>5, <3>1, <3>3, <3>4, JoinsMore
      <3>6. QED
        BY <3>1, <3>5 DEF w
    <2> HIDE DEF S
    <2>7. \A i \in s..e : i \in S
      <3>1. s \in Nat /\ e \in Nat
        BY <1>2, <2>1
      <3>2. QED
        BY <2>5, <2>6, <3>1, Climb
    <2>8. e \in s..e /\ 2 * e = hi
      BY <1>2, <2>1
    <2>9. Joins(F, lo, 2 * e, h.body)
      BY <2>7, <2>8 DEF S
    <2>10. QED
      BY <2>8, <2>9 DEF lo, hi
  <1>8. QED
    BY <1>6, <1>7

\* Between hunks the rows stay.
LEMMA Between ==
    ASSUME NEW V, NEW r, NEW patch, NEW D, NEW F, Doing(V, r, patch, D, F),
           NEW i \in 1..(Len(r) + 1), NEW j \in i..(Len(r) + 1), NEW p, NEW q,
           Beside(p, i), Beside(q, j), p <= q,
           \A l \in DOMAIN patch : Hi(patch[l], Len(r)) <= p \/ q <= Lo(patch[l], Len(r))
    PROVE  Joins(F, p, q, SubSeq(r, i, j - 1))
  <1> DEFINE n == Len(r)
             m == 2 * n + 2
  <1>1. /\ r \in Seq(V) /\ PatchFor(patch, n, V) /\ Chain(F, D, m, V)
        /\ \A k \in 1..(n + 1) : D[2 * k - 1] = Puts(patch, n, k) /\ D[2 * k] = Makes(r, patch, k)
    BY DEF Doing, Made
  <1>2. n \in Nat /\ p \in Int /\ q \in Int /\ q <= 2 * n + 1
    BY <1>1, EndOf DEF Beside
  <1>3. \A l \in DOMAIN patch : HunkFor(patch[l], n, V)
    BY <1>1 DEF PatchFor
  <1>4. ASSUME NEW x \in (p + 1)..q, NEW l \in DOMAIN patch
        PROVE  x \notin At(patch[l], n)
    <2>1. Lo(patch[l], n) \in Nat /\ Hi(patch[l], n) \in Nat
      BY <1>2, <1>3, HunkPlaces
    <2>2. Hi(patch[l], n) <= p \/ q <= Lo(patch[l], n)
      OBVIOUS
    <2>3. QED
      BY <1>2, <2>1, <2>2 DEF At
  <1>5. ASSUME NEW k \in 1..(n + 1), 2 * k - 1 \in (p + 1)..q
        PROVE  D[2 * k - 1] = <<>>
    <2>1. \A l \in DOMAIN patch : ~(patch[l].kind \notin Pages!Ranged /\ Begins(patch[l], n) = k)
      BY <1>2, <1>3, <1>4, <1>5, PlacesOf
    <2>2. Puts(patch, n, k) = <<>>
      BY <1>1, <1>2, <2>1, PutsAre
    <2>3. QED
      BY <1>1, <2>2
  <1>6. ASSUME NEW k \in 1..(n + 1), 2 * k \in (p + 1)..q
        PROVE  D[2 * k] = <<r[k]>>
    <2>1. \A l \in DOMAIN patch :
             ~(patch[l].kind \in Pages!Ranged /\ k \in patch[l].start..patch[l].end)
      BY <1>2, <1>3, <1>4, <1>6, PlacesOf
    <2>2. Over(patch, k) = {}
      BY <2>1 DEF Over
    <2>3. k <= n
      BY <1>2, <1>6
    <2>4. Makes(r, patch, k) = <<r[k]>>
      BY <1>1, <2>2, <2>3, MakesAre
    <2>5. QED
      BY <1>1, <2>4
  <1>7. Unedited(D, r, p, q)
    BY <1>5, <1>6 DEF Unedited
  <1>8. QED
    BY <1>1, <1>7, Stretch

\* The rows after a patch of one hunk.
LEMMA RowsAfterOne ==
    ASSUME NEW V, NEW r \in Seq(V), NEW patch, PatchFor(patch, Len(r), V), DOMAIN patch = {1}
    PROVE  Pages!RowsAfter(r, patch) =
             (SubSeq(r, 1, Begins(patch[1], Len(r)) - 1) \o patch[1].body)
             \o SubSeq(r, Ends(patch[1], Len(r)), Len(r))
  <1> DEFINE n == Len(r)
             m == 2 * n + 2
             g == patch[1]
             a == Begins(g, n)
             z == Ends(g, n)
             lo == Lo(g, n)
             hi == Hi(g, n)
             x == SubSeq(r, 1, a - 1)
             w == SubSeq(r, z, n)
  <1>1. PICK D, F : Doing(V, r, patch, D, F)
    BY DoingOf
  <1>2. n \in Nat /\ m \in Nat /\ Chain(F, D, m, V)
    BY <1>1, EndOf DEF Doing
  <1>3. HunkFor(g, n, V) /\ g.body \in Seq(V)
    BY DEF PatchFor, HunkFor
  <1>4. /\ a \in 1..(n + 1) /\ z \in 1..(n + 1)
        /\ lo \in 0..(2 * n + 1) /\ hi \in 0..(2 * n + 1) /\ lo <= hi
        /\ Beside(lo, a) /\ Beside(hi, z)
    BY <1>2, <1>3, HunkPlaces
  <1>5. Joins(F, 0, lo, x)
    <2>1. 1 \in 1..(n + 1) /\ a \in 1..(n + 1) /\ a \in 1..(n + 1) /\ 0 <= lo /\ Beside(0, 1)
      BY <1>2, <1>4 DEF Beside
    <2>2. \A l \in DOMAIN patch : Hi(patch[l], n) <= 0 \/ lo <= Lo(patch[l], n)
      BY <1>4
    <2> HIDE DEF a, lo
    <2>3. QED
      BY <1>1, <1>4, <2>1, <2>2, Between
  <1>6. Joins(F, lo, hi, g.body)
    <2>1. Alone(patch, n, lo, hi, 1)
      BY DEF Alone
    <2>2. QED
      BY <1>1, <2>1, HunkStep
  <1> DEFINE e == 2 * n + 1
             j == n + 1
  <1>7. Joins(F, hi, e, w)
    <2>1. j \in z..(n + 1) /\ hi <= e /\ Beside(e, j) /\ j - 1 = n
      BY <1>2, <1>4 DEF Beside
    <2>2. \A l \in DOMAIN patch : Hi(patch[l], n) <= hi \/ e <= Lo(patch[l], n)
      BY <1>4
    <2> HIDE DEF z, hi, e, j
    <2>3. Joins(F, hi, e, SubSeq(r, z, j - 1))
      BY <1>1, <1>4, <2>1, <2>2, Between
    <2>4. QED
      BY <2>1, <2>3
  <1>8. 0 \in 0..m /\ lo \in 0..m /\ hi \in 0..m /\ e \in 0..m
    BY <1>2, <1>4
  <1>9. x \in Seq(V) /\ w \in Seq(V)
    <2>1. a \in 1..(n + 1) => SubSeq(r, 1, a - 1) \in Seq(V)
      BY <1>2, ElementOfSeq, SubSeqProperties
    <2>2. z \in 1..(n + 1) => SubSeq(r, z, n) \in Seq(V)
      BY <1>2, ElementOfSeq, SubSeqProperties
    <2>3. QED
      BY <1>4, <2>1, <2>2
  <1> DEFINE b == g.body
  <1>10. b \in Seq(V) /\ Joins(F, lo, hi, b)
    BY <1>3, <1>6
  <1> HIDE DEF x, w, b, lo, hi, e, m
  <1>11. Joins(F, 0, hi, x \o b) /\ x \o b \in Seq(V)
    BY <1>2, <1>5, <1>8, <1>9, <1>10, JoinsOn, Regrouped
  <1>12. Joins(F, 0, e, (x \o b) \o w) /\ (x \o b) \o w \in Seq(V)
    BY <1>2, <1>7, <1>8, <1>9, <1>11, JoinsOn, Regrouped
  <1>13. F[e] = (x \o b) \o w
    BY <1>2, <1>8, <1>12, JoinsOne
  <1>14. QED
    BY <1>1, <1>13, DoingEnd DEF x, b, w, e

\* The rows after a patch of two hunks, the first one before the other.
LEMMA RowsAfterTwo ==
    ASSUME NEW V, NEW r \in Seq(V), NEW patch, PatchFor(patch, Len(r), V),
           NEW x, NEW y, x # y, DOMAIN patch = {x, y},
           Hi(patch[x], Len(r)) <= Lo(patch[y], Len(r)),
           Ends(patch[x], Len(r)) <= Begins(patch[y], Len(r))
    PROVE  Pages!RowsAfter(r, patch) =
             (((SubSeq(r, 1, Begins(patch[x], Len(r)) - 1) \o patch[x].body)
               \o SubSeq(r, Ends(patch[x], Len(r)), Begins(patch[y], Len(r)) - 1)) \o patch[y].body)
             \o SubSeq(r, Ends(patch[y], Len(r)), Len(r))
  <1> DEFINE n == Len(r)
             m == 2 * n + 2
             a(k) == Begins(patch[k], n)
             z(k) == Ends(patch[k], n)
             lo(k) == Lo(patch[k], n)
             hi(k) == Hi(patch[k], n)
             b(k) == patch[k].body
             u == SubSeq(r, 1, a(x) - 1)
             v == SubSeq(r, z(x), a(y) - 1)
             w == SubSeq(r, z(y), n)
  <1>1. PICK D, F : Doing(V, r, patch, D, F)
    BY DoingOf
  <1>2. n \in Nat /\ m \in Nat /\ Chain(F, D, m, V)
    BY <1>1, EndOf DEF Doing
  <1>3. ASSUME NEW k \in {x, y}
        PROVE  HunkFor(patch[k], n, V) /\ b(k) \in Seq(V)
    BY DEF PatchFor, HunkFor
  <1>4. ASSUME NEW k \in {x, y}
        PROVE  /\ a(k) \in 1..(n + 1) /\ z(k) \in 1..(n + 1)
               /\ lo(k) \in 0..(2 * n + 1) /\ hi(k) \in 0..(2 * n + 1) /\ lo(k) <= hi(k)
               /\ Beside(lo(k), a(k)) /\ Beside(hi(k), z(k))
    BY <1>2, <1>3, HunkPlaces
  <1>5. hi(x) <= lo(y) /\ z(x) <= a(y)
    OBVIOUS
  <1> HIDE DEF m
  <1>6. Joins(F, 0, lo(x), u)
    <2> DEFINE p == lo(x)
               j == a(x)
    <2>1. 1 \in 1..(n + 1) /\ j \in 1..(n + 1) /\ 0 <= p /\ Beside(0, 1) /\ Beside(p, j)
      BY <1>2, <1>4 DEF Beside
    <2>2. lo(x) <= lo(y)
      BY <1>4, <1>5
    <2>3. \A l \in DOMAIN patch : Hi(patch[l], n) <= 0 \/ p <= Lo(patch[l], n)
      BY <1>4, <2>2
    <2> HIDE DEF j, p
    <2>4. Joins(F, 0, p, SubSeq(r, 1, j - 1))
      BY <1>1, <2>1, <2>3, Between
    <2>5. QED
      BY <2>4 DEF j, p
  <1>7. ASSUME NEW k \in {x, y}
        PROVE  Joins(F, lo(k), hi(k), b(k))
    <2>1. ASSUME NEW i \in (lo(k) + 1)..hi(k), NEW l \in DOMAIN patch, l # k
          PROVE  i \notin At(patch[l], n)
      <3>1. At(patch[l], n) = (lo(l) + 1)..hi(l)
        BY DEF At
      <3>2. l \in {x, y} /\ (hi(k) <= lo(l) \/ hi(l) <= lo(k))
        BY <1>5, <2>1
      <3>3. QED
        BY <1>4, <3>1, <3>2
    <2>2. Alone(patch, n, lo(k), hi(k), k)
      BY <2>1 DEF Alone
    <2>3. QED
      BY <1>1, <2>2, HunkStep
  <1>8. Joins(F, hi(x), lo(y), v)
    <2> DEFINE i == z(x)
               j == a(y)
               p == hi(x)
               q == lo(y)
    <2>1. i \in 1..(n + 1) /\ j \in i..(n + 1) /\ p <= q /\ Beside(p, i) /\ Beside(q, j)
      BY <1>2, <1>4, <1>5
    <2>2. \A l \in DOMAIN patch : Hi(patch[l], n) <= p \/ q <= Lo(patch[l], n)
      BY <1>4
    <2> HIDE DEF i, j, p, q
    <2>3. Joins(F, p, q, SubSeq(r, i, j - 1))
      BY <1>1, <2>1, <2>2, Between
    <2>4. QED
      BY <2>3 DEF i, j, p, q
  <1> DEFINE e == 2 * n + 1
  <1>9. Joins(F, hi(y), e, w)
    <2> DEFINE i == z(y)
               j == n + 1
               p == hi(y)
    <2>1. i \in 1..(n + 1) /\ j \in i..(n + 1) /\ p <= e /\ Beside(p, i) /\ Beside(e, j) /\ j - 1 = n
      BY <1>2, <1>4 DEF Beside
    <2>2. hi(x) <= hi(y)
      BY <1>4, <1>5
    <2>3. \A l \in DOMAIN patch : Hi(patch[l], n) <= p \/ e <= Lo(patch[l], n)
      BY <1>4, <2>2
    <2> HIDE DEF i, j, p, e
    <2>4. Joins(F, p, e, SubSeq(r, i, j - 1))
      BY <1>1, <2>1, <2>3, Between
    <2>5. QED
      BY <2>1, <2>4 DEF i, p
  <1>10. 0 \in 0..m /\ lo(x) \in 0..m /\ hi(x) \in 0..m /\ lo(y) \in 0..m /\ hi(y) \in 0..m /\ e \in 0..m
    BY <1>2, <1>4 DEF m
  <1>11. u \in Seq(V) /\ v \in Seq(V) /\ w \in Seq(V)
    <2>1. ASSUME NEW i \in 1..(n + 1), NEW j \in 1..(n + 1)
          PROVE  SubSeq(r, i, j - 1) \in Seq(V)
      BY <1>2, ElementOfSeq, SubSeqProperties
    <2>2. 1 \in 1..(n + 1) /\ n + 1 \in 1..(n + 1) /\ (n + 1) - 1 = n
      BY <1>2
    <2>3. SubSeq(r, z(y), (n + 1) - 1) \in Seq(V)
      BY <1>4, <2>1, <2>2
    <2>4. QED
      BY <1>4, <2>1, <2>2, <2>3
  <1> DEFINE lx == lo(x)
             hx == hi(x)
             ly == lo(y)
             hy == hi(y)
             bx == b(x)
             by == b(y)
  <1>12. bx \in Seq(V) /\ by \in Seq(V) /\ Joins(F, lx, hx, bx) /\ Joins(F, ly, hy, by)
    BY <1>3, <1>7
  <1>13. /\ 0 \in 0..m /\ lx \in 0..m /\ hx \in 0..m /\ ly \in 0..m /\ hy \in 0..m /\ e \in 0..m
         /\ Joins(F, 0, lx, u) /\ Joins(F, hx, ly, v) /\ Joins(F, hy, e, w)
    BY <1>6, <1>8, <1>9, <1>10
  <1> HIDE DEF u, v, w, bx, by, lx, hx, ly, hy, e
  <1> DEFINE c == u \o bx
             d == c \o v
             f == d \o by
             k == f \o w
  <1>14. Joins(F, 0, hx, c) /\ c \in Seq(V)
    BY <1>2, <1>11, <1>12, <1>13, JoinsOn, Regrouped
  <1> HIDE DEF c
  <1>15. Joins(F, 0, ly, d) /\ d \in Seq(V)
    BY <1>2, <1>11, <1>13, <1>14, JoinsOn, Regrouped
  <1> HIDE DEF d
  <1>16. Joins(F, 0, hy, f) /\ f \in Seq(V)
    BY <1>2, <1>12, <1>13, <1>15, JoinsOn, Regrouped
  <1> HIDE DEF f
  <1>17. Joins(F, 0, e, k) /\ k \in Seq(V)
    BY <1>2, <1>11, <1>13, <1>16, JoinsOn, Regrouped
  <1> HIDE DEF k
  <1>18. F[e] = k
    BY <1>2, <1>13, <1>17, JoinsOne
  <1>19. k = (((u \o bx) \o v) \o by) \o w
    BY DEF k, f, d, c
  <1>20. QED
    BY <1>1, <1>18, <1>19, DoingEnd DEF u, v, w, bx, by, e

-----------------------------------------------------------------------------
(* Pages: the rows of a body *)

\* The terminators an edit of the text may bring in: those it has, or the line
\* feed where it has none.
StylesOf(s) ==
    IF Pages!ToSet(s) \cap Pages!Newlines = {} THEN {"lf"} ELSE Pages!ToSet(s) \cap Pages!Newlines

LEMMA OwnTokens ==
    ASSUME NEW s, IsSeq(s)
    PROVE  s \in Seq(Pages!ToSet(s))
  <1>1. PICK T : s \in Seq(T)
    BY DEF IsSeq
  <1>2. Len(s) \in Nat /\ DOMAIN s = 1..Len(s) /\ s \in [1..Len(s) -> T]
    BY <1>1, LenProperties
  <1>3. \A i \in 1..Len(s) : s[i] \in Pages!ToSet(s)
    BY <1>2 DEF Pages!ToSet
  <1> DEFINE S == Pages!ToSet(s)
  <1> HIDE DEF S
  <1>4. s \in [1..Len(s) -> S]
    BY <1>2, <1>3 DEF S
  <1>5. QED
    BY <1>2, <1>4, SeqDef DEF S

LEMMA StylesAre ==
    ASSUME NEW T, NEW s \in Seq(T)
    PROVE  /\ Pages!LastStyle(s) \in StylesOf(s)
           /\ \A n \in Nat \ {0} : /\ Pages!LineStyle(s, n) \in StylesOf(s)
                                   /\ Pages!AdjacentStyle(s, n) \in StylesOf(s)
           /\ StylesOf(s) \subseteq Pages!Newlines
  <1> DEFINE S == Pages!ToSet(s)
             I == {i \in 1..Len(s) : s[i] \in Pages!Newlines}
  <1>1. s \in Seq(S) /\ Len(s) \in Nat
    BY OwnTokens, EndOf DEF IsSeq
  <1>2. \A i \in 1..Len(s) : s[i] \in S
    BY <1>1, ElementOfSeq
  <1>3. S \cap Pages!Newlines \subseteq StylesOf(s) /\ StylesOf(s) \subseteq Pages!Newlines
    BY DEF StylesOf, Pages!Newlines
  <1>4. StylesOf(s) = IF S \cap Pages!Newlines = {} THEN {"lf"} ELSE S \cap Pages!Newlines
    BY DEF StylesOf
  <1> HIDE DEF S
  <1>5. Pages!LastStyle(s) \in StylesOf(s)
    <2>1. Pages!LastStyle(s) = IF Pages!Terminators(s) = 0 THEN "lf"
                               ELSE s[IF I # {} THEN Pages!Max(I) ELSE 0]
      BY DEF Pages!LastStyle, Pages!SelectLastInSeq
    <2>2. Pages!Breaks(s) = I /\ IsFiniteSet(I) /\ Pages!Terminators(s) = Cardinality(I)
      BY BreaksFinite
    <2>3. I = {} <=> Pages!Terminators(s) = 0
      BY <2>2, FS_EmptySet
    <2>4. CASE I = {}
      <3>1. S \cap Pages!Newlines = {}
        <4>1. ASSUME NEW t \in S
              PROVE  \E i \in 1..Len(s) : s[i] = t
          <5>1. DOMAIN s = 1..Len(s)
            BY <1>1, LenProperties
          <5>2. QED
            BY <5>1 DEF S, Pages!ToSet
        <4>2. QED
          BY <2>4, <4>1
      <3>2. Pages!LastStyle(s) = "lf"
        BY <2>1, <2>3, <2>4
      <3>3. QED
        BY <1>4, <3>1, <3>2
    <2>5. CASE I # {}
      <3>1. I \in SUBSET (0..Len(s))
        BY <1>1
      <3>2. \E i \in I : \A j \in I : i >= j
        BY <1>1, <2>5, <3>1, GreatestIn
      <3>3. Pages!Max(I) \in I
        <4> HIDE DEF I
        <4>1. QED
          BY <3>2, Zenon DEF Pages!Max
      <3>4. s[Pages!Max(I)] \in S \cap Pages!Newlines
        BY <1>2, <3>3
      <3>5. QED
        BY <1>3, <2>1, <2>3, <2>5, <3>4
    <2>6. QED
      BY <2>4, <2>5
  <1>6. ASSUME NEW n \in Nat \ {0}
        PROVE  Pages!LineStyle(s, n) \in StylesOf(s)
    <2> DEFINE line == Pages!LineTokens(s, n)
    <2>1. line \in Seq(S)
      BY <1>1, RowsOfText
    <2>2. Pages!Style(line) = IF Pages!EndsWithNewline(line) THEN {Pages!Last(line)} ELSE {}
      BY DEF Pages!Style
    <2>3. Pages!EndsWithNewline(line) => Pages!Last(line) \in S \cap Pages!Newlines
      <3>1. Pages!Last(line) = line[Len(line)]
        BY DEF Pages!Last
      <3> HIDE DEF line
      <3>2. ASSUME Pages!EndsWithNewline(line)
            PROVE  line[Len(line)] \in S /\ line[Len(line)] \in Pages!Newlines
        <4>1. Len(line) \in Nat /\ Len(line) # 0 /\ line[Len(line)] \in Pages!Newlines
          BY <2>1, <3>2, EndOf
        <4>2. Len(line) \in 1..Len(line)
          BY <4>1
        <4>3. QED
          BY <2>1, <4>1, <4>2, ElementOfSeq
      <3>3. QED
        BY <3>1, <3>2
    <2>4. Pages!LineStyle(s, n) = IF Pages!Style(line) = {} THEN Pages!LastStyle(s) ELSE Pages!Last(line)
      BY DEF Pages!LineStyle
    <2> HIDE DEF line
    <2>5. QED
      BY <1>3, <1>5, <2>2, <2>3, <2>4
  <1>7. ASSUME NEW n \in Nat \ {0}
        PROVE  Pages!AdjacentStyle(s, n) \in StylesOf(s)
    <2>1. (IF n > 1 THEN n - 1 ELSE n) \in Nat \ {0}
      OBVIOUS
    <2>2. QED
      BY <1>6, <2>1 DEF Pages!AdjacentStyle
  <1>8. QED
    BY <1>3, <1>5, <1>6, <1>7

\* The body of a hunk, and its rows with their terminators.
BodyFor(body, T) == body \in Seq(Seq(T)) /\ \A k \in 1..Len(body) : RowText(body[k])
Terminated(body, c, terminate) ==
    [k \in DOMAIN body |-> IF k < Len(body) \/ terminate THEN Append(body[k], c) ELSE body[k]]

\* What rows come to that are terminated, all of them or all but the last.
LEMMA BuiltRows ==
    ASSUME NEW T, NEW c \in T, c \in Pages!Newlines, NEW body, BodyFor(body, T),
           NEW terminate \in BOOLEAN
    PROVE  LET X == Pages!FlattenSeq(Terminated(body, c, terminate))
           IN /\ X \in Seq(T)
              /\ terminate => Sealed(X) /\ Pages!Rows(X) = body
              /\ ~terminate /\ body # <<>> /\ body[Len(body)] # <<>> =>
                    Open(X) /\ Pages!Rows(X) = body
  <1> DEFINE n == Len(body)
             f == Terminated(body, c, terminate)
  <1>1. body \in Seq(Seq(T)) /\ n \in Nat /\ DOMAIN body = 1..n /\ (body = <<>> <=> n = 0)
    BY LenProperties, EndOf DEF BodyFor
  <1>2. ASSUME NEW k \in 1..n
        PROVE  /\ body[k] \in Seq(T) /\ RowText(body[k])
               /\ body[k] \o <<c>> \in Seq(T) /\ Sealed(body[k] \o <<c>>)
               /\ Pages!Rows(body[k] \o <<c>>) = <<body[k]>>
               /\ body[k] # <<>> => Open(body[k]) /\ Pages!Rows(body[k]) = <<body[k]>>
    <2>1. body[k] \in Seq(T) /\ RowText(body[k])
      BY <1>1, ElementOfSeq DEF BodyFor
    <2> DEFINE x == body[k]
    <2> HIDE DEF x
    <2>2. x \in Seq(T) /\ RowText(x)
      BY <2>1 DEF x
    <2>3. /\ x \o <<c>> \in Seq(T) /\ Sealed(x \o <<c>>) /\ Pages!Rows(x \o <<c>>) = <<x>>
          /\ x # <<>> => Open(x) /\ Pages!Rows(x) = <<x>>
      BY <2>2, RowsOfRow
    <2>4. QED
      BY <2>2, <2>3 DEF x
  <1>3. ASSUME NEW k \in 1..n
        PROVE  /\ f[k] \in Seq(T)
               /\ k < n \/ terminate => f[k] = body[k] \o <<c>>
               /\ k = n /\ ~terminate => f[k] = body[k]
    <2>1. f[k] = IF k < n \/ terminate THEN Append(body[k], c) ELSE body[k]
      BY <1>1 DEF Terminated
    <2>2. Append(body[k], c) = body[k] \o <<c>>
      BY <1>2, AppendIsConcat
    <2>3. body[k] \in Seq(T) /\ body[k] \o <<c>> \in Seq(T)
      BY <1>2
    <2> DEFINE b == body[k]
               d == b \o <<c>>
    <2> HIDE DEF f, b, d
    <2>4. f[k] = (IF k < n \/ terminate THEN d ELSE b) /\ b \in Seq(T) /\ d \in Seq(T)
      BY <2>1, <2>2, <2>3 DEF b, d
    <2>5. k = n => ~(k < n)
      BY <1>1
    <2>6. /\ k < n \/ terminate => f[k] = d
          /\ k = n /\ ~terminate => f[k] = b
      BY <2>4, <2>5, Zenon
    <2>7. QED
      BY <2>4, <2>6, Zenon DEF b, d
  <1>4. f \in [1..n -> Seq(T)]
    <2>1. f = [k \in 1..n |-> f[k]]
      BY <1>1 DEF Terminated
    <2> HIDE DEF f
    <2>2. QED
      BY <1>3, <2>1
  <1> HIDE DEF f
  <1>5. PICK F : Chain(F, f, n, T)
    BY <1>1, <1>4, ChainOf
  <1>6. Pages!FlattenSeq(f) = F[n] /\ F[n] \in Seq(T)
    <2>1. n \in 0..n
      BY <1>1
    <2>2. F[n] \in Seq(T)
      BY <1>5, <2>1 DEF Chain
    <2>3. QED
      BY <1>1, <1>4, <1>5, <2>2, FlattenIs, ZenonT(40)
  \* The rows so far.
  <1> DEFINE full == IF terminate THEN n ELSE n - 1
             x(k) == SubSeq(body, 1, k)
             S == {k \in 0..n : k <= full => Sealed(F[k]) /\ Pages!Rows(F[k]) = x(k)}
  <1>7. ASSUME NEW k \in 1..n
        PROVE  x(k) = x(k - 1) \o <<body[k]>> /\ x(k - 1) \in Seq(Seq(T))
    <2>1. 1 \in 1..n /\ k \in 1..n /\ k - 1 \in Int
      BY <1>1
    <2>2. SubSeq(body, 1, k) = SubSeq(body, 1, k - 1) \o <<body[k]>>
      BY <1>1, <2>1, SubSeqRecursiveSecond
    <2>3. \A l \in 1..(k - 1) : body[l] \in Seq(T)
      BY <1>2
    <2>4. SubSeq(body, 1, k - 1) \in Seq(Seq(T))
      BY <1>1, <2>1, <2>3, SubSeqProperties
    <2>5. QED
      BY <2>2, <2>4
  <1>8. ASSUME NEW k \in 1..n
        PROVE  F[k] = F[k - 1] \o f[k] /\ F[k - 1] \in Seq(T)
    <2>1. k - 1 \in 0..n
      BY <1>1
    <2>2. QED
      BY <1>5, <2>1 DEF Chain
  <1>9. 0 \in S
    <2>1. F[0] = <<>>
      BY <1>5 DEF Chain
    <2>2. Sealed(<<>>) /\ Pages!Rows(<<>>) = <<>>
      <3>1. <<>> \in Seq(T) /\ RowText(<<>>)
        BY EmptySeq DEF RowText, IsSeq
      <3>2. QED
        BY <3>1, RowsOfRow DEF Sealed
    <2>3. x(0) = <<>>
      BY <1>1, <1>2, SubSeqEmpty
    <2>4. 0 \in 0..n
      BY <1>1
    <2>5. QED
      BY <2>1, <2>2, <2>3, <2>4
  <1> HIDE DEF x
  <1>10. ASSUME NEW k \in (0 + 1)..n, k - 1 \in S
         PROVE  k \in S
    <2>1. k \in 1..n /\ k \in 0..n /\ k - 1 \in 0..n
      BY <1>1
    <2>2. SUFFICES ASSUME k <= full
                   PROVE  Sealed(F[k]) /\ Pages!Rows(F[k]) = x(k)
      BY <2>1
    <2>3. k - 1 <= full /\ (k < n \/ terminate)
      BY <1>1, <2>1, <2>2
    <2>4. Sealed(F[k - 1]) /\ Pages!Rows(F[k - 1]) = x(k - 1)
      BY <1>10, <2>3
    <2> DEFINE u == F[k - 1]
               b == f[k]
    <2>5. F[k] = u \o b /\ u \in Seq(T)
      BY <1>8, <2>1
    <2>6. b \in Seq(T) /\ Sealed(b) /\ Pages!Rows(b) = <<body[k]>>
      BY <1>2, <1>3, <2>1, <2>3
    <2>7. Sealed(u) /\ Pages!Rows(u) = x(k - 1)
      BY <2>4
    <2> HIDE DEF u, b
    <2>8. Sealed(u \o b) /\ Pages!Rows(u \o b) = Pages!Rows(u) \o Pages!Rows(b)
      <3>1. Sealed(u \o b)
        BY <2>5, <2>6, <2>7, EndOfJoined
      <3>2. Pages!Rows(u \o b) = Pages!Rows(u) \o Pages!Rows(b)
        BY <2>5, <2>6, <2>7, RowsJoined
      <3>3. QED
        BY <3>1, <3>2
    <2>9. QED
      BY <1>7, <2>1, <2>5, <2>6, <2>7, <2>8
  <1> HIDE DEF S
  <1>11. \A k \in 0..n : k \in S
    BY <1>1, <1>9, <1>10, Climb
  <1>12. x(n) = body
    BY <1>1, SubSeqFull DEF x
  <1>13. terminate => Sealed(F[n]) /\ Pages!Rows(F[n]) = body
    <2>1. n \in 0..n /\ (terminate => n <= full)
      BY <1>1
    <2>2. QED
      BY <1>11, <1>12, <2>1 DEF S
  <1>14. ASSUME ~terminate, body # <<>>, body[n] # <<>>
         PROVE  Open(F[n]) /\ Pages!Rows(F[n]) = body
    <2>1. n \in 1..n /\ n - 1 \in 0..n /\ n - 1 <= full
      BY <1>1, <1>14
    <2>2. Sealed(F[n - 1]) /\ Pages!Rows(F[n - 1]) = x(n - 1)
      BY <1>11, <2>1 DEF S
    <2> DEFINE u == F[n - 1]
               b == body[n]
    <2>3. F[n] = u \o b /\ u \in Seq(T)
      BY <1>3, <1>8, <1>14, <2>1
    <2>4. b \in Seq(T) /\ Open(b) /\ Pages!Rows(b) = <<b>> /\ b # <<>>
      BY <1>2, <1>14, <2>1
    <2>5. Sealed(u) /\ Pages!Rows(u) = x(n - 1) /\ x(n) = x(n - 1) \o <<b>>
      BY <1>7, <2>1, <2>2
    <2> HIDE DEF u, b
    <2>6. Open(u \o b) /\ Pages!Rows(u \o b) = Pages!Rows(u) \o Pages!Rows(b)
      <3>1. Open(u \o b)
        BY <2>3, <2>4, EndOfJoined
      <3>2. Pages!Rows(u \o b) = Pages!Rows(u) \o Pages!Rows(b)
        BY <2>3, <2>4, <2>5, RowsJoined
      <3>3. QED
        BY <3>1, <3>2
    <2>7. QED
      BY <1>12, <2>3, <2>4, <2>5, <2>6
  <1>15. QED
    BY <1>6, <1>13, <1>14 DEF f

\* What is built of a body adds its rows to a text.
Adds(T, U, X, body, leading, terminate) ==
    /\ X \in Seq(T) /\ U \o X \in Seq(T)
    /\ Sealed(U) /\ ~leading /\ terminate =>
         Sealed(U \o X) /\ Pages!Rows(U \o X) = Pages!Rows(U) \o body
    /\ Sealed(U) /\ ~leading /\ ~terminate /\ Pages!Last(body) # <<>> =>
         Open(U \o X) /\ Pages!Rows(U \o X) = Pages!Rows(U) \o body
    /\ Open(U) /\ leading /\ ~terminate /\ Pages!Last(body) # <<>> =>
         Open(U \o X) /\ Pages!Rows(U \o X) = Pages!Rows(U) \o body

LEMMA BodyAdded ==
    ASSUME NEW T, NEW c \in T, c \in Pages!Newlines, NEW body, BodyFor(body, T), body # <<>>,
           NEW leading \in BOOLEAN, NEW terminate \in BOOLEAN, NEW U \in Seq(T),
           NEW X, X = Pages!BuildBody(body, c, leading, terminate)
    PROVE  Adds(T, U, X, body, leading, terminate)
  <1> DEFINE Y == Pages!FlattenSeq(Terminated(body, c, terminate))
             C == <<c>>
             last == body[Len(body)]
  <1>1. X = (IF leading THEN C ELSE <<>>) \o Y
    BY DEF Pages!BuildBody, Terminated
  <1>2. Y \in Seq(T)
    BY BuiltRows
  <1>3. terminate => Sealed(Y) /\ Pages!Rows(Y) = body
    BY BuiltRows, ZenonT(40)
  <1>4. ~terminate /\ last # <<>> => Open(Y) /\ Pages!Rows(Y) = body
    BY BuiltRows
  <1>5. Pages!Last(body) = last
    BY DEF Pages!Last
  <1>6. C \in Seq(T) /\ <<>> \in Seq(T)
    BY EmptySeq
  <1>7. C \o Y \in Seq(T) /\ <<>> \o Y = Y
    BY <1>2, <1>6, ConcatProperties, ConcatEmptySeq
  <1>8. Open(U) => U \o C \in Seq(T) /\ Sealed(U \o C) /\ Pages!Rows(U \o C) = Pages!Rows(U)
    BY RowsClosing
  <1> HIDE DEF Y, C, last
  <1>9. ~leading => X = Y
    BY <1>1, <1>7, Zenon
  <1>10. leading => X = C \o Y
    BY <1>1, Zenon
  <1>11. X \in Seq(T)
    BY <1>2, <1>7, <1>9, <1>10, Zenon
  <1>12. U \o X \in Seq(T)
    BY <1>11, ConcatProperties
  <1>13. Sealed(U) /\ ~leading => Pages!Rows(U \o X) = Pages!Rows(U) \o Pages!Rows(Y)
    <2>1. Sealed(U) => Pages!Rows(U \o Y) = Pages!Rows(U) \o Pages!Rows(Y)
      BY <1>2, RowsJoined
    <2>2. QED
      BY <1>9, <2>1, Zenon
  <1>14. /\ Sealed(U) /\ Sealed(Y) => Sealed(U \o Y)
         /\ Open(Y) => Open(U \o Y)
    <2>1. Open(Y) => Y # <<>>
      BY DEF Open
    <2>2. QED
      BY <1>2, <2>1, EndOfJoined
  <1>15. leading /\ Open(U) => /\ Pages!Rows(U \o X) = Pages!Rows(U) \o Pages!Rows(Y)
                               /\ Open(Y) => Open(U \o X)
    <2>1. ASSUME leading, Open(U)
          PROVE  /\ Pages!Rows(U \o X) = Pages!Rows(U) \o Pages!Rows(Y)
                 /\ Open(Y) => Open(U \o X)
      <3> DEFINE W == U \o C
      <3>1. W \in Seq(T) /\ Sealed(W) /\ Pages!Rows(W) = Pages!Rows(U)
        BY <1>8, <2>1
      <3>2. W \o Y = U \o (C \o Y)
        BY <1>2, <1>6, Regrouped
      <3> HIDE DEF W
      <3>3. Pages!Rows(W \o Y) = Pages!Rows(W) \o Pages!Rows(Y)
        BY <1>2, <3>1, RowsJoined
      <3>4. Open(Y) => Open(W \o Y)
        <4>1. Open(Y) => Y # <<>>
          BY DEF Open
        <4>2. QED
          BY <1>2, <3>1, <4>1, EndOfJoined
      <3>5. U \o X = W \o Y
        BY <1>10, <2>1, <3>2, Zenon
      <3>6. QED
        BY <3>1, <3>3, <3>4, <3>5
    <2>2. QED
      BY <2>1
  <1>16. Sealed(U) /\ ~leading /\ terminate =>
            Sealed(U \o X) /\ Pages!Rows(U \o X) = Pages!Rows(U) \o body
    BY <1>3, <1>9, <1>13, <1>14, Zenon
  <1>17. Sealed(U) /\ ~leading /\ ~terminate /\ last # <<>> =>
            Open(U \o X) /\ Pages!Rows(U \o X) = Pages!Rows(U) \o body
    BY <1>4, <1>9, <1>13, <1>14, Zenon
  <1>18. Open(U) /\ leading /\ ~terminate /\ last # <<>> =>
            Open(U \o X) /\ Pages!Rows(U \o X) = Pages!Rows(U) \o body
    BY <1>4, <1>15, Zenon
  <1>19. QED
    BY <1>5, <1>11, <1>12, <1>16, <1>17, <1>18, Zenon DEF Adds

-----------------------------------------------------------------------------
(* Pages: an edited text, piece by piece *)

\* U has the rows q, and the lines of s from line i may follow it; the last of
\* them ends as s does.
Reached(T, s, U, i, q) ==
    /\ U \in Seq(T) /\ Pages!Rows(U) = q
    /\ i <= Pages!LineCount(s) \/ Sealed(s) => Sealed(U)
    /\ i = Pages!LineCount(s) + 1 /\ Open(s) => Open(U)

\* The same, when nothing may follow the last line.
Standing(T, s, U, i, q) ==
    /\ U \in Seq(T) /\ Pages!Rows(U) = q
    /\ i <= Pages!LineCount(s) => Sealed(U)

LEMMA ReachedNone ==
    ASSUME NEW T, NEW s \in Seq(T)
    PROVE  Reached(T, s, <<>>, 1, <<>>)
  <1>1. <<>> \in Seq(T) /\ RowText(<<>>) /\ Sealed(<<>>)
    BY EmptySeq DEF RowText, IsSeq, Sealed
  <1>2. Pages!Rows(<<>>) = <<>>
    BY <1>1, RowsOfRow
  <1>3. ~(1 = Pages!LineCount(s) + 1 /\ Open(s))
    BY LinesOf
  <1>4. QED
    BY <1>1, <1>2, <1>3 DEF Reached

\* Lines of s that follow.
LEMMA LinesAdded ==
    ASSUME NEW T, NEW s \in Seq(T), NEW i \in 1..(Pages!LineCount(s) + 1),
           NEW j \in i..(Pages!LineCount(s) + 1), NEW U, NEW q, Standing(T, s, U, i, q)
    PROVE  /\ U \o LinesFrom(s, i, j) \in Seq(T)
           /\ Pages!Rows(U \o LinesFrom(s, i, j)) = q \o SubSeq(Pages!Rows(s), i, j - 1)
           /\ Reached(T, s, U, i, q) =>
                Reached(T, s, U \o LinesFrom(s, i, j), j, q \o SubSeq(Pages!Rows(s), i, j - 1))
  <1> DEFINE n == Pages!LineCount(s)
             b == LinesFrom(s, i, j)
             x == SubSeq(Pages!Rows(s), i, j - 1)
  <1>1. n \in Nat /\ U \in Seq(T) /\ Pages!Rows(U) = q /\ (i <= n => Sealed(U))
    BY LinesOf DEF Standing
  <1>2. /\ b \in Seq(T) /\ Pages!Rows(b) = x
        /\ j <= n \/ Sealed(s) => Sealed(b)
        /\ i < j /\ j = n + 1 /\ Open(s) => Open(b)
        /\ i = j => b = <<>>
    BY RowsOfLines
  <1>3. q \in Seq(Seq(T))
    BY <1>1, RowsOfText
  <1> HIDE DEF n, b, x
  <1>4. i = j => U \o b = U /\ q \o x = q
    <2>1. ASSUME i = j
          PROVE  U \o b = U /\ q \o x = q
      <3>1. b = <<>>
        BY <1>2, <2>1
      <3>2. x = <<>>
        <4>1. <<>> \in Seq(T) /\ RowText(<<>>)
          BY EmptySeq DEF RowText, IsSeq
        <4>2. Pages!Rows(<<>>) = <<>>
          BY <4>1, RowsOfRow
        <4>3. QED
          BY <1>2, <3>1, <4>2
      <3>3. QED
        BY <1>1, <1>3, <3>1, <3>2, ConcatEmptySeq
    <2>2. QED
      BY <2>1
  <1>5. i # j => i <= n /\ Sealed(U)
    BY <1>1 DEF n
  <1>6. U \o b \in Seq(T)
    BY <1>1, <1>2, ConcatProperties
  <1>7. i # j => Pages!Rows(U \o b) = q \o x
    <2>1. Sealed(U) => Pages!Rows(U \o b) = Pages!Rows(U) \o Pages!Rows(b)
      BY <1>1, <1>2, RowsJoined
    <2>2. QED
      BY <1>1, <1>2, <1>5, <2>1
  <1>8. Pages!Rows(U \o b) = q \o x
    BY <1>1, <1>4, <1>7
  <1>9. ASSUME Reached(T, s, U, i, q)
        PROVE  Reached(T, s, U \o b, j, q \o x)
    <2>1. CASE i = j
      BY <1>4, <1>9, <2>1
    <2>2. CASE i # j
      <3>1. i < j
        BY <1>1, <2>2 DEF n
      <3>2. j <= n \/ Sealed(s) => Sealed(U \o b)
        <4>1. Sealed(U) /\ Sealed(b) => Sealed(U \o b)
          BY <1>1, <1>2, EndOfJoined
        <4>2. QED
          BY <1>2, <1>5, <2>2, <4>1
      <3>3. j = n + 1 /\ Open(s) => Open(U \o b)
        <4>1. Open(b) => b # <<>>
          BY DEF Open
        <4>2. Open(b) => Open(U \o b)
          BY <1>1, <1>2, <4>1, EndOfJoined
        <4>3. QED
          BY <1>2, <3>1, <4>2
      <3>4. QED
        BY <1>6, <1>8, <3>2, <3>3 DEF Reached, n
    <2>3. QED
      BY <2>1, <2>2
  <1>10. QED
    BY <1>6, <1>8, <1>9 DEF b, x

-----------------------------------------------------------------------------
(* Pages: the edit of a hunk *)

\* A hunk for a text of n lines with tokens of T.
HunkIn(h, n, T) ==
    /\ HunkFor(h, n, Seq(T)) /\ BodyFor(h.body, T)
    /\ h.kind = "cut" => h.body = <<>>
    /\ h.kind # "cut" => h.body # <<>>

\* No blank row at the very end of a text that ends in the middle of a line.
Fine(s, h) ==
    (/\ ~Pages!EndsWithNewline(s)
     /\ \/ h.kind = "tail"
        \/ h.kind = "after" /\ h.start = Pages!LineCount(s)
        \/ h.kind \in Pages!Ranged /\ h.end = Pages!LineCount(s))
    => h.body = <<>> \/ Pages!Last(h.body) # <<>>

\* Whether a terminator comes before the rows of a hunk, and after the last one.
Framed(s, h, leading, terminate) ==
    /\ h.kind = "replace" =>
         ~leading /\ (terminate <=> h.end < Pages!LineCount(s) \/ Pages!EndsWithNewline(s))
    /\ h.kind = "before" => ~leading /\ terminate
    /\ h.kind = "after" =>
         /\ leading <=> h.start = Pages!LineCount(s) /\ ~Pages!EndsWithNewline(s)
         /\ terminate <=> ~leading
    /\ h.kind = "tail" => (leading <=> Open(s)) /\ (terminate <=> Pages!EndsWithNewline(s))

\* What the edit of a hunk puts in, and where.
LEMMA EditBrings ==
    ASSUME NEW T, NEW s \in Seq(T), StylesOf(s) \subseteq T,
           NEW h, HunkIn(h, Pages!LineCount(s), T)
    PROVE  LET e == Pages!ByteEdit(s, h)
               n == Pages!LineCount(s)
           IN /\ e.start_line = Begins(h, n) /\ e.end_line = Ends(h, n)
              /\ e.from = Pages!LineOffset(s, Begins(h, n)) /\ e.to = Pages!LineOffset(s, Ends(h, n))
              /\ e.replacement \in Seq(T)
              /\ h.kind = "cut" => e.replacement = <<>>
              /\ h.kind # "cut" => \E c \in T, leading, terminate \in BOOLEAN :
                   /\ c \in Pages!Newlines /\ Framed(s, h, leading, terminate)
                   /\ e.replacement = Pages!BuildBody(h.body, c, leading, terminate)
  <1> DEFINE e == Pages!ByteEdit(s, h)
             n == Pages!LineCount(s)
             ends == Pages!EndsWithNewline(s)
             Built(x) == \E c \in T, leading, terminate \in BOOLEAN :
                            /\ c \in Pages!Newlines /\ Framed(s, h, leading, terminate)
                            /\ x = Pages!BuildBody(h.body, c, leading, terminate)
  <1>1. n \in Nat
    BY LinesOf
  <1>2. /\ h.kind \in {"replace", "cut", "before", "after", "tail"}
        /\ h.kind # "tail" => h.start \in 1..n
        /\ h.kind \in Pages!Ranged <=> h.kind \in {"replace", "cut"}
    BY DEF HunkIn, HunkFor, Pages!Ranged
  <1>3. /\ Begins(h, n) = IF h.kind \in Pages!Ranged THEN h.start
                          ELSE IF h.kind = "before" THEN h.start
                          ELSE IF h.kind = "after" THEN h.start + 1 ELSE n + 1
        /\ Ends(h, n) = IF h.kind \in Pages!Ranged THEN h.end + 1 ELSE Begins(h, n)
    BY <1>2 DEF Begins, Ends, Pages!Ranged
  <1>4. /\ e.start_line = Begins(h, n) /\ e.end_line = Ends(h, n)
        /\ e.from = Pages!LineOffset(s, Begins(h, n)) /\ e.to = Pages!LineOffset(s, Ends(h, n))
    <2>1. /\ e.start_line = IF h.kind \in Pages!Ranged THEN h.start
                            ELSE IF h.kind = "before" THEN h.start
                            ELSE IF h.kind = "after" THEN h.start + 1 ELSE n + 1
          /\ e.end_line = IF h.kind \in Pages!Ranged THEN h.end + 1
                          ELSE IF h.kind = "before" THEN h.start
                          ELSE IF h.kind = "after" THEN h.start + 1 ELSE n + 1
          /\ e.from = Pages!LineOffset(s, e.start_line) /\ e.to = Pages!LineOffset(s, e.end_line)
      BY DEF Pages!ByteEdit
    <2> HIDE DEF e, n
    <2>2. e.start_line = Begins(h, n) /\ e.end_line = Ends(h, n)
      BY <1>3, <2>1
    <2>3. QED
      BY <2>1, <2>2
  <1>5. /\ h.kind = "replace" => e.replacement =
             Pages!BuildBody(h.body, Pages!LineStyle(s, h.start), FALSE, h.end < n \/ ends)
        /\ h.kind = "cut" => e.replacement = <<>>
        /\ h.kind = "before" => e.replacement =
             Pages!BuildBody(h.body, Pages!AdjacentStyle(s, h.start), FALSE, TRUE)
        /\ h.kind = "after" => e.replacement =
             Pages!BuildBody(h.body, Pages!LineStyle(s, h.start), h.start = n /\ ~ends, ~(h.start = n /\ ~ends))
        /\ h.kind = "tail" => e.replacement =
             Pages!BuildBody(h.body, Pages!LastStyle(s), s # <<>> /\ ~ends, ends)
    BY DEF Pages!ByteEdit
  <1>6. /\ Pages!LastStyle(s) \in T \cap Pages!Newlines
        /\ h.kind # "tail" => /\ Pages!LineStyle(s, h.start) \in T \cap Pages!Newlines
                              /\ Pages!AdjacentStyle(s, h.start) \in T \cap Pages!Newlines
    <2>1. h.kind # "tail" => h.start \in Nat \ {0}
      BY <1>1, <1>2
    <2>2. QED
      BY <2>1, StylesAre
  <1>7. ends \in BOOLEAN
    BY DEF Pages!EndsWithNewline
  <1>8. Open(s) <=> s # <<>> /\ ~ends
    BY DEF Open
  <1> HIDE DEF e, n, ends
  <1>9. ASSUME NEW c \in T \cap Pages!Newlines, NEW leading \in BOOLEAN, NEW terminate \in BOOLEAN,
               Framed(s, h, leading, terminate),
               e.replacement = Pages!BuildBody(h.body, c, leading, terminate)
        PROVE  Built(e.replacement)
    <2>1. c \in T /\ c \in Pages!Newlines
      OBVIOUS
    <2>2. QED
      BY <1>9, <2>1, Zenon
  <1> HIDE DEF Built
  <1>10. h.kind # "cut" => Built(e.replacement)
    <2>1. CASE h.kind = "replace"
      <3> DEFINE leading == FALSE
                 terminate == h.end < n \/ ends
                 c == Pages!LineStyle(s, h.start)
      <3>1. leading \in BOOLEAN /\ terminate \in BOOLEAN /\ Framed(s, h, leading, terminate)
        BY <2>1 DEF Framed, n, ends
      <3>2. c \in T \cap Pages!Newlines
        BY <1>6, <2>1
      <3>3. e.replacement = Pages!BuildBody(h.body, c, leading, terminate)
        BY <1>5, <2>1
      <3> HIDE DEF leading, terminate, c
      <3>4. QED
        BY <1>9, <3>1, <3>2, <3>3
    <2>2. CASE h.kind = "before"
      <3> DEFINE leading == FALSE
                 terminate == TRUE
                 c == Pages!AdjacentStyle(s, h.start)
      <3>1. leading \in BOOLEAN /\ terminate \in BOOLEAN /\ Framed(s, h, leading, terminate)
        BY <2>2 DEF Framed
      <3>2. c \in T \cap Pages!Newlines
        BY <1>6, <2>2
      <3>3. e.replacement = Pages!BuildBody(h.body, c, leading, terminate)
        BY <1>5, <2>2
      <3> HIDE DEF leading, terminate, c
      <3>4. QED
        BY <1>9, <3>1, <3>2, <3>3
    <2>3. CASE h.kind = "after"
      <3> DEFINE leading == h.start = n /\ ~ends
                 terminate == ~leading
                 c == Pages!LineStyle(s, h.start)
      <3>1. leading \in BOOLEAN /\ terminate \in BOOLEAN /\ Framed(s, h, leading, terminate)
        BY <2>3 DEF Framed, n, ends
      <3>2. c \in T \cap Pages!Newlines
        BY <1>6, <2>3
      <3>3. e.replacement = Pages!BuildBody(h.body, c, leading, terminate)
        BY <1>5, <2>3
      <3> HIDE DEF leading, terminate, c
      <3>4. QED
        BY <1>9, <3>1, <3>2, <3>3
    <2>4. CASE h.kind = "tail"
      <3> DEFINE leading == s # <<>> /\ ~ends
                 terminate == ends
                 c == Pages!LastStyle(s)
      <3>1. leading \in BOOLEAN /\ terminate \in BOOLEAN /\ Framed(s, h, leading, terminate)
        BY <1>7, <1>8, <2>4 DEF Framed, ends
      <3>2. c \in T \cap Pages!Newlines
        BY <1>6
      <3>3. e.replacement = Pages!BuildBody(h.body, c, leading, terminate)
        BY <1>5, <2>4
      <3> HIDE DEF leading, terminate, c
      <3>4. QED
        BY <1>9, <3>1, <3>2, <3>3
    <2>5. QED
      BY <1>2, <2>1, <2>2, <2>3, <2>4
  <1>11. e.replacement \in Seq(T)
    <2>1. CASE h.kind = "cut"
      BY <1>5, <2>1, EmptySeq
    <2>2. CASE h.kind # "cut"
      <3>1. PICK c \in T, leading \in BOOLEAN, terminate \in BOOLEAN :
               /\ c \in Pages!Newlines
               /\ e.replacement = Pages!BuildBody(h.body, c, leading, terminate)
        BY <1>10, <2>2, Zenon DEF Built
      <3>2. BodyFor(h.body, T) /\ h.body # <<>> /\ <<>> \in Seq(T)
        BY <2>2, EmptySeq DEF HunkIn
      <3>3. Adds(T, <<>>, e.replacement, h.body, leading, terminate)
        BY <3>1, <3>2, BodyAdded
      <3>4. QED
        BY <3>3 DEF Adds
    <2>3. QED
      BY <2>1, <2>2
  <1>12. QED
    BY <1>4, <1>5, <1>10, <1>11, Zenon DEF Built, e, n

\* Something may follow a hunk's rows as a line of its own.
LeavesRoom(s, h) ==
    \/ Ends(h, Pages!LineCount(s)) <= Pages!LineCount(s)
    \/ h.kind \in Pages!Ranged /\ (Sealed(s) \/ h.kind = "replace")

\* An edit adds the rows of its hunk.
LEMMA EditAdds ==
    ASSUME NEW T, NEW s \in Seq(T), StylesOf(s) \subseteq T,
           NEW h, HunkIn(h, Pages!LineCount(s), T), Fine(s, h),
           NEW U, NEW q, Reached(T, s, U, Begins(h, Pages!LineCount(s)), q),
           NEW R, R = Pages!ByteEdit(s, h).replacement
    PROVE  /\ Standing(T, s, U \o R, Ends(h, Pages!LineCount(s)), q \o h.body)
           /\ LeavesRoom(s, h) => Reached(T, s, U \o R, Ends(h, Pages!LineCount(s)), q \o h.body)
  <1> DEFINE n == Pages!LineCount(s)
             a == Begins(h, n)
             z == Ends(h, n)
             ends == Pages!EndsWithNewline(s)
             b == h.body
             W == U \o R
             w == q \o b
             full == Pages!Last(b) # <<>>
  <1>1. n \in Nat
    BY LinesOf
  <1>2. s # <<>> \/ n = 0
    <2>1. ASSUME s = <<>>
          PROVE  n = 0
      <3>1. <<>> \in Seq(T) /\ RowText(<<>>) /\ Len(<<>>) = 0
        BY EmptySeq DEF RowText, IsSeq
      <3>2. Pages!Rows(<<>>) = <<>>
        BY <3>1, RowsOfRow
      <3>3. Len(Pages!Rows(<<>>)) = Pages!LineCount(<<>>)
        BY <3>1, RowsOfText
      <3>4. QED
        BY <2>1, <3>1, <3>2, <3>3
    <2>2. QED
      BY <2>1
  <1>3. (Open(s) <=> s # <<>> /\ ~ends) /\ (Sealed(s) <=> s = <<>> \/ ends)
        /\ (ends => s # <<>>)
    BY DEF Open, Sealed, Pages!EndsWithNewline
  <1>4. /\ U \in Seq(T) /\ Pages!Rows(U) = q /\ q \in Seq(Seq(T))
        /\ a <= n \/ Sealed(s) => Sealed(U)
        /\ a = n + 1 /\ Open(s) => Open(U)
    BY RowsOfText DEF Reached
  <1>5. /\ h.kind \in {"replace", "cut", "before", "after", "tail"}
        /\ h.kind # "tail" => h.start \in 1..n /\ h.end \in h.start..n
        /\ h.kind \in Pages!Ranged <=> h.kind \in {"replace", "cut"}
    BY DEF HunkIn, HunkFor, Pages!Ranged
  <1>6. /\ h.kind \in {"replace", "cut"} => a = h.start /\ z = h.end + 1
        /\ h.kind = "before" => a = h.start /\ z = h.start
        /\ h.kind = "after" => a = h.start + 1 /\ z = h.start + 1
        /\ h.kind = "tail" => a = n + 1 /\ z = n + 1
    BY DEF Begins, Ends, Pages!Ranged
  <1>7. /\ h.kind = "cut" => b = <<>>
        /\ h.kind # "cut" => b # <<>> /\ BodyFor(b, T)
    BY DEF HunkIn
  <1>8. /\ h.kind = "cut" => R = <<>>
        /\ h.kind # "cut" => \E c \in T, leading, terminate \in BOOLEAN :
             /\ c \in Pages!Newlines /\ Framed(s, h, leading, terminate)
             /\ R = Pages!BuildBody(b, c, leading, terminate)
    BY EditBrings
  <1>9. LeavesRoom(s, h) <=> z <= n \/ (h.kind \in {"replace", "cut"} /\ (Sealed(s) \/ h.kind = "replace"))
    BY <1>5 DEF LeavesRoom
  <1>10. /\ ~ends /\ h.kind = "tail" => b = <<>> \/ full
         /\ ~ends /\ h.kind = "after" /\ h.start = n => b = <<>> \/ full
         /\ ~ends /\ h.kind = "replace" /\ h.end = n => b = <<>> \/ full
    BY DEF Fine, Pages!Ranged
  <1>11. SUFFICES /\ W \in Seq(T) /\ Pages!Rows(W) = w
                  /\ z <= n => Sealed(W)
                  /\ LeavesRoom(s, h) => /\ z <= n \/ Sealed(s) => Sealed(W)
                                         /\ z = n + 1 /\ Open(s) => Open(W)
    BY Zenon DEF Standing, Reached
  <1>12. CASE h.kind = "cut"
    <2>1. W = U /\ w = q
      BY <1>4, <1>7, <1>8, <1>12, ConcatEmptySeq
    <2>2. a <= n
      BY <1>1, <1>5, <1>6, <1>12
    <2>3. LeavesRoom(s, h) => z # n + 1 \/ Sealed(s)
      BY <1>1, <1>9, <1>12
    <2> HIDE DEF W, w, a, z, n
    <2>4. QED
      BY <1>3, <1>4, <2>1, <2>2, <2>3
  <1>13. CASE h.kind # "cut"
    <2>1. PICK c \in T, leading \in BOOLEAN, terminate \in BOOLEAN :
             /\ c \in Pages!Newlines /\ Framed(s, h, leading, terminate)
             /\ R = Pages!BuildBody(b, c, leading, terminate)
      BY <1>8, <1>13, Zenon
    <2>2. Adds(T, U, R, b, leading, terminate)
      BY <1>4, <1>7, <1>13, <2>1, BodyAdded
    <2>3. /\ W \in Seq(T)
          /\ Sealed(U) /\ ~leading /\ terminate => Sealed(W) /\ Pages!Rows(W) = w
          /\ Sealed(U) /\ ~leading /\ ~terminate /\ full => Open(W) /\ Pages!Rows(W) = w
          /\ Open(U) /\ leading /\ ~terminate /\ full => Open(W) /\ Pages!Rows(W) = w
      BY <1>4, <2>2, Zenon DEF Adds
    <2>4. /\ h.kind = "replace" => ~leading /\ (terminate <=> h.end < n \/ ends)
          /\ h.kind = "before" => ~leading /\ terminate
          /\ h.kind = "after" => (leading <=> h.start = n /\ ~ends) /\ (terminate <=> ~leading)
          /\ h.kind = "tail" => (leading <=> Open(s)) /\ (terminate <=> ends)
      BY <2>1, Zenon DEF Framed
    <2>5. b # <<>>
      BY <1>7, <1>13
    <2> DEFINE rows == Pages!Rows(W) = w
               last == h.end < n
               atEnd == h.start = n
               room == LeavesRoom(s, h)
    <2>6. CASE h.kind = "replace"
      <3>1. a <= n /\ (z <= n <=> last) /\ (z = n + 1 <=> ~last) /\ s # <<>> /\ (~last => h.end = n)
        BY <1>1, <1>2, <1>5, <1>6, <2>6
      <3> HIDE DEF a, z, n, b, W, w, ends, full, rows, last, atEnd, room
      <3>2. Sealed(U) /\ ~leading /\ (terminate <=> last \/ ends)
        BY <1>4, <2>4, <2>6, <3>1 DEF last
      <3>3. ~last /\ ~ends => full
        BY <1>10, <2>5, <2>6, <3>1
      <3>4. rows /\ (last \/ ends => Sealed(W)) /\ (~last /\ ~ends => Open(W))
        BY <2>3, <3>2, <3>3, Zenon DEF rows
      <3>5. (z <= n \/ Sealed(s) => Sealed(W)) /\ (z = n + 1 /\ Open(s) => Open(W))
        BY <1>3, <3>1, <3>4, Zenon
      <3>6. QED
        BY <2>3, <3>4, <3>5, Zenon DEF rows
    <2>7. CASE h.kind = "before"
      <3>1. a <= n /\ ~(z = n + 1)
        BY <1>1, <1>5, <1>6, <2>7
      <3> HIDE DEF a, z, n, b, W, w, ends, full, rows, last, atEnd, room
      <3>2. Sealed(U) /\ ~leading /\ terminate
        BY <1>4, <2>4, <2>7, <3>1
      <3>3. QED
        BY <2>3, <3>1, <3>2, Zenon
    <2>8. CASE h.kind = "after"
      <3>1. (a <= n <=> ~atEnd) /\ (a = n + 1 <=> atEnd) /\ z = a /\ s # <<>>
        BY <1>1, <1>2, <1>5, <1>6, <2>8
      <3> HIDE DEF a, z, n, b, W, w, ends, full, rows, last, room
      <3>2. (leading <=> atEnd /\ ~ends) /\ (terminate <=> ~leading)
        BY <2>4, <2>8, Zenon
      <3>3. atEnd /\ ~ends => full /\ Open(s) /\ Open(U)
        BY <1>3, <1>4, <1>10, <2>5, <2>8, <3>1
      <3> HIDE DEF atEnd
      <3>4. ~(atEnd /\ ~ends) => Sealed(U)
        BY <1>3, <1>4, <3>1, Zenon
      <3>5. rows /\ (atEnd /\ ~ends => Open(W)) /\ (~(atEnd /\ ~ends) => Sealed(W))
        BY <2>3, <3>2, <3>3, <3>4, Zenon DEF rows
      <3>6. (z <= n \/ Sealed(s) => Sealed(W)) /\ (z = n + 1 /\ Open(s) => Open(W))
        BY <1>3, <3>1, <3>5, Zenon
      <3>7. QED
        BY <2>3, <3>5, <3>6, Zenon DEF rows
    <2>9. CASE h.kind = "tail"
      <3>1. a = n + 1 /\ ~(z <= n)
        BY <1>1, <1>6, <2>9
      <3> HIDE DEF a, z, n, b, W, w, ends, full, rows, last, atEnd, room
      <3>2. (leading <=> Open(s)) /\ (terminate <=> ends)
        BY <2>4, <2>9, Zenon
      <3>3. ~ends => full
        BY <1>10, <2>5, <2>9
      <3>4. (Open(s) => Open(U)) /\ (Sealed(s) => Sealed(U)) /\ (Sealed(s) <=> ~Open(s))
        BY <1>3, <1>4, <3>1, Zenon
      <3>5. rows /\ (Open(s) => Open(W)) /\ (ends => Sealed(W))
        BY <1>3, <2>3, <3>2, <3>3, <3>4, Zenon DEF rows
      <3>6. ~room
        <4>1. ~(h.kind \in {"replace", "cut"})
          BY <2>9
        <4>2. QED
          BY <1>9, <3>1, <4>1, Zenon DEF room
      <3>7. QED
        BY <2>3, <3>1, <3>5, <3>6, Zenon DEF rows, room
    <2>10. QED
      BY <1>5, <1>13, <2>6, <2>7, <2>8, <2>9
  <1>14. QED
    BY <1>12, <1>13

\* The pieces of an edited text: up to the end of the first edit, between two of
\* them, and after the last one.
Upto(s, h) == LinesFrom(s, 1, Begins(h, Pages!LineCount(s))) \o Pages!ByteEdit(s, h).replacement
Amid(s, g, h) == LinesFrom(s, Ends(g, Pages!LineCount(s)), Begins(h, Pages!LineCount(s)))
Rest(s, h) == LinesFrom(s, Ends(h, Pages!LineCount(s)), Pages!LineCount(s) + 1)

\* The edits of one hunk, or of two of them in the order they are applied, and
\* what they make of the text.
EditsOf(s, edits, g, h, m) ==
    /\ DOMAIN edits = 1..m /\ Len(edits) = m
    /\ edits[1] = Pages!ByteEdit(s, g) /\ (m = 2 => edits[2] = Pages!ByteEdit(s, h))
Yields(s, edits, g, h, m) ==
    Pages!Apply(s, edits) =
      IF m = 1 THEN Upto(s, g) \o Rest(s, g)
      ELSE ((Upto(s, g) \o Amid(s, g, h)) \o Pages!ByteEdit(s, h).replacement) \o Rest(s, h)

LEMMA Applied ==
    ASSUME NEW T, NEW s \in Seq(T), StylesOf(s) \subseteq T, NEW m \in {1, 2},
           NEW g, HunkIn(g, Pages!LineCount(s), T), NEW h, HunkIn(h, Pages!LineCount(s), T),
           m = 1 => g = h,
           m = 2 => Ends(g, Pages!LineCount(s)) <= Begins(h, Pages!LineCount(s)),
           NEW edits, EditsOf(s, edits, g, h, m)
    PROVE  Yields(s, edits, g, h, m)
  <1> DEFINE n == Pages!LineCount(s)
             off(i) == Pages!LineOffset(s, i)
             a(k) == Begins(k, n)
             z(k) == Ends(k, n)
             E(k) == Pages!ByteEdit(s, k).replacement
             done(k) == IF k = 0 THEN 0 ELSE edits[k].to
             f == [k \in DOMAIN edits |->
                     SubSeq(s, done(k - 1) + 1, edits[k].from) \o edits[k].replacement]
  <1>1. n \in Nat /\ off(1) = 0 /\ off(n + 1) = Len(s)
    BY LinesOf, Offsets
  <1>2. Pages!Apply(s, edits) = Pages!FlattenSeq(f) \o SubSeq(s, done(Len(edits)) + 1, Len(s))
    BY DEF Pages!Apply
  <1>3. /\ DOMAIN edits = 1..m /\ Len(edits) = m
        /\ edits[1] = Pages!ByteEdit(s, g) /\ (m = 2 => edits[2] = Pages!ByteEdit(s, h))
    BY DEF EditsOf
  <1>4. /\ Pages!ByteEdit(s, g).from = off(a(g)) /\ Pages!ByteEdit(s, g).to = off(z(g))
        /\ Pages!ByteEdit(s, h).from = off(a(h)) /\ Pages!ByteEdit(s, h).to = off(z(h))
        /\ E(g) \in Seq(T) /\ E(h) \in Seq(T)
    BY EditBrings
  <1>5. /\ a(g) \in 1..(n + 1) /\ z(g) \in 1..(n + 1) /\ a(h) \in 1..(n + 1) /\ z(h) \in 1..(n + 1)
    <2>1. HunkFor(g, n, Seq(T)) /\ HunkFor(h, n, Seq(T))
      BY DEF HunkIn
    <2>2. QED
      BY <1>1, <2>1, HunkPlaces
  <1>6. Upto(s, g) = SubSeq(s, 0 + 1, off(a(g))) \o E(g) /\ Upto(s, g) \in Seq(T)
    <2> DEFINE b == LinesFrom(s, 1, a(g))
    <2>1. b = SubSeq(s, 0 + 1, off(a(g)))
      BY <1>1 DEF LinesFrom
    <2>2. b \in Seq(T)
      <3>1. 1 \in 1..(n + 1) /\ a(g) \in 1..(n + 1)
        BY <1>1, <1>5
      <3>2. QED
        BY <3>1, RowsOfLines
    <2>3. Upto(s, g) = b \o E(g)
      BY DEF Upto
    <2> HIDE DEF b, E
    <2>4. QED
      BY <1>4, <2>1, <2>2, <2>3, ConcatProperties
  <1>7. Amid(s, g, h) = SubSeq(s, off(z(g)) + 1, off(a(h)))
    BY DEF Amid, LinesFrom
  <1>8. /\ Rest(s, g) = SubSeq(s, off(z(g)) + 1, Len(s))
        /\ Rest(s, h) = SubSeq(s, off(z(h)) + 1, Len(s))
    BY <1>1 DEF Rest, LinesFrom
  <1>9. m = 2 => Amid(s, g, h) \in Seq(T)
    <2>1. m = 2 => a(h) \in z(g)..(n + 1)
      BY <1>1, <1>5
    <2>2. QED
      BY <1>5, <2>1, RowsOfLines DEF Amid
  <1>10. f[1] = Upto(s, g)
    <2>1. 1 \in DOMAIN edits /\ 1 - 1 = 0 /\ done(0) = 0
      BY <1>3
    <2>2. f[1] = SubSeq(s, done(1 - 1) + 1, edits[1].from) \o edits[1].replacement
      BY <2>1
    <2>3. QED
      BY <1>3, <1>4, <1>6, <2>1, <2>2
  <1>11. m = 2 => f[2] = Amid(s, g, h) \o E(h)
    <2>1. m = 2 => 2 \in DOMAIN edits /\ 2 - 1 = 1 /\ done(1) = edits[1].to
      BY <1>3
    <2>2. m = 2 => f[2] = SubSeq(s, done(2 - 1) + 1, edits[2].from) \o edits[2].replacement
      BY <2>1
    <2>3. QED
      BY <1>3, <1>4, <1>7, <2>1, <2>2
  <1>12. done(Len(edits)) = IF m = 1 THEN off(z(g)) ELSE off(z(h))
    BY <1>3, <1>4
  <1>13. f \in [1..m -> Seq(T)]
    <2>1. f = [k \in 1..m |-> f[k]]
      BY <1>3
    <2>2. m = 2 => Amid(s, g, h) \o E(h) \in Seq(T)
      BY <1>4, <1>9, ConcatProperties
    <2> HIDE DEF f, E
    <2>3. \A k \in 1..m : f[k] \in Seq(T)
      <3>1. \A k \in 1..m : k = 1 \/ (m = 2 /\ k = 2)
        OBVIOUS
      <3>2. QED
        BY <1>6, <1>10, <1>11, <2>2, <3>1
    <2>4. QED
      BY <2>1, <2>3
  <1> DEFINE u == Upto(s, g)
             v == Amid(s, g, h)
             w == E(h)
             out == Pages!FlattenSeq(f)
  <1>14. /\ m = 1 => out = u
         /\ m = 2 => out = (u \o v) \o w
    <2> HIDE DEF f
    <2>1. (m = 1 => out = f[1]) /\ (m = 2 => out = f[1] \o f[2])
      <3>1. m \in Nat
        OBVIOUS
      <3>2. QED
        BY <1>13, <3>1, FlattenFew
    <2>2. f[1] = u /\ (m = 2 => f[2] = v \o w) /\ u \in Seq(T) /\ (m = 2 => v \in Seq(T)) /\ w \in Seq(T)
      BY <1>4, <1>6, <1>9, <1>10, <1>11
    <2> HIDE DEF u, v, w, out
    <2>3. m = 2 => (u \o v) \o w = u \o (v \o w)
      BY <2>2, Regrouped
    <2>4. QED
      BY <2>1, <2>2, <2>3
  <1> DEFINE last == SubSeq(s, done(Len(edits)) + 1, Len(s))
  <1>15. last = IF m = 1 THEN Rest(s, g) ELSE Rest(s, h)
    BY <1>8, <1>12
  <1>16. Pages!Apply(s, edits) = out \o last
    BY <1>2
  <1> HIDE DEF out, last
  <1>17. Pages!Apply(s, edits) = IF m = 1 THEN u \o Rest(s, g) ELSE ((u \o v) \o w) \o Rest(s, h)
    BY <1>14, <1>15, <1>16
  <1>18. QED
    BY <1>17, Zenon DEF Yields

\* The rows that hunks leave, the one before the other.
AfterOne(r, g) ==
    (SubSeq(r, 1, Begins(g, Len(r)) - 1) \o g.body) \o SubSeq(r, Ends(g, Len(r)), Len(r))
AfterTwo(r, g, h) ==
    (((SubSeq(r, 1, Begins(g, Len(r)) - 1) \o g.body)
       \o SubSeq(r, Ends(g, Len(r)), Begins(h, Len(r)) - 1)) \o h.body)
       \o SubSeq(r, Ends(h, Len(r)), Len(r))

\* Putting an edited text together, piece by piece.
LEMMA PiecesRows ==
    ASSUME NEW T, NEW s \in Seq(T), StylesOf(s) \subseteq T,
           NEW g, HunkIn(g, Pages!LineCount(s), T), NEW h, HunkIn(h, Pages!LineCount(s), T),
           Fine(s, g)
    PROVE  LET r == Pages!Rows(s)
               R == Pages!ByteEdit(s, h).replacement
           IN /\ Pages!Rows(Upto(s, g) \o Rest(s, g)) = AfterOne(r, g)
              /\ /\ Fine(s, h) /\ LeavesRoom(s, g)
                 /\ Ends(g, Pages!LineCount(s)) <= Begins(h, Pages!LineCount(s))
                 => Pages!Rows(((Upto(s, g) \o Amid(s, g, h)) \o R) \o Rest(s, h)) = AfterTwo(r, g, h)
  <1> DEFINE n == Pages!LineCount(s)
             r == Pages!Rows(s)
             a(k) == Begins(k, n)
             z(k) == Ends(k, n)
             E(k) == Pages!ByteEdit(s, k).replacement
             q == SubSeq(r, 1, a(g) - 1)
  <1>1. n \in Nat /\ Len(r) = n
    BY LinesOf, RowsOfText
  <1>2. /\ a(g) \in 1..(n + 1) /\ z(g) \in 1..(n + 1) /\ a(h) \in 1..(n + 1) /\ z(h) \in 1..(n + 1)
    <2>1. HunkFor(g, n, Seq(T)) /\ HunkFor(h, n, Seq(T))
      BY DEF HunkIn
    <2>2. QED
      BY <1>1, <2>1, HunkPlaces
  <1> HIDE DEF n, r, a, z, E, q
  <1>3. Reached(T, s, LinesFrom(s, 1, a(g)), a(g), q)
    <2>1. Reached(T, s, <<>>, 1, <<>>)
      BY ReachedNone
    <2>2. Standing(T, s, <<>>, 1, <<>>)
      BY <2>1 DEF Reached, Standing
    <2>3. 1 \in 1..(n + 1) /\ a(g) \in 1..(n + 1)
      BY <1>1, <1>2
    <2> DEFINE b == LinesFrom(s, 1, a(g))
    <2>4. Reached(T, s, <<>> \o b, a(g), <<>> \o q)
      BY <2>1, <2>2, <2>3, LinesAdded DEF n, q, r
    <2>5. b \in Seq(T) /\ Pages!Rows(b) = q
      BY <2>3, RowsOfLines DEF n, q, r
    <2> HIDE DEF b
    <2>6. q \in Seq(Seq(T))
      BY <2>5, RowsOfText
    <2>7. <<>> \o b = b /\ <<>> \o q = q
      BY <2>5, <2>6, ConcatEmptySeq
    <2>8. QED
      BY <2>4, <2>7 DEF b
  <1>4. /\ Standing(T, s, Upto(s, g), z(g), q \o g.body)
        /\ LeavesRoom(s, g) => Reached(T, s, Upto(s, g), z(g), q \o g.body)
    <2> DEFINE U == LinesFrom(s, 1, a(g))
    <2>1. Reached(T, s, U, Begins(g, Pages!LineCount(s)), q)
      BY <1>3 DEF a, n
    <2>2. U \o E(g) = Upto(s, g)
      BY DEF Upto, E, a, n
    <2>3. E(g) = Pages!ByteEdit(s, g).replacement
      BY DEF E
    <2> HIDE DEF U
    <2>4. /\ Standing(T, s, U \o E(g), Ends(g, Pages!LineCount(s)), q \o g.body)
          /\ LeavesRoom(s, g) => Reached(T, s, U \o E(g), Ends(g, Pages!LineCount(s)), q \o g.body)
      BY <2>1, <2>3, EditAdds
    <2>5. QED
      BY <2>2, <2>4 DEF z, n
  <1>5. Pages!Rows(Upto(s, g) \o Rest(s, g)) = AfterOne(r, g)
    <2> DEFINE U == Upto(s, g)
               p == q \o g.body
    <2>1. z(g) \in 1..(n + 1) /\ n + 1 \in z(g)..(n + 1) /\ (n + 1) - 1 = n
      BY <1>1, <1>2
    <2> HIDE DEF U, p
    <2>2. Standing(T, s, U, z(g), p)
      BY <1>4 DEF U, p
    <2>3. Pages!Rows(U \o LinesFrom(s, z(g), n + 1)) = p \o SubSeq(r, z(g), (n + 1) - 1)
      <3> DEFINE i == z(g)
                 j == n + 1
      <3>1. i \in 1..(Pages!LineCount(s) + 1) /\ j \in i..(Pages!LineCount(s) + 1)
            /\ Standing(T, s, U, i, p)
        BY <2>1, <2>2 DEF n
      <3> HIDE DEF i, j
      <3>2. Pages!Rows(U \o LinesFrom(s, i, j)) = p \o SubSeq(Pages!Rows(s), i, j - 1)
        BY <3>1, LinesAdded, ZenonT(40)
      <3>3. QED
        BY <3>2 DEF i, j, r
    <2>4. Rest(s, g) = LinesFrom(s, z(g), n + 1)
      BY DEF Rest, z, n
    <2>5. AfterOne(r, g) = p \o SubSeq(r, z(g), n)
      BY <1>1 DEF AfterOne, p, q, a, z
    <2>6. QED
      BY <2>1, <2>3, <2>4, <2>5 DEF U
  <1>6. ASSUME Fine(s, h), LeavesRoom(s, g), z(g) <= a(h)
        PROVE  Pages!Rows(((Upto(s, g) \o Amid(s, g, h)) \o E(h)) \o Rest(s, h)) = AfterTwo(r, g, h)
    <2> DEFINE U == Upto(s, g)
               p == q \o g.body
               V == U \o Amid(s, g, h)
               v == p \o SubSeq(r, z(g), a(h) - 1)
               W == V \o E(h)
               w == v \o h.body
    <2>1. /\ z(g) \in 1..(n + 1) /\ a(h) \in z(g)..(n + 1)
          /\ z(h) \in 1..(n + 1) /\ n + 1 \in z(h)..(n + 1) /\ (n + 1) - 1 = n
      BY <1>1, <1>2, <1>6
    <2>2. Reached(T, s, U, z(g), p) /\ Standing(T, s, U, z(g), p)
      BY <1>4, <1>6
    <2> HIDE DEF U, p
    <2>3. Reached(T, s, U \o LinesFrom(s, z(g), a(h)), a(h), p \o SubSeq(r, z(g), a(h) - 1))
      BY <2>1, <2>2, LinesAdded DEF n, r
    <2>4. Reached(T, s, V, a(h), v)
      BY <2>3 DEF Amid, z, a, n
    <2> HIDE DEF V, v
    <2>5. Standing(T, s, W, z(h), w)
      <3>1. E(h) = Pages!ByteEdit(s, h).replacement
        BY DEF E
      <3>2. Reached(T, s, V, Begins(h, Pages!LineCount(s)), v)
        BY <2>4 DEF a, n
      <3>3. Standing(T, s, V \o E(h), Ends(h, Pages!LineCount(s)), v \o h.body)
        BY <1>6, <3>1, <3>2, EditAdds
      <3>4. QED
        BY <3>3 DEF z, n
    <2>6. z(h) \in 1..(n + 1) /\ n + 1 \in z(h)..(n + 1)
      BY <2>1
    <2> HIDE DEF W, w, a, z
    <2>7. Pages!Rows(W \o LinesFrom(s, z(h), n + 1)) = w \o SubSeq(r, z(h), (n + 1) - 1)
      BY <2>5, <2>6, LinesAdded, ZenonT(40) DEF n, r
    <2>8. Rest(s, h) = LinesFrom(s, z(h), n + 1)
      BY DEF Rest, z, n
    <2>9. AfterTwo(r, g, h) = w \o SubSeq(r, z(h), n)
      BY <1>1 DEF AfterTwo, w, v, p, q, a, z
    <2>10. QED
      BY <2>1, <2>7, <2>8, <2>9 DEF W, V, U
  <1>7. QED
    BY <1>5, <1>6 DEF r, E, z, a, n

-----------------------------------------------------------------------------
(* Pages: what a patch does *)

\* A hunk of a patch that no clash at the end of the text is about.
LEMMA FineHunk ==
    ASSUME NEW T, NEW s \in Seq(T), NEW patch, NEW k \in DOMAIN patch,
           HunkIn(patch[k], Pages!LineCount(s), T), ~Pages!EofClash(s, patch)
    PROVE  Fine(s, patch[k])
  <1> DEFINE n == Pages!LineCount(s)
             appends == {i \in DOMAIN patch : \/ patch[i].kind = "tail"
                                              \/ patch[i].kind = "after" /\ patch[i].start = n}
             last == {i \in DOMAIN patch : patch[i].kind \in Pages!Ranged /\ patch[i].end = n}
  <1>1. ASSUME ~Pages!EndsWithNewline(s), NEW i \in appends \cup last
        PROVE  patch[i].body = <<>> \/ Pages!Last(patch[i].body) # <<>>
    BY <1>1 DEF Pages!EofClash
  <1>2. ASSUME \/ patch[k].kind = "tail"
               \/ patch[k].kind = "after" /\ patch[k].start = n
               \/ patch[k].kind \in Pages!Ranged /\ patch[k].end = n
        PROVE  k \in appends \cup last
    BY <1>2
  <1> HIDE DEF appends, last
  <1>3. QED
    BY <1>1, <1>2 DEF Fine

\* Two hunks of a patch that is accepted: the first one leaves room for the
\* other, and they are about different rows and gaps.
LEMMA HunksApart ==
    ASSUME NEW T, NEW s \in Seq(T), NEW patch, NEW x, NEW y, x # y, DOMAIN patch = {x, y},
           HunkIn(patch[x], Pages!LineCount(s), T), HunkIn(patch[y], Pages!LineCount(s), T),
           ~Pages!Conflicting(patch), ~Pages!EofClash(s, patch),
           Ends(patch[x], Pages!LineCount(s)) <= Begins(patch[y], Pages!LineCount(s))
    PROVE  /\ LeavesRoom(s, patch[x])
           /\ Hi(patch[x], Pages!LineCount(s)) <= Lo(patch[y], Pages!LineCount(s))
  <1> DEFINE n == Pages!LineCount(s)
             g == patch[x]
             h == patch[y]
             Appending(k) == k.kind = "tail" \/ (k.kind = "after" /\ k.start = n)
             appends == {i \in DOMAIN patch : Appending(patch[i])}
             last == {i \in DOMAIN patch : patch[i].kind \in Pages!Ranged /\ patch[i].end = n}
  <1>1. /\ ~(Cardinality(appends) > 1)
        /\ ~Pages!EndsWithNewline(s) /\ appends # {} =>
             ~\E k \in last : patch[k].kind = "cut"
    BY Zenon DEF Pages!EofClash, Cardinality, Pages!Cardinality
  <1>2. ~(Appending(g) /\ Appending(h))
    <2>1. ASSUME Appending(g), Appending(h)
          PROVE  FALSE
      <3> DEFINE S == {x}
      <3>1. appends = S \cup {y}
        BY <2>1
      <3>2. IsFiniteSet(S) /\ Cardinality(S) = 1 /\ y \notin S
        BY FS_Singleton
      <3> HIDE DEF S, appends
      <3>3. Cardinality(S \cup {y}) = Cardinality(S) + 1
        BY <3>2, FS_AddElement
      <3>4. QED
        BY <1>1, <3>1, <3>2, <3>3
    <2>2. QED
      BY <2>1
  <1>3. Appending(h) /\ ~Pages!EndsWithNewline(s) => ~(g.kind = "cut" /\ g.end = n)
    <2>1. Appending(h) => appends # {}
      OBVIOUS
    <2>2. g.kind = "cut" /\ g.end = n => x \in last
      BY DEF Pages!Ranged
    <2> HIDE DEF appends, last
    <2>3. QED
      BY <1>1, <2>1, <2>2
  <1>4. ~Pages!Conflict(g, h)
    BY Zenon DEF Pages!Conflicting
  <1>5. /\ HunkFor(g, n, Seq(T)) /\ HunkFor(h, n, Seq(T))
        /\ n \in Nat
    BY LinesOf DEF HunkIn
  <1>6. /\ Begins(g, n) \in 1..(n + 1) /\ Ends(g, n) \in 1..(n + 1)
        /\ Begins(h, n) \in 1..(n + 1) /\ Ends(h, n) \in 1..(n + 1)
        /\ g.kind \in Pages!Ranged => Ends(g, n) = g.end + 1
        /\ g.kind \notin Pages!Ranged => Begins(g, n) = Ends(g, n)
        /\ h.kind \in Pages!Ranged => Begins(h, n) = h.start
    BY <1>5, HunkPlaces
  <1>7. /\ g.kind \in {"replace", "cut", "before", "after", "tail"}
        /\ g.kind # "tail" => g.start \in 1..n /\ g.end \in g.start..n
        /\ h.kind \in {"replace", "cut", "before", "after", "tail"}
        /\ h.kind # "tail" => h.start \in 1..n /\ h.end \in h.start..n
    BY <1>5 DEF HunkFor
  <1>8. /\ g.kind = "before" => Begins(g, n) = g.start /\ Pages!Gap(g) = g.start - 1
        /\ g.kind = "after" => Begins(g, n) = g.start + 1 /\ Pages!Gap(g) = g.start
        /\ g.kind = "tail" => Begins(g, n) = n + 1
    BY DEF Begins, Pages!Gap, Pages!Ranged
  <1>9. /\ h.kind = "before" => Begins(h, n) = h.start /\ Pages!Gap(h) = h.start - 1
        /\ h.kind = "after" => Begins(h, n) = h.start + 1 /\ Pages!Gap(h) = h.start
        /\ h.kind = "tail" => Begins(h, n) = n + 1
    BY DEF Begins, Pages!Gap, Pages!Ranged
  <1>10. /\ ~(g.kind = "tail" /\ h.kind = "tail")
         /\ g.kind \in {"before", "after"} /\ h.kind \in {"before", "after"} =>
              Pages!Gap(g) # Pages!Gap(h)
    <2>1. g.kind = "tail" /\ h.kind = "tail" => {g.kind, h.kind} = {"tail"}
      OBVIOUS
    <2>2. g.kind \in {"before", "after"} /\ h.kind \in {"before", "after"} =>
            {g.kind, h.kind} \subseteq {"before", "after"}
      OBVIOUS
    <2> HIDE DEF g, h
    <2>3. QED
      BY <1>4, <2>1, <2>2 DEF Pages!Conflict
  <1>11. /\ Lo(h, n) = IF h.kind \in Pages!Ranged THEN 2 * Begins(h, n) - 1 ELSE 2 * Begins(h, n) - 2
         /\ Hi(g, n) = IF g.kind \in Pages!Ranged THEN 2 * Ends(g, n) - 2 ELSE 2 * Begins(g, n) - 1
    BY DEF Lo, Hi
  <1>12. g.kind \in Pages!Ranged <=> g.kind \in {"replace", "cut"}
    BY DEF Pages!Ranged
  <1>13. h.kind \in Pages!Ranged <=> h.kind \in {"replace", "cut"}
    BY DEF Pages!Ranged
  <1>14. Ends(g, n) <= Begins(h, n)
    OBVIOUS
  <1> HIDE DEF g, h, n
  <1>15. Hi(g, n) <= Lo(h, n)
    <2>1. CASE g.kind \in Pages!Ranged \/ h.kind \in Pages!Ranged
      BY <1>6, <1>11, <1>14, <2>1
    <2>2. CASE g.kind \notin Pages!Ranged /\ h.kind \notin Pages!Ranged
      <3>1. Begins(g, n) # Begins(h, n)
        BY <1>2, <1>5, <1>7, <1>8, <1>9, <1>10, <1>12, <1>13, <2>2
      <3>2. QED
        BY <1>6, <1>11, <1>14, <2>2, <3>1
    <2>3. QED
      BY <2>1, <2>2
  <1>16. LeavesRoom(s, g)
    <2>1. ASSUME ~(Ends(g, n) <= n)
          PROVE  g.kind \in Pages!Ranged /\ (Sealed(s) \/ g.kind = "replace")
      <3>1. Ends(g, n) = n + 1 /\ Begins(h, n) = n + 1
        BY <1>5, <1>6, <1>14, <2>1
      <3>2. Appending(h)
        BY <1>5, <1>6, <1>7, <1>9, <1>13, <3>1
      <3>3. g.kind \in Pages!Ranged
        BY <1>2, <1>5, <1>6, <1>7, <1>8, <1>12, <3>1, <3>2
      <3>4. g.end = n
        BY <1>5, <1>6, <1>7, <1>12, <3>1, <3>3
      <3>5. Pages!EndsWithNewline(s) => Sealed(s)
        BY DEF Pages!EndsWithNewline, Sealed, Pages!Last
      <3>6. QED
        BY <1>3, <1>12, <3>2, <3>3, <3>4, <3>5
    <2>2. QED
      BY <2>1 DEF LeavesRoom, n
  <1>17. QED
    BY <1>15, <1>16 DEF g, h, n

\* The order in which the edits of a patch are applied.
Ordered(given, edits, m) ==
    /\ DOMAIN edits = 1..m /\ Len(edits) = m
    /\ \E x, y \in 1..m :
         /\ edits[1] = given[x] /\ (m = 2 => edits[2] = given[y])
         /\ m = 1 => x = y
         /\ m = 2 => x # y /\ 1..m = {x, y}

LEMMA OrderIs ==
    ASSUME NEW m \in {1, 2}, NEW given, DOMAIN given = 1..m, NEW edits \in Pages!Orders(given)
    PROVE  Ordered(given, edits, m)
  <1>1. PICK p \in [1..m -> 1..m] :
            /\ edits = [k \in 1..m |-> given[p[k]]]
            /\ \A j, k \in 1..m : p[j] = p[k] => j = k
    BY DEF Pages!Orders
  <1>2. edits \in [1..m -> {given[k] : k \in 1..m}] /\ DOMAIN edits = 1..m
    BY <1>1
  <1>3. m \in Nat /\ 1 \in 1..m /\ m \in 1..m
    OBVIOUS
  <1>4. Len(edits) = m
    BY <1>2, <1>3, Listed
  <1>5. edits[1] = given[p[1]] /\ edits[m] = given[p[m]]
    BY <1>1, <1>3
  <1>6. p[1] \in 1..m /\ p[m] \in 1..m
    BY <1>1, <1>3
  <1>7. m = 2 => p[1] # p[m]
    BY <1>1, <1>3
  <1>8. m = 2 => 1..m = {p[1], p[m]}
    BY <1>6, <1>7
  <1>9. QED
    BY <1>2, <1>4, <1>5, <1>6, <1>7, <1>8 DEF Ordered

\* What an accepted patch makes of a text: a text of the same tokens and those
\* it brings in, with the rows the hunks ask for.
LEMMA PatchMakes ==
    ASSUME NEW T, NEW s \in Seq(T), StylesOf(s) \subseteq T, NEW m \in {1, 2},
           NEW patch, DOMAIN patch = 1..m,
           \A k \in 1..m : HunkIn(patch[k], Pages!LineCount(s), T),
           NEW edits \in Pages!Orders([k \in DOMAIN patch |-> Pages!ByteEdit(s, patch[k])]),
           Pages!Disjoint(edits)
    PROVE  /\ Pages!Apply(s, edits) \in Seq(T)
           /\ ~Pages!Conflicting(patch) /\ ~Pages!EofClash(s, patch) =>
                Pages!Rows(Pages!Apply(s, edits)) = Pages!RowsAfter(Pages!Rows(s), patch)
  <1> DEFINE n == Pages!LineCount(s)
             r == Pages!Rows(s)
             given == [k \in DOMAIN patch |-> Pages!ByteEdit(s, patch[k])]
             out == Pages!Apply(s, edits)
  <1>1. /\ DOMAIN given = 1..m
        /\ \A k \in 1..m : given[k] = Pages!ByteEdit(s, patch[k])
    OBVIOUS
  <1>2. edits \in Pages!Orders(given)
    OBVIOUS
  <1> HIDE DEF given
  <1>3. Ordered(given, edits, m)
    BY <1>1, <1>2, OrderIs, Zenon
  <1>4. PICK x \in 1..m, y \in 1..m :
             /\ edits[1] = given[x] /\ (m = 2 => edits[2] = given[y])
             /\ m = 1 => x = y
             /\ m = 2 => x # y /\ 1..m = {x, y}
    BY <1>3 DEF Ordered
  <1> DEFINE g == patch[x]
             h == patch[y]
             R == Pages!ByteEdit(s, h).replacement
  <1>5. EditsOf(s, edits, g, h, m)
    BY <1>1, <1>3, <1>4 DEF EditsOf, Ordered
  <1>6. HunkIn(g, n, T) /\ HunkIn(h, n, T)
    OBVIOUS
  <1>7. HunkFor(g, n, Seq(T)) /\ HunkFor(h, n, Seq(T)) /\ n \in Nat /\ Len(r) = n /\ r \in Seq(Seq(T))
    BY <1>6, LinesOf, RowsOfText DEF HunkIn
  <1>8. PatchFor(patch, n, Seq(T))
    BY DEF PatchFor, HunkIn
  <1>9. m = 1 => g = h
    BY <1>4
  <1>10. m = 2 => Ends(g, n) <= Begins(h, n)
    <2>1. m = 2 => edits[2 - 1].end_line <= edits[2].start_line
      BY <1>3 DEF Pages!Disjoint, Ordered
    <2>2. m = 2 => edits[1] = Pages!ByteEdit(s, g) /\ edits[2] = Pages!ByteEdit(s, h)
      BY <1>5 DEF EditsOf
    <2>3. Pages!ByteEdit(s, g).end_line = Ends(g, n) /\ Pages!ByteEdit(s, h).start_line = Begins(h, n)
      BY <1>6, EditBrings
    <2> HIDE DEF g, h, n
    <2>4. QED
      BY <2>1, <2>2, <2>3
  <1> HIDE DEF g, h, n, r, out, R
  <1>11. out = IF m = 1 THEN Upto(s, g) \o Rest(s, g)
               ELSE ((Upto(s, g) \o Amid(s, g, h)) \o R) \o Rest(s, h)
    <2>1. /\ HunkIn(g, Pages!LineCount(s), T) /\ HunkIn(h, Pages!LineCount(s), T)
          /\ m = 2 => Ends(g, Pages!LineCount(s)) <= Begins(h, Pages!LineCount(s))
      BY <1>6, <1>10 DEF n
    <2>2. Yields(s, edits, g, h, m)
      BY <1>5, <1>9, <2>1, Applied, Zenon
    <2>3. QED
      BY <2>2, Zenon DEF Yields, out, R
  <1>12. out \in Seq(T)
    <2>1. /\ Begins(g, n) \in 1..(n + 1) /\ Ends(g, n) \in 1..(n + 1)
          /\ Begins(h, n) \in 1..(n + 1) /\ Ends(h, n) \in 1..(n + 1)
      BY <1>7, HunkPlaces
    <2>2. Pages!ByteEdit(s, g).replacement \in Seq(T) /\ R \in Seq(T)
      BY <1>6, EditBrings DEF R, n
    <2>3. ASSUME NEW i \in 1..(n + 1), NEW j \in 1..(n + 1), i <= j
          PROVE  LinesFrom(s, i, j) \in Seq(T)
      <3>1. j \in i..(n + 1)
        BY <1>7, <2>3
      <3>2. QED
        BY <3>1, RowsOfLines DEF n
    <2>4. 1 \in 1..(n + 1) /\ n + 1 \in 1..(n + 1)
      BY <1>7
    <2>5. LinesFrom(s, 1, Begins(g, n)) \in Seq(T) /\ Rest(s, g) \in Seq(T) /\ Rest(s, h) \in Seq(T)
      <3>1. 1 <= Begins(g, n) /\ Ends(g, n) <= n + 1 /\ Ends(h, n) <= n + 1
        BY <1>7, <2>1
      <3>2. QED
        BY <2>1, <2>3, <2>4, <3>1 DEF Rest, n
    <2>6. m = 2 => Amid(s, g, h) \in Seq(T)
      BY <1>10, <2>1, <2>3 DEF Amid, n
    <2>7. Upto(s, g) \in Seq(T)
      BY <2>2, <2>5, EndOfJoined DEF Upto, n
    <2>8. CASE m = 1
      BY <1>11, <2>5, <2>7, <2>8, EndOfJoined
    <2>9. CASE m = 2
      <3>1. Upto(s, g) \o Amid(s, g, h) \in Seq(T)
        BY <2>6, <2>7, <2>9, EndOfJoined
      <3> DEFINE U == Upto(s, g) \o Amid(s, g, h)
      <3> HIDE DEF U
      <3>2. U \o R \in Seq(T)
        BY <2>2, <3>1, EndOfJoined DEF U
      <3>3. (U \o R) \o Rest(s, h) \in Seq(T)
        BY <2>5, <3>2, EndOfJoined
      <3>4. QED
        BY <1>11, <2>9, <3>3 DEF U
    <2>10. QED
      BY <2>8, <2>9
  <1>13. ASSUME ~Pages!Conflicting(patch), ~Pages!EofClash(s, patch)
         PROVE  Pages!Rows(out) = Pages!RowsAfter(r, patch)
    <2>1. Fine(s, g) /\ Fine(s, h)
      BY <1>6, <1>13, FineHunk DEF g, h, n
    <2>2. CASE m = 1
      <3>1. Pages!Rows(Upto(s, g) \o Rest(s, g)) = AfterOne(r, g)
        BY <1>6, <2>1, PiecesRows DEF r, n
      <3>2. 1 \in DOMAIN patch /\ DOMAIN patch = {1} /\ g = patch[1]
        BY <2>2 DEF g
      <3>3. Pages!RowsAfter(r, patch) = (SubSeq(r, 1, Begins(patch[1], Len(r)) - 1) \o patch[1].body)
                \o SubSeq(r, Ends(patch[1], Len(r)), Len(r))
        BY <1>7, <1>8, <3>2, RowsAfterOne
      <3>4. QED
        BY <1>11, <2>2, <3>1, <3>2, <3>3 DEF AfterOne
    <2>3. CASE m = 2
      <3>1. DOMAIN patch = {x, y} /\ x # y
        BY <1>4, <2>3
      <3>2. Ends(g, n) <= Begins(h, n)
        BY <1>10, <2>3
      <3>3. LeavesRoom(s, g) /\ Hi(g, n) <= Lo(h, n)
        BY <1>6, <1>13, <3>1, <3>2, HunksApart DEF g, h, n
      <3>4. Pages!Rows(((Upto(s, g) \o Amid(s, g, h)) \o R) \o Rest(s, h)) = AfterTwo(r, g, h)
        BY <1>6, <2>1, <3>2, <3>3, PiecesRows DEF r, n, R
      <3>5. Pages!RowsAfter(r, patch) =
             (((SubSeq(r, 1, Begins(patch[x], Len(r)) - 1) \o patch[x].body)
               \o SubSeq(r, Ends(patch[x], Len(r)), Begins(patch[y], Len(r)) - 1)) \o patch[y].body)
               \o SubSeq(r, Ends(patch[y], Len(r)), Len(r))
        BY <1>7, <1>8, <3>1, <3>2, <3>3, RowsAfterTwo DEF g, h
      <3>6. Pages!RowsAfter(r, patch) = AfterTwo(r, g, h)
        BY <3>5, Zenon DEF AfterTwo, g, h
      <3>7. out = ((Upto(s, g) \o Amid(s, g, h)) \o R) \o Rest(s, h)
        BY <1>11, <2>3
      <3>8. QED
        BY <3>4, <3>6, <3>7, Zenon
    <2>4. QED
      BY <2>2, <2>3
  <1>14. QED
    BY <1>12, <1>13 DEF out, r

-----------------------------------------------------------------------------
(* Pages: edits *)

\* The tokens that a text and its edits are made of.
Tokens(s) ==
    (Pages!ToSet(s) \cup StylesOf(s))
    \cup UNION {UNION {Pages!ToSet(row) : row \in Pages!ToSet(body)} : body \in Bodies}

\* Edits bring in no other terminator.
LEMMA TokensAre ==
    ASSUME NEW s, IsSeq(s)
    PROVE  /\ s \in Seq(Tokens(s)) /\ StylesOf(s) \subseteq Tokens(s)
           /\ Tokens(s) \cap Pages!Newlines = StylesOf(s)
  <1> DEFINE B == UNION {UNION {Pages!ToSet(row) : row \in Pages!ToSet(body)} : body \in Bodies}
  <1>1. B \cap Pages!Newlines = {}
    <2>1. ASSUME NEW t \in B PROVE t \notin Pages!Newlines
      <3>1. PICK body \in Bodies : t \in UNION {Pages!ToSet(row) : row \in Pages!ToSet(body)}
        OBVIOUS
      <3>2. PICK row \in Pages!ToSet(body) : t \in Pages!ToSet(row)
        BY <3>1
      <3>3. Pages!ToSet(row) \cap Pages!Newlines = {}
        BY TextAssumption
      <3>4. QED
        BY <3>2, <3>3
    <2> HIDE DEF B
    <2>2. QED
      BY <2>1
  <1>2. StylesOf(s) \subseteq Pages!Newlines /\ Pages!ToSet(s) \cap Pages!Newlines \subseteq StylesOf(s)
    BY DEF StylesOf, Pages!Newlines
  <1>3. Tokens(s) = (Pages!ToSet(s) \cup StylesOf(s)) \cup B
    BY DEF Tokens
  <1>4. s \in Seq(Pages!ToSet(s))
    BY OwnTokens
  <1> HIDE DEF B
  <1>5. Tokens(s) \cap Pages!Newlines = StylesOf(s) /\ Pages!ToSet(s) \subseteq Tokens(s)
    BY <1>1, <1>2, <1>3
  <1>6. s \in Seq(Tokens(s))
    BY <1>4, <1>5, SeqMonotonic
  <1>7. QED
    BY <1>3, <1>5, <1>6

\* The bodies of a patch.
LEMMA BodiesAre ==
    ASSUME NEW s, NEW body \in Bodies
    PROVE  BodyFor(body, Tokens(s)) /\ body # <<>>
  <1>1. /\ body \in Seq(Pages!ToSet(body)) /\ body # <<>>
        /\ \A row \in Pages!ToSet(body) :
              row \in Seq(Pages!ToSet(row)) /\ Pages!ToSet(row) \cap Pages!Newlines = {}
    BY TextAssumption
  <1>2. Len(body) \in Nat /\ DOMAIN body = 1..Len(body)
    BY <1>1, LenProperties
  <1>3. \A k \in 1..Len(body) : body[k] \in Pages!ToSet(body)
    BY <1>2 DEF Pages!ToSet
  <1>4. ASSUME NEW row \in Pages!ToSet(body)
        PROVE  row \in Seq(Tokens(s)) /\ RowText(row)
    <2>1. Pages!ToSet(row) \subseteq Tokens(s)
      <3> DEFINE rows == UNION {Pages!ToSet(x) : x \in Pages!ToSet(body)}
                 all == UNION {UNION {Pages!ToSet(x) : x \in Pages!ToSet(b)} : b \in Bodies}
      <3>1. Pages!ToSet(row) \subseteq rows
        OBVIOUS
      <3>2. rows \subseteq all
        OBVIOUS
      <3>3. Tokens(s) = (Pages!ToSet(s) \cup StylesOf(s)) \cup all
        BY DEF Tokens
      <3> HIDE DEF rows, all
      <3>4. QED
        BY <3>1, <3>2, <3>3
    <2>2. row \in Seq(Pages!ToSet(row)) /\ Pages!ToSet(row) \cap Pages!Newlines = {}
      BY <1>1
    <2>3. row \in Seq(Tokens(s))
      BY <2>1, <2>2, SeqMonotonic
    <2>4. DOMAIN row = 1..Len(row)
      BY <2>2, LenProperties
    <2>5. \A i \in 1..Len(row) : row[i] \in Pages!ToSet(row)
      BY <2>4 DEF Pages!ToSet
    <2>6. QED
      BY <2>2, <2>3, <2>5 DEF RowText, IsSeq
  <1>5. Pages!ToSet(body) \subseteq Seq(Tokens(s))
    BY <1>4
  <1>6. body \in Seq(Seq(Tokens(s)))
    BY <1>1, <1>5, SeqMonotonic
  <1>7. QED
    BY <1>1, <1>3, <1>4, <1>6 DEF BodyFor

\* The hunks a client may send are for the lines of the text.
LEMMA HunksIn ==
    ASSUME PagesInv, NEW h \in Pages!Allowed
    PROVE  HunkIn(h, Pages!LineCount(text), Tokens(text))
  <1> DEFINE lines == 1..Pages!LineCount(text)
             T == Tokens(text)
  <1>1. Pages!LineCount(text) \in Nat
    BY LinesCounted DEF PagesInv
  <1>2. h \in Pages!Hunk /\ h.start <= h.end
    BY Zenon DEF Pages!Allowed
  <1>3. \A body \in Bodies : BodyFor(body, T) /\ body # <<>>
    BY BodiesAre
  <1>4. BodyFor(<<>>, T)
    <2>1. <<>> \in Seq(Seq(T)) /\ Len(<<>>) = 0
      BY EmptySeq
    <2>2. QED
      BY <2>1 DEF BodyFor
  <1> HIDE DEF lines, T
  <1>6. \/ h \in [kind : {"replace"}, start : lines, end : lines, body : Bodies]
        \/ h \in [kind : {"cut"}, start : lines, end : lines, body : {<<>>}]
        \/ \E n \in lines : h \in [kind : {"before", "after"}, start : {n}, end : {n}, body : Bodies]
        \/ h \in [kind : {"tail"}, start : {0}, end : {0}, body : Bodies]
    <2>1. Pages!Hunk =
            [kind : {"replace"}, start : lines, end : lines, body : Bodies]
            \cup [kind : {"cut"}, start : lines, end : lines, body : {<<>>}]
            \cup (UNION {[kind : {"before", "after"}, start : {n}, end : {n}, body : Bodies] :
                           n \in lines})
            \cup [kind : {"tail"}, start : {0}, end : {0}, body : Bodies]
      BY Zenon DEF Pages!Hunk, lines
    <2> DEFINE A == [kind : {"replace"}, start : lines, end : lines, body : Bodies]
               B == [kind : {"cut"}, start : lines, end : lines, body : {<<>>}]
               C(n) == [kind : {"before", "after"}, start : {n}, end : {n}, body : Bodies]
               D == [kind : {"tail"}, start : {0}, end : {0}, body : Bodies]
               U == {C(n) : n \in lines}
    <2>2. h \in A \cup B \cup (UNION U) \cup D
      BY <1>2, <2>1, Zenon
    <2>3. \A S \in U : \E n \in lines : S = C(n)
      BY Zenon
    <2> HIDE DEF A, B, C, D, U
    <2>4. h \in A \/ h \in B \/ (\E n \in lines : h \in C(n)) \/ h \in D
      BY <2>2, <2>3
    <2>5. QED
      BY <2>4, Zenon DEF A, B, C, D
  <1>7. \/ h.kind = "replace" /\ h.start \in lines /\ h.end \in lines /\ h.body \in Bodies
        \/ h.kind = "cut" /\ h.start \in lines /\ h.end \in lines /\ h.body = <<>>
        \/ h.kind \in {"before", "after"} /\ h.start \in lines /\ h.end \in lines /\ h.body \in Bodies
        \/ h.kind = "tail" /\ h.body \in Bodies
    <2>1. CASE h \in [kind : {"replace"}, start : lines, end : lines, body : Bodies]
      BY <2>1
    <2>2. CASE h \in [kind : {"cut"}, start : lines, end : lines, body : {<<>>}]
      BY <2>2
    <2>3. CASE \E n \in lines :
                  h \in [kind : {"before", "after"}, start : {n}, end : {n}, body : Bodies]
      BY <2>3
    <2>4. CASE h \in [kind : {"tail"}, start : {0}, end : {0}, body : Bodies]
      BY <2>4
    <2>5. QED
      BY <1>6, <2>1, <2>2, <2>3, <2>4
  <1>8. BodyFor(h.body, T) /\ (h.body \in Bodies => h.body # <<>>)
    BY <1>3, <1>4, <1>7
  <1>9. /\ h.kind \in {"replace", "cut", "before", "after", "tail"}
        /\ h.kind = "cut" => h.body = <<>>
        /\ h.kind # "cut" => h.body # <<>>
    BY <1>7, <1>8
  <1>10. h.kind # "tail" => h.start \in lines /\ h.end \in h.start..Pages!LineCount(text)
    <2>1. h.kind # "tail" => h.start \in lines /\ h.end \in lines
      BY <1>7
    <2>2. QED
      BY <1>1, <1>2, <2>1 DEF lines
  <1>11. h.body \in Seq(Seq(T))
    BY <1>8 DEF BodyFor
  <1>12. QED
    BY <1>8, <1>9, <1>10, <1>11 DEF HunkIn, HunkFor, lines, T

\* No page is one that ended.
LEMMA PagesNone == Delivered(Pages!NoPage)
  <1>1. <<>> \in Seq({}) /\ Len(<<>>) = 0
    BY EmptySeq
  <1>2. SubSeq(<<>>, 1, 0) = <<>>
    BY <1>1, SubSeqEmpty
  <1>3. /\ Pages!NoPage.artifact = <<>> /\ Pages!NoPage.delivered = <<>>
        /\ Pages!NoPage.next = Pages!AtEnd
        /\ DOMAIN Pages!NoPage = {"artifact", "delivered", "next"}
    BY DEF Pages!NoPage
  <1>4. DeliveredTo(Pages!NoPage, 0)
    BY <1>1, <1>2, <1>3 DEF DeliveredTo
  <1>5. QED
    BY <1>1, <1>3, <1>4 DEF Delivered, IsSeq

\* The rows of the text are those its hunks asked for, so far.
EditsInv == ~atEofClash => Pages!Rows(text) = expected

\* An edit makes a text of the rows its hunks ask for, brings in no terminator of
\* its own, and ends the page.
LEMMA PagesEdited ==
    ASSUME PagesInv, EditsInv, NEW m \in {1, 2}, NEW patch, DOMAIN patch = 1..m,
           \A k \in 1..m : patch[k] \in Pages!Allowed, Pages!Edit(patch)
    PROVE  PagesInv' /\ EditsInv' /\ Pages!TerminatorsLocal
  <1> DEFINE T == Tokens(text)
             n == Pages!LineCount(text)
             given == [k \in DOMAIN patch |-> Pages!ByteEdit(text, patch[k])]
  <1>1. PICK edits \in Pages!Orders(given) : text' = Pages!Apply(text, edits) /\ Pages!Disjoint(edits)
    BY Zenon DEF Pages!Edit
  <1>2. /\ ~Pages!Conflicting(patch) /\ expected' = Pages!RowsAfter(expected, patch)
        /\ atEofClash' = (atEofClash \/ Pages!EofClash(text, patch)) /\ page' = Pages!NoPage
    BY Zenon DEF Pages!Edit
  <1>3. text \in Seq(T) /\ StylesOf(text) \subseteq T /\ T \cap Pages!Newlines = StylesOf(text)
    BY TokensAre DEF PagesInv
  <1>4. \A k \in 1..m : HunkIn(patch[k], n, T)
    BY HunksIn
  <1> HIDE DEF T
  <1>5. /\ Pages!Apply(text, edits) \in Seq(T)
        /\ ~Pages!Conflicting(patch) /\ ~Pages!EofClash(text, patch) =>
             Pages!Rows(Pages!Apply(text, edits)) = Pages!RowsAfter(Pages!Rows(text), patch)
    BY <1>1, <1>3, <1>4, PatchMakes
  <1>6. text' \in Seq(T)
    BY <1>1, <1>5
  <1>7. PagesInv'
    <2>1. Delivered(page')
      BY <1>2, PagesNone, Zenon
    <2>2. IsSeq(text')
      BY <1>6 DEF IsSeq
    <2>3. QED
      BY <2>1, <2>2 DEF PagesInv, Delivered, DeliveredTo, IsSeq
  <1>8. EditsInv'
    <2>1. SUFFICES ASSUME ~atEofClash'
                   PROVE  Pages!Rows(text') = expected'
      BY DEF EditsInv
    <2>2. ~atEofClash /\ ~Pages!EofClash(text, patch)
      BY <1>2, <2>1, Zenon
    <2>3. Pages!Rows(text) = expected
      BY <2>2 DEF EditsInv
    <2>4. Pages!Rows(text') = Pages!RowsAfter(Pages!Rows(text), patch)
      BY <1>1, <1>2, <1>5, <2>2, Zenon
    <2>5. QED
      BY <1>2, <2>3, <2>4, Zenon
  <1>9. Pages!TerminatorsLocal
    <2>1. Pages!ToSet(text') \subseteq T
      <3>1. DOMAIN text' = 1..Len(text')
        BY <1>6, LenProperties
      <3>2. \A i \in 1..Len(text') : text'[i] \in T
        BY <1>6, ElementOfSeq
      <3>3. QED
        BY <3>1, <3>2 DEF Pages!ToSet
    <2>2. Pages!ToSet(text') \cap Pages!Newlines \subseteq StylesOf(text)
      BY <1>3, <2>1
    <2>3. QED
      BY <2>2 DEF StylesOf, Pages!TerminatorsLocal
  <1>10. QED
    BY <1>7, <1>8, <1>9

-----------------------------------------------------------------------------
(* Pages: the steps *)

\* Nothing but an edit changes the text.
LEMMA EditsStay ==
    ASSUME EditsInv, UNCHANGED <<text, expected, atEofClash>>
    PROVE  EditsInv' /\ Pages!TerminatorsLocal
  <1>1. text' = text /\ expected' = expected /\ atEofClash' = atEofClash
    OBVIOUS
  <1>2. Pages!Rows(text)' = Pages!Rows(text')
    OBVIOUS
  <1>3. Pages!Rows(text') = Pages!Rows(text)
    BY <1>1
  <1>4. EditsInv'
    BY <1>1, <1>2, <1>3 DEF EditsInv
  <1>5. Pages!TerminatorsLocal
    BY <1>1 DEF Pages!TerminatorsLocal
  <1>6. QED
    BY <1>4, <1>5

\* Every step of a client keeps the page, and the rows.
LEMMA PagesGoOn ==
    ASSUME PagesInv, EditsInv, Pages!Next
    PROVE  PagesInv' /\ EditsInv' /\ Pages!TerminatorsLocal
  <1>1. ASSUME NEW ranges \in Selectors \cup {Pages!Whole(text)}, NEW limits \in PageLimits,
               Pages!Read(ranges, limits)
        PROVE  PagesInv' /\ EditsInv' /\ Pages!TerminatorsLocal
    <2>1. UNCHANGED <<text, expected, atEofClash>>
      BY <1>1, Zenon DEF Pages!Read
    <2>2. QED
      BY <1>1, <2>1, PagesRead, EditsStay
  <1>2. ASSUME NEW limits \in PageLimits, Pages!Follow(limits)
        PROVE  PagesInv' /\ EditsInv' /\ Pages!TerminatorsLocal
    <2>1. UNCHANGED <<text, expected, atEofClash>>
      BY <1>2, Zenon DEF Pages!Follow
    <2>2. QED
      BY <1>2, <2>1, PagesFollow, EditsStay
  <1>3. ASSUME NEW g \in Pages!Allowed, Pages!Edit(<<g>>)
        PROVE  PagesInv' /\ EditsInv' /\ Pages!TerminatorsLocal
    <2> DEFINE patch == <<g>>
    <2>1. 1 \in {1, 2} /\ DOMAIN patch = 1..1 /\ \A k \in 1..1 : patch[k] \in Pages!Allowed
      OBVIOUS
    <2>2. Pages!Edit(patch)
      BY <1>3
    <2> HIDE DEF patch
    <2>3. QED
      BY <2>1, <2>2, PagesEdited
  <1>4. ASSUME NEW g \in Pages!Allowed, NEW h \in Pages!Allowed, Pages!Edit(<<g, h>>)
        PROVE  PagesInv' /\ EditsInv' /\ Pages!TerminatorsLocal
    <2> DEFINE patch == <<g, h>>
    <2>1. 2 \in {1, 2} /\ DOMAIN patch = 1..2 /\ \A k \in 1..2 : patch[k] \in Pages!Allowed
      OBVIOUS
    <2>2. Pages!Edit(patch)
      BY <1>4
    <2> HIDE DEF patch
    <2>3. QED
      BY <2>1, <2>2, PagesEdited
  <1>5. QED
    BY <1>1, <1>2, <1>3, <1>4, Zenon DEF Pages!Next

LEMMA PagesRest ==
    ASSUME PagesInv, EditsInv, UNCHANGED <<text, page, expected, atEofClash>>
    PROVE  PagesInv' /\ EditsInv' /\ Pages!TerminatorsLocal
  <1>1. PagesInv'
    BY DEF PagesInv, Delivered, DeliveredTo, IsSeq
  <1>2. QED
    BY <1>1, EditsStay

LEMMA PagesStart ==
    ASSUME Pages!Init
    PROVE  PagesInv /\ EditsInv
  <1>1. text \in Texts /\ page = Pages!NoPage /\ expected = Pages!Rows(text)
    BY Zenon DEF Pages!Init
  <1>2. IsSeq(text)
    BY <1>1, TextAssumption DEF IsSeq
  <1>3. Delivered(page)
    BY <1>1, PagesNone, Zenon
  <1>4. QED
    BY <1>1, <1>2, <1>3 DEF PagesInv, EditsInv

-----------------------------------------------------------------------------
(* The walk: paths *)

Paths == Seq(Walk!Range(Names))

\* The first names of a path.
LEMMA Prefixes ==
    ASSUME NEW T, NEW p \in Seq(T), NEW n \in 0..Len(p)
    PROVE  /\ Walk!Prefix(p, n) \in Seq(T) /\ Len(Walk!Prefix(p, n)) = n
           /\ \A i \in 1..n : Walk!Prefix(p, n)[i] = p[i]
  <1>1. Len(p) \in Nat /\ n \in Nat /\ 0 \in 0..Len(p) /\ 0 + 1 = 1 /\ n - 0 = n
    BY LenProperties
  <1>2. /\ SubSeq(p, 1, n) \in Seq(T) /\ Len(SubSeq(p, 1, n)) = n
        /\ \A i \in 1..n : SubSeq(p, 1, n)[i] = p[0 + i]
    BY <1>1, PartOf
  <1>3. \A i \in 1..n : 0 + i = i
    OBVIOUS
  <1>4. QED
    BY <1>2, <1>3 DEF Walk!Prefix

LEMMA PrefixOfPrefix ==
    ASSUME NEW T, NEW p \in Seq(T), NEW m \in 0..Len(p), NEW n \in 0..m
    PROVE  Walk!Prefix(Walk!Prefix(p, m), n) = Walk!Prefix(p, n)
  <1>1. Len(p) \in Nat /\ n \in 0..Len(p) /\ \A i \in 1..n : i \in 1..m
    BY LenProperties
  <1>2. /\ Walk!Prefix(p, m) \in Seq(T) /\ Len(Walk!Prefix(p, m)) = m
        /\ \A i \in 1..m : Walk!Prefix(p, m)[i] = p[i]
    BY Prefixes
  <1>3. /\ Walk!Prefix(p, n) \in Seq(T) /\ Len(Walk!Prefix(p, n)) = n
        /\ \A i \in 1..n : Walk!Prefix(p, n)[i] = p[i]
    BY <1>1, Prefixes
  <1>4. /\ Walk!Prefix(Walk!Prefix(p, m), n) \in Seq(T)
        /\ Len(Walk!Prefix(Walk!Prefix(p, m), n)) = n
        /\ \A i \in 1..n : Walk!Prefix(Walk!Prefix(p, m), n)[i] = Walk!Prefix(p, m)[i]
    BY <1>2, Prefixes
  <1>5. \A i \in 1..n : Walk!Prefix(Walk!Prefix(p, m), n)[i] = Walk!Prefix(p, n)[i]
    BY <1>1, <1>2, <1>3, <1>4
  <1>6. QED
    BY <1>3, <1>4, <1>5, SeqEqual

LEMMA WholePrefix ==
    ASSUME NEW T, NEW p \in Seq(T)
    PROVE  /\ Walk!Prefix(p, Len(p)) = p /\ Walk!Prefix(p, 0) = <<>>
           /\ Walk!Front(p) = Walk!Prefix(p, Len(p) - 1)
           /\ Walk!Last(p) = p[Len(p)]
           /\ p # <<>> <=> Len(p) # 0
  <1>1. Walk!Prefix(p, Len(p)) = p
    BY SubSeqFull DEF Walk!Prefix
  <1>2. Walk!Prefix(p, 0) = <<>>
    BY SubSeqEmpty DEF Walk!Prefix
  <1>3. p # <<>> <=> Len(p) # 0
    BY EmptySeq
  <1>4. QED
    BY <1>1, <1>2, <1>3 DEF Walk!Prefix, Walk!Front, Walk!Last

\* What is above a path, and its name in it.
LEMMA Fronts ==
    ASSUME NEW T, NEW p \in Seq(T), p # <<>>
    PROVE  /\ Walk!Front(p) \in Seq(T) /\ Len(Walk!Front(p)) = Len(p) - 1
           /\ Len(p) \in Nat \ {0} /\ Len(p) - 1 \in 0..Len(p)
           /\ \A n \in 0..(Len(p) - 1) : Walk!Prefix(Walk!Front(p), n) = Walk!Prefix(p, n)
           /\ Walk!Last(p) \in T /\ Append(Walk!Front(p), Walk!Last(p)) = p
  <1>1. Len(p) \in Nat \ {0} /\ Len(p) - 1 \in 0..Len(p) /\ Len(p) \in 1..Len(p)
    BY EmptySeq
  <1>2. Walk!Front(p) = Walk!Prefix(p, Len(p) - 1) /\ Walk!Last(p) = p[Len(p)]
    BY WholePrefix
  <1>3. /\ Walk!Front(p) \in Seq(T) /\ Len(Walk!Front(p)) = Len(p) - 1
        /\ \A i \in 1..(Len(p) - 1) : Walk!Front(p)[i] = p[i]
    <2>1. PICK k : k = Len(p) - 1
      OBVIOUS
    <2>2. k \in 0..Len(p) /\ Walk!Front(p) = Walk!Prefix(p, k)
      BY <1>1, <1>2, <2>1
    <2>3. /\ Walk!Prefix(p, k) \in Seq(T) /\ Len(Walk!Prefix(p, k)) = k
          /\ \A i \in 1..k : Walk!Prefix(p, k)[i] = p[i]
      BY <2>2, Prefixes
    <2>4. QED
      BY <2>1, <2>2, <2>3
  <1>4. \A n \in 0..(Len(p) - 1) : Walk!Prefix(Walk!Front(p), n) = Walk!Prefix(p, n)
    BY <1>1, <1>2, PrefixOfPrefix
  <1>5. Walk!Last(p) \in T
    BY <1>1, <1>2, ElementOfSeq
  <1>6. Append(Walk!Front(p), Walk!Last(p)) = p
    <2> DEFINE q == Append(Walk!Front(p), Walk!Last(p))
    <2>1. /\ q \in Seq(T) /\ Len(q) = (Len(p) - 1) + 1
          /\ \A i \in 1..(Len(p) - 1) : q[i] = Walk!Front(p)[i]
          /\ q[(Len(p) - 1) + 1] = Walk!Last(p)
      BY <1>3, <1>5, AppendProperties
    <2> HIDE DEF q
    <2>2. (Len(p) - 1) + 1 = Len(p) /\ \A i \in 1..Len(p) : i \in 1..(Len(p) - 1) \/ i = Len(p)
      BY <1>1
    <2>3. \A i \in 1..Len(p) : q[i] = p[i]
      BY <1>2, <1>3, <2>1, <2>2
    <2>4. q = p
      BY <2>1, <2>2, <2>3, SeqEqual
    <2>5. QED
      BY <2>4 DEF q
  <1>7. QED
    BY <1>1, <1>3, <1>4, <1>5, <1>6

\* A name in a directory.
LEMMA Below ==
    ASSUME NEW T, NEW d \in Seq(T), NEW x \in T
    PROVE  /\ Append(d, x) \in Seq(T) /\ Append(d, x) # <<>> /\ Len(Append(d, x)) = Len(d) + 1
           /\ Walk!Front(Append(d, x)) = d /\ Walk!Last(Append(d, x)) = x
  <1> DEFINE p == Append(d, x)
  <1>1. /\ p \in Seq(T) /\ p # <<>> /\ Len(p) = Len(d) + 1 /\ Len(d) \in Nat
        /\ \A i \in 1..Len(d) : p[i] = d[i]
        /\ p[Len(d) + 1] = x
    BY AppendProperties, LenProperties
  <1> HIDE DEF p
  <1>2. Walk!Front(p) = Walk!Prefix(p, Len(p) - 1) /\ Walk!Last(p) = p[Len(p)]
    BY <1>1, WholePrefix
  <1>3. Len(p) - 1 = Len(d) /\ Len(d) \in 0..Len(p)
    BY <1>1
  <1>4. /\ Walk!Prefix(p, Len(d)) \in Seq(T) /\ Len(Walk!Prefix(p, Len(d))) = Len(d)
        /\ \A i \in 1..Len(d) : Walk!Prefix(p, Len(d))[i] = p[i]
    BY <1>1, <1>3, Prefixes
  <1>5. Walk!Prefix(p, Len(d)) = d
    BY <1>1, <1>4, SeqEqual
  <1>6. QED
    BY <1>1, <1>2, <1>3, <1>5 DEF p

\* A path is above another where the other begins with it.
LEMMA Above ==
    ASSUME NEW T, NEW a \in Seq(T), NEW p \in Seq(T)
    PROVE  Walk!IsPrefix(a, p) <=> Len(a) <= Len(p) /\ a = Walk!Prefix(p, Len(a))
  <1>1. SubSeq(a, 1, Len(a)) = a
    BY SubSeqFull
  <1>2. QED
    BY <1>1 DEF Walk!IsPrefix, Walk!Prefix

-----------------------------------------------------------------------------
(* The walk: trees *)

\* Directories are above what is in them.
Closed(t) ==
    /\ DOMAIN t \subseteq Paths
    /\ \A p \in DOMAIN t : p # <<>> => Walk!Front(p) \in DOMAIN t /\ t[Walk!Front(p)].kind = "dir"

\* Whatever a path of a tree begins with is in the tree, and a directory.
LEMMA InTree ==
    ASSUME NEW t, Closed(t), NEW p \in DOMAIN t, NEW n \in 0..Len(p)
    PROVE  /\ Walk!Prefix(p, n) \in DOMAIN t
           /\ n < Len(p) => t[Walk!Prefix(p, n)].kind = "dir"
  <1> DEFINE m == Len(p)
             Bad == {k \in 0..m : \/ Walk!Prefix(p, m - k) \notin DOMAIN t
                                  \/ (k > 0 /\ t[Walk!Prefix(p, m - k)].kind # "dir")}
  <1>1. p \in Paths /\ m \in Nat /\ Walk!Prefix(p, m) = p
    BY WholePrefix, LenProperties DEF Closed, Paths
  <1>2. ASSUME Bad # {} PROVE FALSE
    <2>1. PICK k \in Bad : \A j \in Bad : k <= j
      <3>1. Bad \in SUBSET Nat
        OBVIOUS
      <3> HIDE DEF Bad
      <3>2. QED
        BY <1>2, <3>1, LeastOf
    <2>2. k \in 0..m /\ (Walk!Prefix(p, m - k) \notin DOMAIN t
                         \/ (k > 0 /\ t[Walk!Prefix(p, m - k)].kind # "dir"))
      BY <2>1
    <2>3. k # 0
      <3>1. m - 0 = m
        BY <1>1
      <3>2. QED
        BY <1>1, <2>2, <3>1
    <2>4. k - 1 \in 0..m /\ ~(k <= k - 1)
      BY <1>1, <2>2, <2>3
    <2>5. k - 1 \notin Bad
      <3> HIDE DEF Bad
      <3>1. QED
        BY <2>1, <2>4
    <2>6. Walk!Prefix(p, m - (k - 1)) \in DOMAIN t
      BY <2>4, <2>5
    <2> DEFINE q == Walk!Prefix(p, m - (k - 1))
    <2>7. m - (k - 1) \in 0..Len(p) /\ m - (k - 1) # 0
      BY <1>1, <2>2, <2>3
    <2> HIDE DEF m
    <2>8. q \in Seq(Walk!Range(Names)) /\ Len(q) = m - (k - 1) /\ q # <<>>
      <3>1. q \in Seq(Walk!Range(Names)) /\ Len(q) = m - (k - 1)
        BY <1>1, <2>7, Prefixes DEF Paths
      <3>2. QED
        BY <2>7, <3>1, WholePrefix
    <2>9. Walk!Front(q) \in DOMAIN t /\ t[Walk!Front(q)].kind = "dir"
      BY <2>6, <2>8 DEF Closed
    <2>10. Walk!Front(q) = Walk!Prefix(p, m - k)
      <3>1. Walk!Front(q) = Walk!Prefix(q, Len(q) - 1) /\ Len(q) - 1 = m - k
        BY <1>1, <2>2, <2>8, WholePrefix
      <3>2. m - k \in 0..(m - (k - 1)) /\ m - (k - 1) \in 0..Len(p)
        BY <1>1, <2>2, <2>3, <2>7
      <3>3. Walk!Prefix(q, m - k) = Walk!Prefix(p, m - k)
        BY <1>1, <3>2, PrefixOfPrefix DEF Paths
      <3>4. QED
        BY <3>1, <3>3
    <2>11. QED
      BY <2>2, <2>9, <2>10
  <1>3. m - n \in 0..m /\ m - (m - n) = n
    BY <1>1
  <1>4. m - n \notin Bad
    <2> HIDE DEF Bad
    <2>1. QED
      BY <1>2
  <1>5. Walk!Prefix(p, n) \in DOMAIN t /\ (m - n > 0 => t[Walk!Prefix(p, n)].kind = "dir")
    BY <1>3, <1>4
  <1>6. QED
    BY <1>1, <1>5

-----------------------------------------------------------------------------
(* The walk: the files of rules above a path *)

\* The matchers from the root to the places of a path.
Stacks(t, p) ==
    CHOOSE f : f = [n \in 0..Len(p) |->
        IF n = 0 THEN Walk!Loaded(t, <<>>, <<>>) ELSE Walk!Loaded(t, Walk!Prefix(p, n), f[n - 1])]

RuleLists(t) == {t[d].rules : d \in DOMAIN t}

LEMMA LoadedSeq ==
    ASSUME NEW t, NEW d, NEW s \in Seq(RuleLists(t))
    PROVE  Walk!Loaded(t, d, s) \in Seq(RuleLists(t))
  <1>1. CASE d \in DOMAIN t
    <2>1. t[d].rules \in RuleLists(t)
      BY <1>1 DEF RuleLists
    <2>2. Append(s, t[d].rules) \in Seq(RuleLists(t))
      BY <2>1, AppendProperties
    <2>3. QED
      BY <1>1, <2>2 DEF Walk!Loaded
  <1>2. CASE d \notin DOMAIN t
    BY <1>2 DEF Walk!Loaded
  <1>3. QED
    BY <1>1, <1>2

LEMMA StacksAre ==
    ASSUME NEW t, NEW p \in Paths
    PROVE  /\ Stacks(t, p)[0] = Walk!Loaded(t, <<>>, <<>>)
           /\ \A n \in 1..Len(p) :
                Stacks(t, p)[n] = Walk!Loaded(t, Walk!Prefix(p, n), Stacks(t, p)[n - 1])
           /\ \A n \in 0..Len(p) : Stacks(t, p)[n] \in Seq(RuleLists(t))
  <1> DEFINE m == Len(p)
             V == Seq(RuleLists(t))
             base1 == Walk!Loaded(t, <<>>, <<>>)
             Onward(k, v) == Walk!Loaded(t, Walk!Prefix(p, k), v)
             G == [e \in (1..m) \X V |-> Onward(e[1], e[2])]
             Goes(f) == f = [n \in 0..m |-> IF n = 0 THEN base1 ELSE Onward(n, f[n - 1])]
  <1>1. m \in Nat
    BY LenProperties DEF Paths
  <1>2. base1 \in V /\ \A k \in 1..m, v \in V : Onward(k, v) \in V
    <2>1. <<>> \in V
      BY EmptySeq
    <2>2. QED
      BY <2>1, LoadedSeq
  <1> HIDE DEF Onward, base1, V, m
  <1>3. G \in [(1..m) \X V -> V] /\ \A k \in 1..m, v \in V : G[<<k, v>>] = Onward(k, v)
    BY <1>2
  <1> HIDE DEF G
  <1>4. PICK g : Follows(g, m, V, base1, G)
    <2>1. Leads(m, V, base1, G)
      BY <1>1, <1>2, <1>3 DEF Leads
    <2>2. QED
      BY <2>1, Recursion
  <1>5. Goes(g)
    <2>1. g \in [0..m -> V] /\ g[0] = base1 /\ \A k \in 1..m : g[k] = G[<<k, g[k - 1]>>]
      BY <1>4 DEF Follows
    <2>2. \A k \in 1..m : k - 1 \in 0..m /\ g[k - 1] \in V
      <3>1. \A k \in 1..m : k - 1 \in 0..m
        BY <1>1
      <3>2. QED
        BY <2>1, <3>1
    <2>3. \A k \in 1..m : g[k] = Onward(k, g[k - 1])
      BY <1>3, <2>1, <2>2
    <2>4. \A k \in 0..m : k = 0 \/ k \in 1..m
      BY <1>1
    <2>5. \A k \in 0..m : g[k] = IF k = 0 THEN base1 ELSE Onward(k, g[k - 1])
      BY <2>1, <2>3, <2>4
    <2>6. QED
      BY <2>1, <2>5
  <1> DEFINE f == CHOOSE h : Goes(h)
  <1>6. Goes(f)
    <2> HIDE DEF Goes
    <2>1. QED
      BY <1>5
  <1>7. Stacks(t, p) = f
    BY DEF Stacks, Onward, base1, m
  <1> HIDE DEF f
  <1>8. f[0] = base1 /\ \A k \in 1..m : f[k] = Onward(k, f[k - 1])
    <2>1. \A k \in 0..m : f[k] = IF k = 0 THEN base1 ELSE Onward(k, f[k - 1])
      BY <1>6, Zenon
    <2>2. 0 \in 0..m /\ \A k \in 1..m : k \in 0..m /\ k # 0
      BY <1>1
    <2>3. QED
      BY <2>1, <2>2
  <1> DEFINE Bad == {k \in 0..m : f[k] \notin V}
  <1>9. ASSUME Bad # {} PROVE FALSE
    <2>1. PICK k \in Bad : \A j \in Bad : k <= j
      <3>1. Bad \in SUBSET Nat
        BY <1>1
      <3> HIDE DEF Bad
      <3>2. QED
        BY <1>9, <3>1, LeastOf
    <2>2. k \in 0..m /\ f[k] \notin V
      BY <2>1
    <2>3. k # 0
      BY <1>2, <1>8, <2>2
    <2>4. k \in 1..m /\ k - 1 \in 0..m /\ ~(k <= k - 1)
      BY <1>1, <2>2, <2>3
    <2>5. k - 1 \notin Bad
      <3> HIDE DEF Bad
      <3>1. QED
        BY <2>1, <2>4
    <2>6. f[k - 1] \in V
      BY <2>4, <2>5
    <2>7. QED
      BY <1>2, <1>8, <2>2, <2>4, <2>6
  <1>10. QED
    BY <1>7, <1>8, <1>9 DEF Onward, base1, V, m

\* What is above the beginning of a path does not depend on how it goes on.
LEMMA StacksAgree ==
    ASSUME NEW t, NEW p \in Paths, NEW m \in 0..Len(p), NEW n \in 0..m
    PROVE  Stacks(t, Walk!Prefix(p, m))[n] = Stacks(t, p)[n]
  <1> DEFINE a == Walk!Prefix(p, m)
             Bad == {k \in 0..m : Stacks(t, a)[k] # Stacks(t, p)[k]}
  <1>1. Len(p) \in Nat /\ m \in Nat
    BY LenProperties DEF Paths
  <1>2. a \in Paths /\ Len(a) = m
    BY Prefixes DEF Paths
  <1>3. \A k \in 1..m : Walk!Prefix(a, k) = Walk!Prefix(p, k)
    BY <1>1, PrefixOfPrefix DEF Paths
  <1> HIDE DEF a
  <1>4. ASSUME Bad # {} PROVE FALSE
    <2>1. PICK k \in Bad : \A j \in Bad : k <= j
      <3>1. Bad \in SUBSET Nat
        BY <1>1
      <3> HIDE DEF Bad
      <3>2. QED
        BY <1>4, <3>1, LeastOf
    <2>2. k \in 0..m /\ Stacks(t, a)[k] # Stacks(t, p)[k]
      BY <2>1
    <2>3. k # 0
      BY <1>2, <2>2, StacksAre
    <2>4. k \in 1..m /\ k \in 1..Len(p) /\ k \in 1..Len(a) /\ k - 1 \in 0..m /\ ~(k <= k - 1)
      BY <1>1, <1>2, <2>2, <2>3
    <2>5. k - 1 \notin Bad
      <3> HIDE DEF Bad
      <3>1. QED
        BY <2>1, <2>4
    <2>6. Stacks(t, a)[k - 1] = Stacks(t, p)[k - 1]
      BY <2>4, <2>5
    <2>7. /\ Stacks(t, a)[k] = Walk!Loaded(t, Walk!Prefix(a, k), Stacks(t, a)[k - 1])
          /\ Stacks(t, p)[k] = Walk!Loaded(t, Walk!Prefix(p, k), Stacks(t, p)[k - 1])
      BY <1>2, <2>4, StacksAre
    <2>8. QED
      BY <1>3, <2>2, <2>4, <2>6, <2>7
  <1>5. n \notin Bad
    <2> HIDE DEF Bad
    <2>1. QED
      BY <1>4
  <1>6. QED
    BY <1>5 DEF a

\* The matchers a directory is walked with.
StackAt(t, p) == Stacks(t, p)[Len(p)]

LEMMA StackAtIs ==
    ASSUME NEW t, NEW p \in Paths
    PROVE  /\ StackAt(t, p) \in Seq(RuleLists(t))
           /\ StackAt(t, <<>>) = Walk!Loaded(t, <<>>, <<>>)
           /\ p # <<>> => StackAt(t, p) = Walk!Loaded(t, p, StackAt(t, Walk!Front(p)))
           /\ \A n \in 0..Len(p) : StackAt(t, Walk!Prefix(p, n)) = Stacks(t, p)[n]
  <1>1. Len(p) \in Nat
    BY LenProperties DEF Paths
  <1>2. \A n \in 0..Len(p) : StackAt(t, Walk!Prefix(p, n)) = Stacks(t, p)[n]
    <2>1. TAKE n \in 0..Len(p)
    <2>2. Len(Walk!Prefix(p, n)) = n /\ n \in 0..n
      BY Prefixes DEF Paths
    <2>3. QED
      BY <2>2, StacksAgree DEF StackAt
  <1>3. StackAt(t, p) \in Seq(RuleLists(t))
    <2>1. Len(p) \in 0..Len(p)
      BY <1>1
    <2>2. QED
      BY <2>1, StacksAre DEF StackAt
  <1>4. StackAt(t, <<>>) = Walk!Loaded(t, <<>>, <<>>)
    <2>1. <<>> \in Paths /\ Len(<<>>) = 0
      BY EmptySeq DEF Paths
    <2>2. QED
      BY <2>1, StacksAre DEF StackAt
  <1>5. ASSUME p # <<>>
        PROVE  StackAt(t, p) = Walk!Loaded(t, p, StackAt(t, Walk!Front(p)))
    <2>1. Len(p) \in 1..Len(p) /\ Len(p) - 1 \in 0..Len(p) /\ Walk!Front(p) = Walk!Prefix(p, Len(p) - 1)
          /\ Walk!Prefix(p, Len(p)) = p
      BY <1>5, Fronts, WholePrefix DEF Paths
    <2>2. StackAt(t, Walk!Front(p)) = Stacks(t, p)[Len(p) - 1]
      BY <1>2, <2>1
    <2>3. Stacks(t, p)[Len(p)] = Walk!Loaded(t, Walk!Prefix(p, Len(p)), Stacks(t, p)[Len(p) - 1])
      BY <2>1, StacksAre
    <2>4. QED
      BY <2>1, <2>2, <2>3 DEF StackAt
  <1>6. QED
    BY <1>2, <1>3, <1>4, <1>5

-----------------------------------------------------------------------------
(* The walk: what the filters admit *)

\* A path that its name or the rules above it exclude.
Shut(t, q, p, directory) == Walk!Excluded(q, StackAt(t, Walk!Front(p)), p, directory)

\* How the filters see the first n names of a path.
IsDir(t, p, n) == n < Len(p) \/ t[p].kind = "dir"

\* The names of a path that are not looked at: an exact search target is not.
Exempt(q, b, p) == IF q.kind = "search" /\ Walk!IsPrefix(b, p) THEN Len(b) ELSE 0

\* A query's controls are on or off.
Controls(q) == q.hidden \in BOOLEAN /\ q.gitignore \in BOOLEAN

LEMMA VisibleMeans ==
    ASSUME NEW t, NEW q, NEW b \in Paths, NEW p \in Paths, Controls(q)
    PROVE  Walk!Visible(t, q, b, p) <=>
               \A n \in Exempt(q, b, p) + 1..Len(p) : ~Shut(t, q, Walk!Prefix(p, n), IsDir(t, p, n))
  <1> DEFINE Free(n) == /\ q.hidden \/ p[n] \notin Hidden
                        /\ q.gitignore => ~Walk!Ignored(Stacks(t, p)[n - 1], Walk!Prefix(p, n), IsDir(t, p, n))
  <1>1. Walk!Visible(t, q, b, p) <=> \A n \in Exempt(q, b, p) + 1..Len(p) : Free(n)
    BY DEF Walk!Visible, Stacks, Exempt, IsDir
  <1>2. Len(p) \in Nat /\ Exempt(q, b, p) \in Nat
    BY LenProperties DEF Paths, Exempt
  <1>3. ASSUME NEW n \in 1..Len(p)
        PROVE  Free(n) <=> ~Shut(t, q, Walk!Prefix(p, n), IsDir(t, p, n))
    <2> DEFINE a == Walk!Prefix(p, n)
    <2>1. n \in 0..Len(p) /\ n - 1 \in 0..Len(p) /\ n - 1 \in 0..n /\ n # 0 /\ n \in 1..n
      BY <1>2
    <2>2. a \in Paths /\ Len(a) = n /\ a[n] = p[n]
      BY <2>1, Prefixes DEF Paths
    <2>3. Walk!Last(a) = p[n] /\ Walk!Front(a) = Walk!Prefix(a, n - 1)
      BY <2>2, WholePrefix DEF Paths
    <2>4. Walk!Front(a) = Walk!Prefix(p, n - 1)
      BY <2>1, <2>3, PrefixOfPrefix DEF Paths
    <2>5. StackAt(t, Walk!Front(a)) = Stacks(t, p)[n - 1]
      BY <2>1, <2>4, StackAtIs
    <2> HIDE DEF a
    <2>6. Shut(t, q, a, IsDir(t, p, n)) <=>
             \/ ~q.hidden /\ p[n] \in Hidden
             \/ q.gitignore /\ Walk!Ignored(Stacks(t, p)[n - 1], a, IsDir(t, p, n))
      BY <2>3, <2>5 DEF Shut, Walk!Excluded
    <2>7. QED
      BY <2>6 DEF Controls, a
  <1>4. \A n \in Exempt(q, b, p) + 1..Len(p) : n \in 1..Len(p)
    BY <1>2
  <1> HIDE DEF Free
  <1>5. QED
    BY <1>1, <1>3, <1>4

\* Where a search begins is not looked at, nor is the root.
LEMMA VisibleFirst ==
    ASSUME NEW t, NEW q, NEW b \in Paths, Controls(q)
    PROVE  Walk!Visible(t, q, b, <<>>) /\ (q.kind = "search" => Walk!Visible(t, q, b, b))
  <1>1. <<>> \in Paths /\ Len(<<>>) = 0 /\ Len(b) \in Nat
    BY EmptySeq, LenProperties DEF Paths
  <1>2. Walk!IsPrefix(b, b)
    BY Above, WholePrefix, <1>1 DEF Paths
  <1>3. Exempt(q, b, <<>>) \in Nat
    BY <1>1 DEF Exempt
  <1>4. Exempt(q, b, <<>>) + 1..Len(<<>>) = {}
    BY <1>1, <1>3
  <1>5. q.kind = "search" => Exempt(q, b, b) + 1..Len(b) = {}
    BY <1>1, <1>2 DEF Exempt
  <1>6. Walk!Visible(t, q, b, <<>>)
    BY <1>1, <1>4, VisibleMeans
  <1>7. QED
    BY <1>5, <1>6, VisibleMeans

\* Above a path it is the path that is looked at, whole.
LEMMA VisibleStep ==
    ASSUME NEW t, Closed(t), NEW q, Controls(q), NEW b \in Paths,
           NEW p \in DOMAIN t, p # <<>>, q.kind = "search" => p # b
    PROVE  Walk!Visible(t, q, b, p) <=>
               Walk!Visible(t, q, b, Walk!Front(p)) /\ ~Shut(t, q, p, t[p].kind = "dir")
  <1> DEFINE a == Walk!Front(p)
             m == Len(p)
             e == Exempt(q, b, p)
  <1>1. p \in Paths /\ a \in DOMAIN t /\ t[a].kind = "dir" /\ a \in Paths
    BY DEF Closed
  <1>2. /\ Len(a) = m - 1 /\ m \in Nat \ {0} /\ m - 1 \in 0..m
        /\ \A n \in 0..(m - 1) : Walk!Prefix(a, n) = Walk!Prefix(p, n)
    BY <1>1, Fronts DEF Paths
  <1>3. Walk!Prefix(p, m) = p /\ Len(b) \in Nat
    BY <1>1, WholePrefix, LenProperties DEF Paths
  <1>4. q.kind = "search" => (Walk!IsPrefix(b, p) <=> Walk!IsPrefix(b, a))
    <2> HAVE q.kind = "search"
    <2>1. Walk!IsPrefix(b, p) <=> Len(b) <= m /\ b = Walk!Prefix(p, Len(b))
      BY <1>1, Above DEF Paths
    <2>2. Walk!IsPrefix(b, a) <=> Len(b) <= m - 1 /\ b = Walk!Prefix(a, Len(b))
      BY <1>1, <1>2, Above DEF Paths
    <2>3. Len(b) <= m - 1 => Walk!Prefix(a, Len(b)) = Walk!Prefix(p, Len(b))
      BY <1>2, <1>3
    <2>4. Len(b) = m /\ b = Walk!Prefix(p, Len(b)) => FALSE
      BY <1>3
    <2>5. Len(b) <= m => Len(b) <= m - 1 \/ Len(b) = m
      BY <1>2, <1>3
    <2>6. Len(b) <= m - 1 => Len(b) <= m
      BY <1>2, <1>3
    <2>7. QED
      BY <2>1, <2>2, <2>3, <2>4, <2>5, <2>6
  <1>5. Exempt(q, b, a) = e /\ e \in Nat /\ e + 1 <= m
    <2>1. Exempt(q, b, a) = e
      BY <1>4 DEF Exempt
    <2>2. CASE q.kind = "search" /\ Walk!IsPrefix(b, p)
      <3>1. Walk!IsPrefix(b, a)
        BY <1>4, <2>2
      <3>2. Len(b) <= m - 1
        BY <1>1, <1>2, <3>1, Above DEF Paths
      <3>3. e = Len(b)
        BY <2>2 DEF Exempt
      <3> HIDE DEF e, m
      <3>4. QED
        BY <1>2, <1>3, <2>1, <3>2, <3>3
    <2>3. CASE ~(q.kind = "search" /\ Walk!IsPrefix(b, p))
      <3>1. e = 0
        BY <2>3 DEF Exempt
      <3> HIDE DEF e, m
      <3>2. QED
        BY <1>2, <2>1, <3>1
    <2>4. QED
      BY <2>2, <2>3
  <1> DEFINE Free(n) == ~Shut(t, q, Walk!Prefix(p, n), IsDir(t, p, n))
  <1>6. Walk!Visible(t, q, b, p) <=> \A n \in e + 1..m : Free(n)
    BY <1>1, VisibleMeans
  <1>7. Walk!Visible(t, q, b, a) <=> \A n \in e + 1..(m - 1) : Free(n)
    <2>1. Walk!Visible(t, q, b, a) <=>
             \A n \in e + 1..(m - 1) : ~Shut(t, q, Walk!Prefix(a, n), IsDir(t, a, n))
      BY <1>1, <1>2, <1>5, VisibleMeans
    <2>2. ASSUME NEW n \in e + 1..(m - 1)
          PROVE  Walk!Prefix(a, n) = Walk!Prefix(p, n) /\ (IsDir(t, a, n) <=> TRUE) /\ (IsDir(t, p, n) <=> TRUE)
      <3>1. n \in 0..(m - 1) /\ n < m /\ (n < m - 1 \/ n = m - 1)
        <4>1. m \in Nat /\ e \in Nat
          BY <1>2, <1>5
        <4> HIDE DEF e, m
        <4>2. QED
          BY <4>1
      <3>2. QED
        BY <1>1, <1>2, <3>1 DEF IsDir
    <2>3. IsDir(t, a, 0) \in BOOLEAN /\ \A n : IsDir(t, a, n) \in BOOLEAN /\ IsDir(t, p, n) \in BOOLEAN
      BY DEF IsDir
    <2>4. \A n \in e + 1..(m - 1) : IsDir(t, a, n) = TRUE /\ IsDir(t, p, n) = TRUE
      BY <2>2, <2>3
    <2>5. QED
      BY <2>1, <2>2, <2>4
  <1>8. Free(m) <=> ~Shut(t, q, p, t[p].kind = "dir")
    <2>1. IsDir(t, p, m) = (t[p].kind = "dir")
      BY <1>2 DEF IsDir
    <2>2. QED
      BY <1>3, <2>1
  <1> HIDE DEF Free, e, m
  <1>9. \A n : n \in e + 1..m <=> n \in e + 1..(m - 1) \/ n = m
    BY <1>2, <1>5
  <1>10. QED
    BY <1>6, <1>7, <1>8, <1>9

\* What is above a visible path is visible, as far as a search looks.
LEMMA VisibleAbove ==
    ASSUME NEW t, Closed(t), NEW q, Controls(q), NEW b \in Paths,
           NEW p \in DOMAIN t, Walk!Visible(t, q, b, p), NEW n \in 0..Len(p),
           q.kind = "search" => Walk!IsPrefix(b, p) /\ Len(b) <= n
    PROVE  Walk!Visible(t, q, b, Walk!Prefix(p, n))
  <1> DEFINE a == Walk!Prefix(p, n)
  <1>1. p \in Paths /\ Len(p) \in Nat /\ a \in Paths /\ Len(a) = n /\ Len(b) \in Nat
    BY Prefixes, LenProperties DEF Closed, Paths
  <1>2. a \in DOMAIN t /\ (n < Len(p) => t[a].kind = "dir")
    BY InTree
  <1>3. \A k \in 0..n : Walk!Prefix(a, k) = Walk!Prefix(p, k)
    BY <1>1, PrefixOfPrefix DEF Paths
  <1>4. q.kind = "search" => Walk!IsPrefix(b, a)
    <2> HAVE q.kind = "search"
    <2>1. Len(b) <= n /\ b = Walk!Prefix(p, Len(b)) /\ Len(b) \in 0..n
      BY <1>1, Above DEF Paths
    <2>2. QED
      BY <1>1, <1>3, <2>1, Above DEF Paths
  <1>5. Exempt(q, b, a) = Exempt(q, b, p) /\ Exempt(q, b, p) \in Nat
    BY <1>1, <1>4 DEF Exempt
  <1> HIDE DEF a
  <1>6. ASSUME NEW k \in Exempt(q, b, a) + 1..Len(a)
        PROVE  ~Shut(t, q, Walk!Prefix(a, k), IsDir(t, a, k))
    <2>1. k \in 0..n /\ k \in Exempt(q, b, p) + 1..Len(p) /\ k <= n /\ n <= Len(p) /\ k \in Nat
      BY <1>1, <1>5
    <2>2. ~Shut(t, q, Walk!Prefix(p, k), IsDir(t, p, k))
      BY <1>1, <2>1, VisibleMeans
    <2>3. IsDir(t, a, k) = IsDir(t, p, k)
      <3>1. CASE n = Len(p)
        <4>1. a = p
          BY <1>1, <3>1, WholePrefix DEF a, Paths
        <4>2. QED
          BY <4>1
      <3>2. CASE n # Len(p)
        <4>1. n < Len(p) /\ k < Len(p) /\ t[a].kind = "dir"
          BY <1>1, <1>2, <2>1, <3>2
        <4>2. QED
          BY <4>1 DEF IsDir
      <3>3. QED
        BY <3>1, <3>2
    <2>4. QED
      BY <1>3, <2>1, <2>2, <2>3
  <1>7. Walk!Visible(t, q, b, a)
    BY <1>1, <1>6, VisibleMeans
  <1>8. QED
    BY <1>7 DEF a

-----------------------------------------------------------------------------
(* The walk: the states of the filters *)

\* The matchers in force in a directory.
Rules(s, q, d) == IF q.gitignore THEN StackAt(s, d) ELSE <<>>

\* What the filters make of a directory.
Ideal(s, q, b, d) == IF Walk!Visible(s, q, b, d) THEN Walk!Ready(Rules(s, q, d)) ELSE Walk!Filtered

SameNode(a, c) == c.kind = a.kind /\ c.readable = a.readable /\ c.rules = a.rules /\ c.lines = a.lines

\* What is left of a tree is as it was, but for where links lead.
Kept(s, t) ==
    /\ Closed(s) /\ Closed(t)
    /\ <<>> \in DOMAIN t /\ t[<<>>].kind = "dir" /\ DOMAIN t \subseteq DOMAIN s
    /\ \A p \in DOMAIN t : SameNode(s[p], t[p])

\* What the filters remember is so.
Remembers(s, q, b, c) ==
    /\ <<>> \in DOMAIN c /\ b \in DOMAIN c /\ DOMAIN c \subseteq Paths
    /\ \A d \in DOMAIN c : c[d] = Ideal(s, q, b, d)

\* What is excluded by the matchers in force above it is shut.
LEMMA ExcludedIs ==
    ASSUME NEW s, NEW q, Controls(q), NEW p, NEW directory
    PROVE  Walk!Excluded(q, Rules(s, q, Walk!Front(p)), p, directory) <=> Shut(s, q, p, directory)
  <1>1. CASE q.gitignore
    BY <1>1 DEF Rules, Shut
  <1>2. CASE ~q.gitignore
    BY <1>2 DEF Shut, Walk!Excluded
  <1>3. QED
    BY <1>1, <1>2

\* Entering a directory brings its own matchers in force.
LEMMA EnteredIs ==
    ASSUME NEW s, Kept(s, tree), NEW q, Controls(q)
    PROVE  /\ Walk!Entered(q, <<>>, <<>>) = Rules(s, q, <<>>)
           /\ \A d \in DOMAIN tree : d # <<>> =>
                 Walk!Entered(q, d, Rules(s, q, Walk!Front(d))) = Rules(s, q, d)
  <1>1. ASSUME NEW d \in DOMAIN tree, NEW above
        PROVE  Walk!Loaded(tree, d, above) = Walk!Loaded(s, d, above)
    <2>1. d \in DOMAIN s /\ SameNode(s[d], tree[d])
      BY DEF Kept
    <2>2. QED
      BY <2>1 DEF Walk!Loaded, SameNode
  <1>2. Walk!Entered(q, <<>>, <<>>) = Rules(s, q, <<>>)
    <2>1. Walk!Loaded(tree, <<>>, <<>>) = StackAt(s, <<>>)
      <3>1. <<>> \in DOMAIN tree /\ <<>> \in Paths
        BY EmptySeq DEF Kept, Paths
      <3>2. QED
        BY <1>1, <3>1, StackAtIs
    <2>2. QED
      BY <2>1 DEF Walk!Entered, Rules
  <1>3. ASSUME NEW d \in DOMAIN tree, d # <<>>
        PROVE  Walk!Entered(q, d, Rules(s, q, Walk!Front(d))) = Rules(s, q, d)
    <2>1. d \in Paths
      BY DEF Kept, Closed
    <2>2. Walk!Loaded(tree, d, StackAt(s, Walk!Front(d))) = StackAt(s, d)
      BY <1>1, <1>3, <2>1, StackAtIs
    <2>3. QED
      BY <2>2 DEF Walk!Entered, Rules
  <1>4. QED
    BY <1>2, <1>3

\* A directory of the tree follows from the one above it.
LEMMA IdealStep ==
    ASSUME NEW s, Kept(s, tree), NEW q, Controls(q), NEW b \in Paths,
           NEW p \in DOMAIN tree, p # <<>>, q.kind = "search" => p # b,
           NEW v, v = Ideal(s, q, b, Walk!Front(p))
    PROVE  /\ Walk!Visible(s, q, b, p) <=> ~v.filtered /\ ~Walk!Excluded(q, v.stack, p, tree[p].kind = "dir")
           /\ ~v.filtered => Walk!Entered(q, p, v.stack) = Rules(s, q, p)
           /\ v.filtered <=> ~Walk!Visible(s, q, b, Walk!Front(p))
           /\ v.filtered => v = Walk!Filtered
  <1>1. p \in DOMAIN s /\ s[p].kind = tree[p].kind /\ Closed(s)
    BY DEF Kept, SameNode
  <1>2. Walk!Visible(s, q, b, p) <=>
           Walk!Visible(s, q, b, Walk!Front(p)) /\ ~Shut(s, q, p, tree[p].kind = "dir")
    BY <1>1, VisibleStep
  <1>3. v.filtered <=> ~Walk!Visible(s, q, b, Walk!Front(p))
    BY DEF Ideal, Walk!Ready, Walk!Filtered
  <1>4. ~v.filtered => v.stack = Rules(s, q, Walk!Front(p))
    BY <1>3 DEF Ideal, Walk!Ready
  <1>5. v.filtered => v = Walk!Filtered
    BY <1>3 DEF Ideal
  <1>6. QED
    BY <1>2, <1>3, <1>4, <1>5, ExcludedIs, EnteredIs

\* final_entry_ignore_stack: every directory on the final path gets what it is due.
LEMMA FinalStatesAre ==
    ASSUME NEW s, Kept(s, tree), NEW q, Controls(q), NEW b \in Paths,
           NEW c, Remembers(s, q, b, c), NEW d \in DOMAIN tree, tree[d].kind = "dir"
    PROVE  \A n \in 0..Len(d) : Walk!FinalStates(q, d, c)[n] = Ideal(s, q, b, Walk!Prefix(d, n))
  <1> DEFINE m == Len(d)
             P(n) == Walk!Prefix(d, n)
             Onward(n, v) == IF P(n) \in DOMAIN c THEN c[P(n)]
                             ELSE IF v.filtered \/ Walk!Excluded(q, v.stack, P(n), TRUE) THEN Walk!Filtered
                             ELSE Walk!Ready(Walk!Entered(q, P(n), v.stack))
             I(n) == Ideal(s, q, b, P(n))
             Goes(f) == f = [n \in 0..m |-> Onward(n, f[n - 1])]
  <1>1. d \in Paths /\ m \in Nat /\ P(0) = <<>>
    BY WholePrefix, LenProperties DEF Kept, Closed, Paths
  <1>2. \A v : Onward(0, v) = I(0)
    BY <1>1 DEF Remembers
  <1>3. ASSUME NEW n \in 1..m
        PROVE  Onward(n, I(n - 1)) = I(n)
    <2>1. CASE P(n) \in DOMAIN c
      BY <2>1 DEF Remembers
    <2>2. CASE P(n) \notin DOMAIN c
      <3>1. n \in 0..m /\ n - 1 \in 0..n /\ n # 0
        BY <1>1
      <3>2. P(n) \in DOMAIN tree /\ Closed(tree) /\ (n < m => tree[P(n)].kind = "dir")
        BY <3>1, InTree DEF Kept
      <3>3. tree[P(n)].kind = "dir"
        <4>1. n < m \/ n = m
          BY <1>1
        <4>2. P(m) = d
          BY <1>1, WholePrefix DEF Paths
        <4>3. QED
          BY <3>2, <4>1, <4>2
      <3>4. P(n) # b
        BY <2>2 DEF Remembers
      <3>5. Len(P(n)) = n /\ P(n) \in Paths
        BY <1>1, <3>1, Prefixes DEF Paths
      <3>6. P(n) # <<>> /\ Walk!Front(P(n)) = P(n - 1)
        <4>1. Walk!Front(P(n)) = Walk!Prefix(P(n), n - 1)
          BY <3>5, WholePrefix DEF Paths
        <4>2. Walk!Prefix(P(n), n - 1) = P(n - 1)
          BY <1>1, <3>1, PrefixOfPrefix DEF Paths
        <4>3. P(n) # <<>>
          BY <3>1, <3>5, WholePrefix DEF Paths
        <4>4. QED
          BY <4>1, <4>2, <4>3
      <3> DEFINE v == I(n - 1)
      <3>7. v = Ideal(s, q, b, Walk!Front(P(n)))
        BY <3>6
      <3> HIDE DEF P, v
      <3>8. /\ Walk!Visible(s, q, b, P(n)) <=> ~v.filtered /\ ~Walk!Excluded(q, v.stack, P(n), TRUE)
            /\ ~v.filtered => Walk!Entered(q, P(n), v.stack) = Rules(s, q, P(n))
        BY <3>2, <3>3, <3>4, <3>6, <3>7, IdealStep
      <3>9. Onward(n, v) = I(n)
        BY <2>2, <3>8 DEF Ideal
      <3>10. QED
        BY <3>9 DEF v
    <2>3. QED
      BY <2>1, <2>2
  <1> HIDE DEF Onward, I, m
  <1> DEFINE i == [n \in 0..m |-> I(n)]
  <1>4. Goes(i)
    <2>1. \A n \in 0..m : I(n) = Onward(n, i[n - 1])
      <3>1. TAKE n \in 0..m
      <3>2. CASE n = 0
        BY <1>2, <3>2
      <3>3. CASE n # 0
        <4>1. n \in 1..m /\ n - 1 \in 0..m
          BY <1>1, <3>3
        <4>2. QED
          BY <1>3, <4>1
      <3>4. QED
        BY <3>2, <3>3
    <2>2. QED
      BY <2>1
  <1> HIDE DEF i
  <1> DEFINE f == CHOOSE h : Goes(h)
  <1>5. Goes(f)
    <2> HIDE DEF Goes
    <2>1. QED
      BY <1>4
  <1>6. Walk!FinalStates(q, d, c) = f
    BY DEF Walk!FinalStates, Onward, m
  <1> HIDE DEF f
  <1>7. \A n \in 0..m : f[n] = Onward(n, f[n - 1])
    BY <1>5, Zenon
  <1> DEFINE Bad == {n \in 0..m : f[n] # I(n)}
  <1>8. ASSUME Bad # {} PROVE FALSE
    <2>1. PICK n \in Bad : \A k \in Bad : n <= k
      <3>1. Bad \in SUBSET Nat
        BY <1>1
      <3> HIDE DEF Bad
      <3>2. QED
        BY <1>8, <3>1, LeastOf
    <2>2. n \in 0..m /\ f[n] # I(n)
      BY <2>1
    <2>3. n # 0
      BY <1>2, <1>7, <2>2
    <2>4. n \in 1..m /\ n - 1 \in 0..m /\ ~(n <= n - 1)
      BY <1>1, <2>2, <2>3
    <2>5. n - 1 \notin Bad
      <3> HIDE DEF Bad
      <3>1. QED
        BY <2>1, <2>4
    <2>6. f[n - 1] = I(n - 1)
      BY <2>4, <2>5
    <2>7. QED
      BY <1>3, <1>7, <2>2, <2>4, <2>6
  <1>9. QED
    BY <1>6, <1>8 DEF I, m

\* An entry that was opened: what is there now.
Entry(e) == e.at \in DOMAIN tree /\ e.kind = tree[e.at].kind /\ e.kind \in {"dir", "file"}

\* final_entry_ignore_stack: an entry passes as what it is where it is, and what
\* the filters remember stays so.
LEMMA FinalIs ==
    ASSUME NEW s, Kept(s, tree), NEW q, Controls(q), NEW b \in DOMAIN s, s[b].kind = "dir",
           NEW c, Remembers(s, q, b, c), NEW e, Entry(e), NEW r, r = Walk!FinalFilter(q, e, c)
    PROVE  /\ r.state.filtered <=> ~Walk!Visible(s, q, b, e.at)
           /\ ~r.state.filtered /\ e.kind = "dir" => r.state.stack = Rules(s, q, e.at)
           /\ Remembers(s, q, b, r.cache)
  <1> DEFINE d == IF e.kind = "dir" THEN e.at ELSE Walk!Front(e.at)
             F == Walk!FinalStates(q, d, c)
             fresh == {Walk!Prefix(d, n) : n \in 0..Len(d)} \ DOMAIN c
             v == F[Len(d)]
  <1>1. e.at \in DOMAIN tree /\ e.at \in Paths /\ b \in Paths /\ Closed(tree) /\ Closed(s)
    BY DEF Entry, Kept, Closed
  <1>2. e.kind = "file" => e.at # <<>> /\ e.at # b
    <2> HAVE e.kind = "file"
    <2>1. tree[e.at].kind = s[e.at].kind /\ tree[e.at].kind # "dir"
      BY DEF Entry, Kept, SameNode
    <2>2. QED
      BY <2>1 DEF Kept
  <1>3. d \in DOMAIN tree /\ tree[d].kind = "dir"
    BY <1>1, <1>2 DEF Entry, Closed
  <1>4. d \in Paths /\ Len(d) \in Nat
    BY <1>1, <1>3, LenProperties DEF Closed, Paths
  <1>5. \A n \in 0..Len(d) : F[n] = Ideal(s, q, b, Walk!Prefix(d, n))
    BY <1>1, <1>3, FinalStatesAre
  <1>6. v = Ideal(s, q, b, d)
    BY <1>4, <1>5, WholePrefix DEF Paths
  <1>7. /\ r.state = IF ~v.filtered /\ e.kind = "file" /\ Walk!Excluded(q, v.stack, e.at, FALSE)
                     THEN Walk!Filtered ELSE v
        /\ r.cache = [x \in DOMAIN c \cup fresh |-> IF x \in fresh THEN F[Len(x)] ELSE c[x]]
    BY DEF Walk!FinalFilter
  <1>8. /\ r.state.filtered <=> ~Walk!Visible(s, q, b, e.at)
        /\ ~r.state.filtered /\ e.kind = "dir" => r.state.stack = Rules(s, q, e.at)
    <2>1. CASE e.kind = "dir"
      <3>1. r.state = Ideal(s, q, b, e.at)
        BY <1>6, <1>7, <2>1
      <3>2. QED
        BY <2>1, <3>1 DEF Ideal, Walk!Ready, Walk!Filtered
    <2>2. CASE e.kind = "file"
      <3>1. v = Ideal(s, q, b, Walk!Front(e.at)) /\ e.at # <<>> /\ e.at # b
        BY <1>2, <1>6, <2>2
      <3>2. tree[e.at].kind = "dir" <=> FALSE
        BY <2>2 DEF Entry
      <3> DEFINE kind == tree[e.at].kind = "dir"
      <3>3. kind = FALSE
        BY <3>2
      <3> HIDE DEF v, kind
      <3>4. Walk!Visible(s, q, b, e.at) <=> ~v.filtered /\ ~Walk!Excluded(q, v.stack, e.at, kind)
        <4>1. Walk!Visible(s, q, b, e.at) <=> ~v.filtered /\ ~Walk!Excluded(q, v.stack, e.at, tree[e.at].kind = "dir")
          BY <1>1, <3>1, IdealStep
        <4>2. QED
          BY <4>1 DEF kind
      <3>5. r.state.filtered <=> v.filtered \/ Walk!Excluded(q, v.stack, e.at, FALSE)
        <4>1. Walk!Filtered.filtered
          BY DEF Walk!Filtered
        <4>2. QED
          BY <1>7, <2>2, <4>1
      <3>6. QED
        BY <2>2, <3>3, <3>4, <3>5
    <2>3. QED
      BY <2>1, <2>2 DEF Entry
  <1>9. Remembers(s, q, b, r.cache)
    <2>1. ASSUME NEW x \in fresh
          PROVE  x \in Paths /\ F[Len(x)] = Ideal(s, q, b, x)
      <3>1. PICK n \in 0..Len(d) : x = Walk!Prefix(d, n)
        OBVIOUS
      <3>2. x \in Paths /\ Len(x) = n
        BY <1>4, <3>1, Prefixes DEF Paths
      <3>3. QED
        BY <1>5, <3>1, <3>2
    <2> HIDE DEF fresh, F
    <2>2. DOMAIN r.cache = DOMAIN c \cup fresh
      BY <1>7
    <2>3. \A x \in DOMAIN r.cache : r.cache[x] = Ideal(s, q, b, x)
      <3>1. TAKE x \in DOMAIN r.cache
      <3>2. r.cache[x] = IF x \in fresh THEN F[Len(x)] ELSE c[x]
        BY <1>7, <2>2
      <3>3. QED
        BY <2>1, <2>2, <3>2 DEF Remembers
    <2>4. QED
      BY <2>1, <2>2, <2>3 DEF Remembers
  <1>10. QED
    BY <1>8, <1>9

\* initial_ignore_stack: a scope is filtered where it really is, and an exact
\* search target is not.
LEMMA InitialIs ==
    ASSUME NEW s, Kept(s, tree), NEW q, Controls(q), q.kind \in {"search", "glob"},
           NEW e, Entry(e), NEW v, v = Walk!InitialFilter(q, e)
    PROVE  /\ v.filtered <=> ~Walk!Visible(s, q, e.at, e.at)
           /\ ~v.filtered /\ e.kind = "dir" => v.stack = Rules(s, q, e.at)
           /\ e.kind = "dir" => v = Ideal(s, q, e.at, e.at)
  <1> DEFINE p == e.at
             m == Len(p)
             P(n) == Walk!Prefix(p, n)
             D(n) == n < m \/ e.kind = "dir"
             Onward(n, u) ==
                 IF n = 0 THEN Walk!Ready(Walk!Entered(q, <<>>, <<>>))
                 ELSE IF u.filtered THEN u
                 ELSE IF q.kind = "glob" /\ Walk!Excluded(q, u.stack, P(n), D(n)) THEN Walk!Filtered
                 ELSE IF D(n) THEN Walk!Ready(Walk!Entered(q, P(n), u.stack)) ELSE u
             J(n) == IF q.kind = "glob" /\ ~Walk!Visible(s, q, p, P(n)) THEN Walk!Filtered
                     ELSE Walk!Ready(Rules(s, q, IF D(n) THEN P(n) ELSE P(n - 1)))
             Goes(f) == f = [n \in 0..m |-> Onward(n, f[n - 1])]
  <1>1. p \in DOMAIN tree /\ p \in Paths /\ Closed(tree) /\ Closed(s)
    BY DEF Entry, Kept, Closed
  <1>2. m \in Nat /\ P(0) = <<>> /\ P(m) = p
    BY <1>1, WholePrefix, LenProperties DEF Paths
  <1>3. m = 0 => e.kind = "dir"
    <2> HAVE m = 0
    <2>1. p = <<>>
      BY <1>2
    <2>2. QED
      BY <2>1 DEF Entry, Kept
  <1>4. \A u : Onward(0, u) = J(0)
    <2>1. D(0) = TRUE
      BY <1>2, <1>3
    <2>2. Walk!Visible(s, q, p, <<>>)
      BY <1>1, VisibleFirst
    <2>3. Walk!Entered(q, <<>>, <<>>) = Rules(s, q, <<>>)
      BY EnteredIs
    <2>4. QED
      BY <1>2, <2>1, <2>2, <2>3
  <1>5. ASSUME NEW n \in 1..m
        PROVE  Onward(n, J(n - 1)) = J(n)
    <2>1. n \in 0..m /\ n - 1 \in 0..n /\ n - 1 \in 0..m /\ n # 0 /\ n - 1 < m
      BY <1>2
    <2>2. P(n) \in DOMAIN tree /\ (n < m => tree[P(n)].kind = "dir")
      BY <1>1, <2>1, InTree
    <2>3. Len(P(n)) = n /\ P(n) \in Paths
      BY <1>1, <2>1, Prefixes DEF Paths
    <2>4. P(n) # <<>> /\ Walk!Front(P(n)) = P(n - 1)
      <3>1. Walk!Front(P(n)) = Walk!Prefix(P(n), n - 1)
        BY <2>3, WholePrefix DEF Paths
      <3>2. Walk!Prefix(P(n), n - 1) = P(n - 1)
        BY <1>1, <2>1, PrefixOfPrefix DEF Paths
      <3>3. P(n) # <<>>
        BY <2>1, <2>3, WholePrefix DEF Paths
      <3>4. QED
        BY <3>1, <3>2, <3>3
    <2>5. D(n) = (tree[P(n)].kind = "dir")
      <3>1. n < m \/ n = m
        BY <1>2
      <3>2. QED
        BY <1>2, <2>2, <3>1 DEF Entry
    <2> DEFINE u == J(n - 1)
    <2>6. D(n - 1) = TRUE
      BY <2>1
    <2>7. u = IF q.kind = "glob" /\ ~Walk!Visible(s, q, p, P(n - 1)) THEN Walk!Filtered
              ELSE Walk!Ready(Rules(s, q, P(n - 1)))
      BY <2>6
    <2> HIDE DEF u, P
    <2>8. CASE q.kind = "glob"
      <3>1. u = Ideal(s, q, p, Walk!Front(P(n)))
        BY <2>4, <2>7, <2>8 DEF Ideal
      <3>2. /\ Walk!Visible(s, q, p, P(n)) <=> ~u.filtered /\ ~Walk!Excluded(q, u.stack, P(n), tree[P(n)].kind = "dir")
            /\ ~u.filtered => Walk!Entered(q, P(n), u.stack) = Rules(s, q, P(n))
            /\ u.filtered <=> ~Walk!Visible(s, q, p, Walk!Front(P(n)))
            /\ u.filtered => u = Walk!Filtered
        <4>1. q.kind = "search" => P(n) # p
          BY <2>8
        <4>2. QED
          BY <1>1, <2>2, <2>4, <3>1, <4>1, IdealStep
      <3>3. ~u.filtered => u = Walk!Ready(Rules(s, q, P(n - 1)))
        BY <2>4, <2>7, <3>2
      <3> HIDE DEF D
      <3>4. Walk!Visible(s, q, p, P(n)) <=> ~u.filtered /\ ~Walk!Excluded(q, u.stack, P(n), D(n))
        BY <2>5, <3>2
      <3>5. D(n) \in BOOLEAN
        BY DEF D
      <3>6. Onward(n, u) = J(n)
        BY <2>1, <2>8, <3>2, <3>3, <3>4, <3>5
      <3>7. QED
        BY <3>6 DEF u
    <2>9. CASE q.kind = "search"
      <3>1. u = Walk!Ready(Rules(s, q, Walk!Front(P(n))))
        BY <2>4, <2>7, <2>9
      <3>2. ~u.filtered /\ u.stack = Rules(s, q, Walk!Front(P(n)))
        BY <3>1 DEF Walk!Ready
      <3>3. Walk!Entered(q, P(n), u.stack) = Rules(s, q, P(n))
        BY <2>2, <2>4, <3>2, EnteredIs
      <3>4. D(n) \in BOOLEAN
        OBVIOUS
      <3> HIDE DEF D
      <3>5. Onward(n, u) = J(n)
        BY <2>1, <2>4, <2>9, <3>1, <3>2, <3>3, <3>4
      <3>6. QED
        BY <3>5 DEF u
    <2>10. QED
      BY <2>8, <2>9
  <1>6. /\ J(m).filtered <=> ~Walk!Visible(s, q, p, p)
        /\ ~J(m).filtered /\ e.kind = "dir" => J(m).stack = Rules(s, q, p)
        /\ e.kind = "dir" => J(m) = Ideal(s, q, p, p)
    <2>1. q.kind = "search" => Walk!Visible(s, q, p, p)
      BY <1>1, VisibleFirst
    <2>2. (q.kind = "glob" /\ ~Walk!Visible(s, q, p, P(m))) <=> ~Walk!Visible(s, q, p, p)
      BY <1>2, <2>1
    <2>3. e.kind = "dir" => D(m) = TRUE
      OBVIOUS
    <2> HIDE DEF D, P
    <2>4. J(m) = IF ~Walk!Visible(s, q, p, p) THEN Walk!Filtered
                 ELSE Walk!Ready(Rules(s, q, IF D(m) THEN P(m) ELSE P(m - 1)))
      BY <2>2
    <2> HIDE DEF J
    <2>5. J(m).filtered <=> ~Walk!Visible(s, q, p, p)
      BY <2>4 DEF Walk!Filtered, Walk!Ready
    <2>6. e.kind = "dir" => J(m) = Ideal(s, q, p, p)
      BY <1>2, <2>3, <2>4 DEF Ideal
    <2>7. ~J(m).filtered /\ e.kind = "dir" => J(m).stack = Rules(s, q, p)
      BY <2>5, <2>6 DEF Ideal, Walk!Ready
    <2>8. QED
      BY <2>5, <2>6, <2>7
  <1> HIDE DEF Onward, J
  <1> DEFINE i == [n \in 0..m |-> J(n)]
  <1>7. Goes(i)
    <2>0. m \in Nat
      BY <1>2
    <2> HIDE DEF m
    <2>1. \A n \in 0..m : J(n) = Onward(n, i[n - 1])
      <3>1. TAKE n \in 0..m
      <3>2. CASE n = 0
        BY <1>4, <3>2
      <3>3. CASE n # 0
        <4>1. n \in 1..m /\ n - 1 \in 0..m
          BY <2>0, <3>3
        <4>2. QED
          BY <1>5, <4>1
      <3>4. QED
        BY <3>2, <3>3
    <2>2. QED
      BY <2>1
  <1> HIDE DEF i
  <1> DEFINE f == CHOOSE h : Goes(h)
  <1>8. Goes(f)
    <2> HIDE DEF Goes
    <2>1. QED
      BY <1>7
  <1>9. v = f[m]
    BY DEF Walk!InitialFilter, Onward, Goes
  <1> HIDE DEF f, m
  <1>10. \A n \in 0..m : f[n] = Onward(n, f[n - 1])
    BY <1>8, Zenon
  <1> DEFINE Bad == {n \in 0..m : f[n] # J(n)}
  <1>11. ASSUME Bad # {} PROVE FALSE
    <2>1. PICK n \in Bad : \A k \in Bad : n <= k
      <3>1. Bad \in SUBSET Nat
        BY <1>2
      <3> HIDE DEF Bad
      <3>2. QED
        BY <1>11, <3>1, LeastOf
    <2>2. n \in 0..m /\ f[n] # J(n)
      BY <2>1
    <2>3. n # 0
      BY <1>4, <1>10, <2>2
    <2>4. n \in 1..m /\ n - 1 \in 0..m /\ ~(n <= n - 1)
      BY <1>2, <2>2, <2>3
    <2>5. n - 1 \notin Bad
      <3> HIDE DEF Bad
      <3>1. QED
        BY <2>1, <2>4
    <2>6. f[n - 1] = J(n - 1)
      BY <2>4, <2>5
    <2>7. QED
      BY <1>5, <1>10, <2>2, <2>4, <2>6
  <1>12. v = J(m)
    <2>1. m \in 0..m
      BY <1>2
    <2>2. QED
      BY <1>9, <1>11, <2>1
  <1>13. QED
    BY <1>6, <1>12

-----------------------------------------------------------------------------
(* The walk: the state in which nothing is passed over *)

WorkerFields ==
    {"phase", "why", "base", "pending", "frame", "seen", "cache", "found", "records", "spent",
     "diagnostics", "entries"}

IsWorker(w) == w = [f \in WorkerFields |-> w[f]]

\* What a query asks for of a tree and the filters admit.
Wanted(s, q, b, p) == Walk!Asked(q, s, b, p) /\ Walk!Visible(s, q, b, p)

\* A file's matching lines, or why there are none.
Told(s, q, w, p) ==
    \/ p \in w.found /\ (q.kind = "search" =>
          {<<p, i>> : i \in Walk!Hits(s[p].lines)} \subseteq w.records)
    \/ [at |-> p, why |-> "binary"] \in w.diagnostics

\* What was found is there, and admitted where it really is.
AllAdmitted(s, q, w) ==
    \A p \in w.found :
        p \in DOMAIN s /\ s[p].kind \in {"dir", "file"} /\ Walk!Visible(s, q, w.base, p)

\* The directories a walk may have before it, each with the matchers it is due.
Agenda(s, q, b) ==
    {[path |-> d, stack |-> Rules(s, q, d)] :
        d \in {x \in DOMAIN s : s[x].kind = "dir" /\ Walk!Visible(s, q, b, x)}}

\* The directory whose names are taken.
AtHand(s, q, w) ==
    /\ w.frame = [path |-> w.frame.path, stack |-> w.frame.stack, names |-> w.frame.names]
    /\ [path |-> w.frame.path, stack |-> w.frame.stack] \in Agenda(s, q, w.base)
    /\ w.frame.names \subseteq Walk!Range(Names)

Walking(s, q, w) ==
    /\ w.base \in DOMAIN s /\ s[w.base].kind = "dir" /\ w.base \in w.seen
    /\ Remembers(s, q, w.base, w.cache)
    /\ w.pending \in Seq(Agenda(s, q, w.base))
    /\ w.phase = "names" => AtHand(s, q, w)

\* The walk has the first n names of a path before it.
Waits(w, p, n) ==
    \/ \E i \in 1..Len(w.pending) : w.pending[i].path = Walk!Prefix(p, n)
    \/ w.phase = "names" /\ w.frame.path = Walk!Prefix(p, n) /\ p[n + 1] \in w.frame.names

\* Below what was seen of a path, the path is told of or something of it waits.
Owed(s, q, w, p, m) ==
    Walk!Prefix(p, m) \in w.seen => Told(s, q, w, p) \/ \E n \in m..(Len(p) - 1) : Waits(w, p, n)

\* While it walks nothing that is wanted is passed over, and in the end all of it
\* is told of.
Complete(s, t, q, w) ==
    /\ w.phase \in {"pop", "names"} =>
          \A p \in DOMAIN t : Wanted(s, q, w.base, p) =>
              Walk!IsPrefix(w.base, p) /\ \A m \in Len(w.base)..Len(p) : Owed(s, q, w, p, m)
    /\ w.phase \in {"walked", "delivered"} =>
          \A p \in DOMAIN t : Wanted(s, q, w.base, p) => Told(s, q, w, p)

WorkInv(s, t, q, w) ==
    /\ IsWorker(w) /\ w.base \in Paths /\ AllAdmitted(s, q, w)
    /\ w.phase = "begin" => w.found = {}
    /\ w.phase \in {"pop", "names"} => Walking(s, q, w)
    /\ Walk!KeepsNoDirectories(s) => Complete(s, t, q, w)

IsNode(n) == n = [kind |-> n.kind, target |-> n.target, readable |-> n.readable,
                  lines |-> n.lines, rules |-> n.rules]

Asking(q) ==
    /\ Controls(q) /\ q.kind \in {"search", "glob"} /\ q.scope \in Paths
    /\ q.exact \in BOOLEAN /\ q.fixed \in BOOLEAN

\* Rules keep or not, and are for directories only or not.
SeqRules(s) ==
    \A d \in DOMAIN s :
        s[d].rules \in Seq([name : STRING, keep : BOOLEAN, directories : BOOLEAN])

WalkInv ==
    /\ Kept(first, tree) /\ \A p \in DOMAIN tree : IsNode(tree[p])
    /\ Asking(query) /\ SeqRules(first)
    /\ WorkInv(first, tree, query, walk)

-----------------------------------------------------------------------------
(* The walk: what its steps rest on *)

\* open_workspace_entry: what was opened is there, and what is there and no link
\* is opened where it is.
LEMMA OpenedIs ==
    ASSUME NEW p, NEW e, e = Walk!Opened(p)
    PROVE  /\ Walk!IsOpen(e) => Entry(e)
           /\ p \in DOMAIN tree /\ tree[p].kind \in {"dir", "file"} =>
                 Walk!IsOpen(e) /\ e.at = p /\ e.kind = tree[p].kind
  BY DEF Walk!Opened, Walk!IsOpen, Entry

\* The next name on a path.
LEMMA NextName ==
    ASSUME NEW p \in Paths, NEW n \in 0..(Len(p) - 1)
    PROVE  /\ p[n + 1] \in Walk!Range(Names) /\ n + 1 \in 0..Len(p)
           /\ Append(Walk!Prefix(p, n), p[n + 1]) = Walk!Prefix(p, n + 1)
           /\ Walk!Front(Walk!Prefix(p, n + 1)) = Walk!Prefix(p, n)
           /\ Walk!Prefix(p, n + 1) # <<>> /\ Walk!Prefix(p, n + 1) \in Paths
           /\ Len(Walk!Prefix(p, n + 1)) = n + 1
  <1> DEFINE a == Walk!Prefix(p, n + 1)
  <1>1. Len(p) \in Nat /\ n + 1 \in 0..Len(p) /\ n + 1 \in 1..(n + 1) /\ n \in 0..(n + 1) /\ n + 1 # 0
        /\ n + 1 \in 1..Len(p) /\ (n + 1) - 1 = n
    BY LenProperties DEF Paths
  <1>2. a \in Paths /\ Len(a) = n + 1 /\ a[n + 1] = p[n + 1]
    BY <1>1, Prefixes DEF Paths
  <1>3. Walk!Prefix(a, n) = Walk!Prefix(p, n)
    BY <1>1, PrefixOfPrefix DEF Paths
  <1> HIDE DEF a
  <1>4. a # <<>> /\ Walk!Last(a) = p[n + 1] /\ Walk!Front(a) = Walk!Prefix(p, n)
    BY <1>1, <1>2, <1>3, WholePrefix DEF Paths
  <1>5. Append(Walk!Front(a), Walk!Last(a)) = a
    BY <1>2, <1>4, Fronts DEF Paths
  <1>6. p[n + 1] \in Walk!Range(Names)
    BY <1>1, ElementOfSeq DEF Paths
  <1>7. QED
    BY <1>1, <1>2, <1>4, <1>5, <1>6 DEF a

\* The last of a list and the others.
LEMMA TakeLast ==
    ASSUME NEW T, NEW l \in Seq(T), l # <<>>
    PROVE  /\ Walk!Front(l) \in Seq(T) /\ Walk!Last(l) \in T
           /\ \A i \in 1..Len(l) :
                 l[i] = Walk!Last(l) \/ \E j \in 1..Len(Walk!Front(l)) : Walk!Front(l)[j] = l[i]
  <1>1. /\ Walk!Front(l) \in Seq(T) /\ Len(Walk!Front(l)) = Len(l) - 1 /\ Walk!Last(l) \in T
        /\ Len(l) \in Nat \ {0}
    BY Fronts
  <1>2. Walk!Front(l) = Walk!Prefix(l, Len(l) - 1) /\ Walk!Last(l) = l[Len(l)]
    BY WholePrefix
  <1>3. PICK k : k = Len(l) - 1
    OBVIOUS
  <1>4. k \in 0..Len(l)
    BY <1>1, <1>3
  <1>5. \A i \in 1..k : Walk!Prefix(l, k)[i] = l[i]
    BY <1>4, Prefixes
  <1>6. \A i \in 1..Len(l) : i = Len(l) \/ i \in 1..k
    BY <1>1, <1>3
  <1>7. QED
    BY <1>1, <1>2, <1>3, <1>5, <1>6

\* More is told of.
Grows(w, v) == w.found \subseteq v.found /\ w.records \subseteq v.records /\ w.diagnostics \subseteq v.diagnostics

LEMMA ToldStays ==
    ASSUME NEW s, NEW q, NEW w, NEW v, Grows(w, v), NEW p, Told(s, q, w, p)
    PROVE  Told(s, q, v, p)
  BY DEF Grows, Told

\* What a visit leaves alone.
Alike(w, v) ==
    /\ v.base = w.base /\ v.pending = w.pending /\ v.frame = w.frame /\ v.seen = w.seen
    /\ v.cache = w.cache

\* A visit tells of an entry that is asked for, or ends the walk.
LEMMA VisitTells ==
    ASSUME NEW s, Kept(s, tree), NEW q, q.kind \in {"search", "glob"}, NEW w, IsWorker(w), AllAdmitted(s, q, w),
           w.phase # "failed", NEW e, Entry(e), Walk!Visible(s, q, w.base, e.at),
           NEW v, v = Walk!Visit(q, w, e)
    PROVE  /\ IsWorker(v) /\ AllAdmitted(s, q, v) /\ Alike(w, v) /\ Grows(w, v)
           /\ v.phase = w.phase \/ v.phase = "failed"
           /\ v.phase # "failed" /\ Walk!Asked(q, s, w.base, e.at) => Told(s, q, v, e.at)
  <1>1. e.at \in DOMAIN s /\ s[e.at].kind = e.kind /\ e.kind \in {"dir", "file"} /\ tree[e.at].lines = s[e.at].lines
    BY DEF Entry, Kept, SameNode
  <1> DEFINE file == Walk!Searched(tree[e.at], w.spent)
             lines == {<<e.at, i>> : i \in file.hits}
             more == [w EXCEPT !.found = @ \cup {e.at}]
             charged == [w EXCEPT !.spent = file.spent]
             all == [charged EXCEPT !.found = @ \cup {e.at}, !.records = @ \cup lines]
             stop == [w EXCEPT !.phase = "failed", !.why = "limit_exceeded"]
             note == [charged EXCEPT !.diagnostics = @ \cup {[at |-> e.at, why |-> "binary"]}]
  <1>2. /\ file.error \in {"binary", "exhausted", "none"}
        /\ file.error = "none" => file.hits = Walk!Hits(s[e.at].lines)
    BY <1>1, Zenon DEF Walk!Searched
  <1>3. CASE v = w /\ ~Walk!Asked(q, s, w.base, e.at)
    BY <1>3 DEF Alike, Grows
  <1>4. CASE v = stop
    <2>1. IsWorker(v) /\ v.phase = "failed" /\ v.found = w.found
      BY <1>4 DEF IsWorker, WorkerFields
    <2>2. Alike(w, v) /\ Grows(w, v)
      BY <1>4 DEF IsWorker, WorkerFields, Alike, Grows
    <2>3. QED
      BY <2>1, <2>2 DEF AllAdmitted, Alike
  <1>5. CASE v = more /\ q.kind = "glob"
    <2>1. IsWorker(v) /\ v.phase = w.phase /\ v.found = w.found \cup {e.at}
      BY <1>5 DEF IsWorker, WorkerFields
    <2>2. Alike(w, v) /\ Grows(w, v)
      BY <1>5 DEF IsWorker, WorkerFields, Alike, Grows
    <2>3. QED
      BY <1>1, <1>5, <2>1, <2>2 DEF AllAdmitted, Alike, Told
  <1>6. CASE v = note
    <2>1. IsWorker(v) /\ v.phase = w.phase /\ v.found = w.found
          /\ [at |-> e.at, why |-> "binary"] \in v.diagnostics
      BY <1>6 DEF IsWorker, WorkerFields
    <2>2. Alike(w, v) /\ Grows(w, v)
      BY <1>6 DEF IsWorker, WorkerFields, Alike, Grows
    <2>3. QED
      BY <2>1, <2>2 DEF AllAdmitted, Alike, Told
  <1>7. CASE v = all /\ file.error = "none"
    <2>0. lines = {<<e.at, i>> : i \in Walk!Hits(s[e.at].lines)}
      BY <1>2, <1>7
    <2> HIDE DEF lines
    <2>1. IsWorker(v) /\ v.phase = w.phase /\ v.found = w.found \cup {e.at}
          /\ v.records = w.records \cup lines /\ v.diagnostics = w.diagnostics
          /\ v.base = w.base /\ v.pending = w.pending /\ v.frame = w.frame /\ v.seen = w.seen
          /\ v.cache = w.cache
      BY <1>7 DEF IsWorker, WorkerFields
    <2>2. Alike(w, v) /\ Grows(w, v)
      BY <2>1, Zenon DEF Alike, Grows
    <2>3. Told(s, q, v, e.at)
      BY <2>0, <2>1 DEF Told
    <2>4. QED
      BY <1>1, <2>1, <2>2, <2>3 DEF AllAdmitted, Alike
  <1>8. CASE q.kind = "glob"
    <2>1. v = IF ~Walk!GlobMatches(q, e.at) THEN w
              ELSE IF Walk!Cardinality(w.found) = WalkRecords THEN stop ELSE more
      BY <1>8 DEF Walk!Visit, Walk!Failed
    <2> HIDE DEF stop, more
    <2>2. QED
      BY <1>3, <1>4, <1>5, <1>8, <2>1 DEF Walk!Asked
  <1>9. CASE q.kind = "search"
    <2>1. v = IF e.kind = "dir" THEN w
              ELSE CASE file.error = "exhausted" -> stop
                     [] file.error = "binary" -> note
                     [] OTHER -> all
      BY <1>9 DEF Walk!Visit, Walk!Failed, Walk!Diagnosed
    <2> HIDE DEF stop, note, all, file
    <2>2. CASE e.kind = "dir"
      BY <1>1, <1>3, <1>9, <2>1, <2>2 DEF Walk!Asked
    <2>3. CASE e.kind = "file"
      BY <1>2, <1>4, <1>6, <1>7, <2>1, <2>3
    <2>4. QED
      BY <1>1, <2>2, <2>3
  <1>10. QED
    BY <1>8, <1>9

-----------------------------------------------------------------------------
(* The walk: rules for directories only *)

\* The last of some numbers.
LEMMA WalkMax ==
    ASSUME NEW N \in Nat, NEW S \in SUBSET (1..N), S # {}
    PROVE  Walk!Max(S) \in S /\ \A y \in S : y <= Walk!Max(S)
  <1>1. S \in SUBSET (0..N)
    OBVIOUS
  <1>2. \E x \in S : \A y \in S : x >= y
    BY <1>1, GreatestIn
  <1>3. \A x \in S : x \in Nat
    OBVIOUS
  <1>4. Walk!Max(S) \in S /\ \A y \in S : Walk!Max(S) >= y
    BY <1>2, Zenon DEF Walk!Max
  <1>5. QED
    BY <1>3, <1>4

\* The rules of a list that match, and the lists that have one.
Deciding(rules, p, directory) == {j \in 1..Len(rules) : Walk!Matches(rules[j], p, directory)}
Lists(stack, p, directory) == {i \in 1..Len(stack) : Deciding(stack[i], p, directory) # {}}

LEMMA IgnoredIs ==
    ASSUME NEW stack, NEW p, NEW directory
    PROVE  Walk!Ignored(stack, p, directory) <=>
              /\ Lists(stack, p, directory) # {}
              /\ ~stack[Walk!Max(Lists(stack, p, directory))]
                    [Walk!Max(Deciding(stack[Walk!Max(Lists(stack, p, directory))], p, directory))].keep
  BY DEF Walk!Ignored, Deciding, Lists

\* Where no rule keeps directories only, a name that is ignored as a file is
\* ignored as a directory.
LEMMA IgnoredAnyway ==
    ASSUME NEW s, SeqRules(s), Walk!KeepsNoDirectories(s), NEW stack \in Seq(RuleLists(s)), NEW p,
           Walk!Ignored(stack, p, FALSE)
    PROVE  Walk!Ignored(stack, p, TRUE)
  <1> DEFINE F == Lists(stack, p, FALSE)
             T == Lists(stack, p, TRUE)
             f == Walk!Max(F)
             t == Walk!Max(T)
             df == Deciding(stack[f], p, FALSE)
             dt == Deciding(stack[t], p, TRUE)
             j == Walk!Max(df)
             k == Walk!Max(dt)
  <1>1. F # {} /\ ~stack[f][j].keep
    BY IgnoredIs
  <1>2. Len(stack) \in Nat /\ \A i \in 1..Len(stack) : stack[i] \in RuleLists(s)
    BY LenProperties, ElementOfSeq
  <1>3. ASSUME NEW i \in 1..Len(stack)
        PROVE  /\ Len(stack[i]) \in Nat
               /\ \A n \in 1..Len(stack[i]) : ~(stack[i][n].keep /\ stack[i][n].directories)
    <2>1. PICK d \in DOMAIN s : stack[i] = s[d].rules
      BY <1>2 DEF RuleLists
    <2>2. stack[i] \in Seq([name : STRING, keep : BOOLEAN, directories : BOOLEAN])
      BY <2>1 DEF SeqRules
    <2>3. Len(stack[i]) \in Nat /\ DOMAIN stack[i] = 1..Len(stack[i])
      BY <2>2, LenProperties
    <2>4. \A rule \in Walk!Range(s[d].rules) : ~(rule.keep /\ rule.directories)
      BY DEF Walk!KeepsNoDirectories
    <2>5. \A n \in 1..Len(stack[i]) : stack[i][n] \in Walk!Range(s[d].rules)
      BY <2>1, <2>3 DEF Walk!Range
    <2>6. QED
      BY <2>3, <2>4, <2>5
  <1>4. \A i : Deciding(stack[i], p, FALSE) \subseteq Deciding(stack[i], p, TRUE)
    BY DEF Deciding, Walk!Matches
  <1>5. F \subseteq T /\ F \in SUBSET (1..Len(stack)) /\ T \in SUBSET (1..Len(stack)) /\ T # {}
    BY <1>1, <1>4 DEF Lists
  <1>6. f \in F /\ \A i \in F : i <= f
    <2> HIDE DEF F
    <2>1. QED
      BY <1>1, <1>2, <1>5, WalkMax
  <1>7. t \in T /\ \A i \in T : i <= t
    <2> HIDE DEF T
    <2>1. QED
      BY <1>2, <1>5, WalkMax
  <1>8. f \in 1..Len(stack) /\ t \in 1..Len(stack) /\ df # {} /\ dt # {} /\ f <= t
    BY <1>5, <1>6, <1>7 DEF Lists
  <1>9. j \in df /\ \A i \in df : i <= j
    <2>1. Len(stack[f]) \in Nat /\ df \in SUBSET (1..Len(stack[f]))
      BY <1>3, <1>8 DEF Deciding
    <2> HIDE DEF df
    <2>2. QED
      BY <1>8, <2>1, WalkMax
  <1>10. k \in dt /\ \A i \in dt : i <= k
    <2>1. Len(stack[t]) \in Nat /\ dt \in SUBSET (1..Len(stack[t]))
      BY <1>3, <1>8 DEF Deciding
    <2> HIDE DEF dt
    <2>2. QED
      BY <1>8, <2>1, WalkMax
  <1>11. k \in 1..Len(stack[t]) /\ Walk!Matches(stack[t][k], p, TRUE)
    BY <1>10 DEF Deciding
  <1>12. ~stack[t][k].keep
    <2>1. CASE stack[t][k].directories
      BY <1>3, <1>8, <1>11, <2>1
    <2>2. CASE ~stack[t][k].directories
      <3>1. Walk!Matches(stack[t][k], p, FALSE)
        BY <1>11, <2>2 DEF Walk!Matches
      <3>2. k \in Deciding(stack[t], p, FALSE)
        BY <1>11, <3>1 DEF Deciding
      <3>3. t \in F
        BY <1>8, <3>2 DEF Lists
      <3> HIDE DEF F, T, f, t, df, dt, j, k
      <3>4. t = f
        BY <1>6, <1>8, <3>3
      <3>5. k \in df /\ df \subseteq dt
        BY <1>4, <3>2, <3>4 DEF df, dt
      <3>6. j \in 1..Len(stack[t]) /\ k \in 1..Len(stack[t])
        BY <1>9, <1>11, <3>4 DEF df, Deciding
      <3>7. k = j
        BY <1>9, <1>10, <3>5, <3>6
      <3>8. QED
        BY <1>1, <3>4, <3>7
    <2>3. QED
      BY <2>1, <2>2
  <1>13. QED
    BY <1>5, <1>12, IgnoredIs

\* What is shut as a file is shut.
LEMMA ShutAnyway ==
    ASSUME NEW s, SeqRules(s), Walk!KeepsNoDirectories(s), NEW q, NEW p \in Paths, p # <<>>,
           Shut(s, q, p, FALSE), NEW directory \in BOOLEAN
    PROVE  Shut(s, q, p, directory)
  <1>1. StackAt(s, Walk!Front(p)) \in Seq(RuleLists(s))
    <2>1. Walk!Front(p) \in Paths
      BY Fronts DEF Paths
    <2>2. QED
      BY <2>1, StackAtIs
  <1>2. CASE directory = TRUE
    BY <1>1, <1>2, IgnoredAnyway DEF Shut, Walk!Excluded
  <1>3. QED
    BY <1>2

-----------------------------------------------------------------------------
(* The walk: names *)

\* The name that is taken is one of those that are left.
LEMMA EarliestIn ==
    ASSUME NEW names \in SUBSET Walk!Range(Names), names # {}
    PROVE  Walk!Earliest(names) \in names
  <1> DEFINE S == {i \in DOMAIN Names : Names[i] \in names}
  <1>1. DOMAIN Names \subseteq Nat
    <2>1. Names \in Seq(Walk!Range(Names))
      BY TreeAssumption
    <2>2. DOMAIN Names = 1..Len(Names) /\ Len(Names) \in Nat
      BY <2>1, LenProperties
    <2>3. QED
      BY <2>2
  <1>2. S \in SUBSET Nat /\ S # {}
    <2>1. \E i \in DOMAIN Names : Names[i] \in names
      BY DEF Walk!Range
    <2>2. QED
      BY <1>1, <2>1
  <1>3. \E x \in S : \A y \in S : x <= y
    <2> HIDE DEF S
    <2>1. QED
      BY <1>2, LeastOf
  <1>4. Walk!Min(S) \in S
    <2> HIDE DEF S
    <2>1. QED
      BY <1>3, Zenon DEF Walk!Min
  <1>5. QED
    BY <1>4 DEF Walk!Earliest

\* Every name on the way to a path that is wanted is open to the walk.
LEMMA WayOpen ==
    ASSUME NEW s, Kept(s, tree), NEW q, Asking(q), NEW b \in Paths, NEW p \in DOMAIN tree,
           Wanted(s, q, b, p), Walk!IsPrefix(b, p), NEW n \in Len(b)..(Len(p) - 1),
           NEW a, a = Walk!Prefix(p, n + 1)
    PROVE  /\ a \in DOMAIN tree /\ tree[a].kind \in {"dir", "file"}
           /\ Walk!Visible(s, q, b, a) /\ ~Shut(s, q, a, tree[a].kind = "dir")
           /\ a # p => n + 1 < Len(p) /\ tree[a].kind = "dir"
           /\ Walk!Prefix(p, n) \in DOMAIN tree /\ tree[Walk!Prefix(p, n)].kind = "dir"
           /\ a # <<>> /\ a \in Paths /\ Walk!Front(a) = Walk!Prefix(p, n)
           /\ p[n + 1] \in Walk!Range(Names) /\ Append(Walk!Prefix(p, n), p[n + 1]) = a
  <1>1. p \in Paths /\ Len(b) \in Nat /\ Len(p) \in Nat /\ p \in DOMAIN s /\ Closed(s) /\ Closed(tree)
    BY LenProperties DEF Kept, Closed, Paths
  <1>2. n \in 0..(Len(p) - 1) /\ n \in 0..Len(p) /\ n < Len(p) /\ Len(b) <= n + 1 /\ n \in Nat
        /\ (n + 1 < Len(p) \/ n + 1 = Len(p))
    BY <1>1
  <1>3. /\ n + 1 \in 0..Len(p) /\ a # <<>> /\ a \in Paths /\ Len(a) = n + 1
        /\ Walk!Front(a) = Walk!Prefix(p, n)
        /\ p[n + 1] \in Walk!Range(Names) /\ Append(Walk!Prefix(p, n), p[n + 1]) = a
    BY <1>1, <1>2, NextName
  <1>4. a \in DOMAIN tree /\ (n + 1 < Len(p) => tree[a].kind = "dir")
    BY <1>1, <1>3, InTree
  <1>5. n + 1 = Len(p) => a = p
    BY <1>1, WholePrefix DEF Paths
  <1>6. s[p].kind \in {"dir", "file"} /\ tree[p].kind = s[p].kind
    <2>1. tree[p].kind = s[p].kind
      BY DEF Kept, SameNode
    <2>2. s[p].kind \in {"dir", "file"}
      BY DEF Wanted, Walk!Asked, Asking
    <2>3. QED
      BY <2>1, <2>2
  <1>7. Walk!Visible(s, q, b, a)
    <2>1. Walk!Visible(s, q, b, p) /\ Controls(q)
      BY DEF Wanted, Asking
    <2>2. QED
      BY <1>1, <1>2, <1>3, <2>1, VisibleAbove
  <1>8. a \in DOMAIN s /\ s[a].kind = tree[a].kind
    BY <1>4 DEF Kept, SameNode
  <1>9. a # b
    <2>1. Len(a) # Len(b)
      BY <1>1, <1>2, <1>3
    <2>2. QED
      BY <2>1
  <1>10. ~Shut(s, q, a, tree[a].kind = "dir")
    <2>1. Controls(q)
      BY DEF Asking
    <2>2. ~Shut(s, q, a, s[a].kind = "dir")
      BY <1>1, <1>3, <1>7, <1>8, <1>9, <2>1, VisibleStep
    <2>3. QED
      BY <1>8, <2>2
  <1>11. Walk!Prefix(p, n) \in DOMAIN tree /\ tree[Walk!Prefix(p, n)].kind = "dir"
    BY <1>1, <1>2, InTree
  <1>12. QED
    BY <1>2, <1>3, <1>4, <1>5, <1>6, <1>7, <1>10, <1>11

-----------------------------------------------------------------------------
(* The walk: its steps *)

\* What waited of a path waits still, or more of it does, or it is told of.
Passes(s, q, w, v, p) ==
    \A n \in Len(w.base)..(Len(p) - 1) : Waits(w, p, n) =>
        Told(s, q, v, p) \/ \E k \in n..(Len(p) - 1) : Waits(v, p, k)

\* What was not seen before is told of, or waits.
Arrives(s, q, w, v, p) ==
    \A m \in Len(w.base)..Len(p) : Walk!Prefix(p, m) \in v.seen \ w.seen =>
        Told(s, q, v, p) \/ \E k \in m..(Len(p) - 1) : Waits(v, p, k)

\* A step by which a walk goes on.
WalkGoes(s, q, w, v) ==
    /\ IsWorker(v) /\ v.base = w.base /\ AllAdmitted(s, q, v) /\ Grows(w, v)
    /\ v.phase \in {"pop", "names"} /\ Walking(s, q, v)

LEMMA WalkOn ==
    ASSUME NEW s, Kept(s, tree), NEW q, NEW w, WorkInv(s, tree, q, w), w.phase \in {"pop", "names"},
           NEW v, WalkGoes(s, q, w, v),
           Walk!KeepsNoDirectories(s) =>
              \A p \in DOMAIN tree : Wanted(s, q, w.base, p) /\ Walk!IsPrefix(w.base, p) =>
                  Passes(s, q, w, v, p) /\ Arrives(s, q, w, v, p)
    PROVE  WorkInv(s, tree, q, v)
  <1>1. v.base = w.base /\ w.base \in Paths /\ v.phase \in {"pop", "names"} /\ Grows(w, v)
    BY DEF WalkGoes, WorkInv
  <1>2. ASSUME Walk!KeepsNoDirectories(s), NEW p \in DOMAIN tree, Wanted(s, q, w.base, p)
        PROVE  Walk!IsPrefix(w.base, p) /\ \A m \in Len(w.base)..Len(p) : Owed(s, q, v, p, m)
    <2>1. Walk!IsPrefix(w.base, p) /\ \A m \in Len(w.base)..Len(p) : Owed(s, q, w, p, m)
      BY <1>2 DEF WorkInv, Complete
    <2>2. Passes(s, q, w, v, p) /\ Arrives(s, q, w, v, p)
      BY <1>2, <2>1
    <2>3. Len(w.base) \in Nat /\ Len(p) \in Nat
      BY <1>1, LenProperties DEF Paths, Kept, Closed
    <2>4. ASSUME NEW m \in Len(w.base)..Len(p), Walk!Prefix(p, m) \in v.seen, ~Told(s, q, v, p)
          PROVE  \E k \in m..(Len(p) - 1) : Waits(v, p, k)
      <3>1. CASE Walk!Prefix(p, m) \in w.seen
        <4>1. ~Told(s, q, w, p)
          BY <1>1, <2>4, ToldStays
        <4>2. PICK n \in m..(Len(p) - 1) : Waits(w, p, n)
          BY <2>1, <2>4, <3>1, <4>1 DEF Owed
        <4>3. n \in Len(w.base)..(Len(p) - 1)
          BY <2>3
        <4>4. PICK k \in n..(Len(p) - 1) : Waits(v, p, k)
          BY <2>2, <2>4, <4>2, <4>3 DEF Passes
        <4>5. k \in m..(Len(p) - 1)
          BY <2>3
        <4>6. QED
          BY <4>4, <4>5
      <3>2. CASE Walk!Prefix(p, m) \notin w.seen
        BY <2>2, <2>4, <3>2 DEF Arrives
      <3>3. QED
        BY <3>1, <3>2
    <2>5. QED
      BY <2>1, <2>4 DEF Owed
  <1>3. Walk!KeepsNoDirectories(s) => Complete(s, tree, q, v)
    <2> HAVE Walk!KeepsNoDirectories(s)
    <2>1. v.phase \notin {"walked", "delivered"}
      BY <1>1
    <2>2. QED
      BY <1>1, <1>2, <2>1 DEF Complete
  <1>4. v.phase # "begin"
    BY <1>1
  <1>5. QED
    BY <1>1, <1>3, <1>4 DEF WorkInv, WalkGoes

\* A walk that fails owes nothing.
LEMMA WalkFails ==
    ASSUME NEW s, NEW t, NEW q, NEW v, IsWorker(v), v.base \in Paths, AllAdmitted(s, q, v), v.phase = "failed"
    PROVE  WorkInv(s, t, q, v)
  BY DEF WorkInv, Complete

\* The next directory comes off the stack.
LEMMA PopStep ==
    ASSUME NEW s, Kept(s, tree), NEW q, Asking(q), WorkInv(s, tree, q, walk), Walk!Pop
    PROVE  WorkInv(s, tree, q, walk')
  <1> DEFINE b == walk.base
             F == Walk!Last(walk.pending)
             entry == Walk!Opened(F.path)
             names == {n \in Walk!Range(Names) : Append(entry.at, n) \in DOMAIN tree}
             rest == Walk!Front(walk.pending)
             w == [walk EXCEPT !.pending = Walk!Front(@)]
             went == [w EXCEPT !.phase = "names", !.entries = @ + Walk!Cardinality(names),
                               !.frame = [path |-> F.path, stack |-> F.stack, names |-> names]]
             said(d) == [w EXCEPT !.diagnostics = @ \cup {d}]
             stop == [w EXCEPT !.phase = "failed", !.why = "limit_exceeded"]
  <1>1. walk.phase = "pop" /\ walk.pending # <<>>
    BY DEF Walk!Pop
  <1>2. IsWorker(walk) /\ b \in Paths /\ AllAdmitted(s, q, walk) /\ Walking(s, q, walk)
    BY <1>1 DEF WorkInv
  <1>3. /\ rest \in Seq(Agenda(s, q, b)) /\ F \in Agenda(s, q, b)
        /\ \A i \in 1..Len(walk.pending) :
              walk.pending[i] = F \/ \E j \in 1..Len(rest) : rest[j] = walk.pending[i]
    BY <1>1, <1>2, TakeLast DEF Walking
  <1>4. PICK d \in DOMAIN s : s[d].kind = "dir" /\ F = [path |-> d, stack |-> Rules(s, q, d)]
    BY <1>3 DEF Agenda
  <1>5. d \in DOMAIN tree => Walk!IsOpen(entry) /\ entry.kind = "dir" /\ entry.at = d
    <2> HAVE d \in DOMAIN tree
    <2>1. tree[d].kind = "dir" /\ F.path = d
      BY <1>4 DEF Kept, SameNode
    <2>2. QED
      BY <2>1, OpenedIs
  <1>7. \/ walk' = stop
        \/ d \notin DOMAIN tree /\ \E x : walk' = said(x)
        \/ walk' = went /\ entry.kind = "dir"
    <2>1. walk' = IF entry.kind = "file" THEN Walk!Diagnosed(w, entry.at, "source_unavailable")
                  ELSE IF ~Walk!IsOpen(entry) THEN Walk!Diagnosed(w, F.path, entry.kind)
                  ELSE IF walk.entries + Walk!Cardinality(names) > MaxEntries
                  THEN Walk!Failed(w, "limit_exceeded") ELSE went
      BY DEF Walk!Pop
    <2>2. (\A x, y : Walk!Diagnosed(w, x, y) = said([at |-> x, why |-> y]))
          /\ Walk!Failed(w, "limit_exceeded") = stop
      BY DEF Walk!Diagnosed, Walk!Failed
    <2> HIDE DEF names, rest, w, F, entry, went, said, stop
    <2>4. CASE entry.kind = "file"
      <3>1. walk' = Walk!Diagnosed(w, entry.at, "source_unavailable")
        BY <2>1, <2>4
      <3>2. d \notin DOMAIN tree
        BY <1>5, <2>4
      <3>3. QED
        BY <2>2, <3>1, <3>2
    <2>5. CASE entry.kind # "file" /\ ~Walk!IsOpen(entry)
      <3>1. walk' = Walk!Diagnosed(w, F.path, entry.kind)
        BY <2>1, <2>5
      <3>2. d \notin DOMAIN tree
        BY <1>5, <2>5
      <3>3. QED
        BY <2>2, <3>1, <3>2
    <2>6. CASE entry.kind # "file" /\ Walk!IsOpen(entry)
      <3>1. entry.kind = "dir"
        BY <2>6 DEF Walk!IsOpen
      <3>2. QED
        BY <2>1, <2>2, <2>6, <3>1
    <2>7. QED
      BY <2>4, <2>5, <2>6
  <1>8. CASE walk' = stop
    <2> HIDE DEF rest
    <2>1. IsWorker(walk') /\ walk'.base = b /\ walk'.found = walk.found /\ walk'.phase = "failed"
      BY <1>2, <1>8 DEF IsWorker, WorkerFields
    <2>2. AllAdmitted(s, q, walk')
      BY <1>2, <2>1 DEF AllAdmitted
    <2>3. QED
      BY <1>2, <2>1, <2>2, WalkFails
  <1>9. ASSUME NEW p \in DOMAIN tree, Wanted(s, q, b, p), Walk!IsPrefix(b, p),
               NEW n \in Len(b)..(Len(p) - 1), Waits(walk, p, n)
        PROVE  \/ \E j \in 1..Len(rest) : rest[j].path = Walk!Prefix(p, n)
               \/ d = Walk!Prefix(p, n) /\ d \in DOMAIN tree /\ p[n + 1] \in names
    <2>1. PICK i \in 1..Len(walk.pending) : walk.pending[i].path = Walk!Prefix(p, n)
      BY <1>1, <1>9 DEF Waits
    <2>2. CASE walk.pending[i] = F
      <3>1. d = Walk!Prefix(p, n)
        BY <1>4, <2>1, <2>2
      <3>2. PICK a : a = Walk!Prefix(p, n + 1)
        OBVIOUS
      <3>3. d \in DOMAIN tree /\ p[n + 1] \in Walk!Range(Names) /\ Append(d, p[n + 1]) \in DOMAIN tree
        <4>1. /\ a \in DOMAIN tree /\ Walk!Prefix(p, n) \in DOMAIN tree
              /\ p[n + 1] \in Walk!Range(Names) /\ Append(Walk!Prefix(p, n), p[n + 1]) = a
          BY <1>2, <1>9, <3>2, WayOpen
        <4>2. QED
          BY <3>1, <4>1
      <3>4. entry.at = d
        BY <1>5, <3>3
      <3>5. QED
        BY <3>1, <3>3, <3>4
    <2>3. CASE walk.pending[i] # F
      BY <1>3, <2>1, <2>3
    <2>4. QED
      BY <2>2, <2>3
  <1>10. CASE d \notin DOMAIN tree /\ \E x : walk' = said(x)
    <2> PICK x : walk' = said(x)
      BY <1>10
    <2> HIDE DEF rest
    <2>1. /\ IsWorker(walk') /\ walk'.base = b /\ walk'.phase = "pop" /\ walk'.cache = walk.cache
          /\ walk'.seen = walk.seen /\ walk'.pending = rest /\ walk'.found = walk.found
      BY <1>1, <1>2 DEF IsWorker, WorkerFields, rest
    <2>2. Grows(walk, walk')
      BY <1>2 DEF IsWorker, WorkerFields, Grows
    <2>3. WalkGoes(s, q, walk, walk')
      BY <1>2, <1>3, <2>1, <2>2 DEF WalkGoes, Walking, AllAdmitted
    <2>4. ASSUME NEW p \in DOMAIN tree, Wanted(s, q, b, p), Walk!IsPrefix(b, p)
          PROVE  Passes(s, q, walk, walk', p) /\ Arrives(s, q, walk, walk', p)
      <3>1. ASSUME NEW n \in Len(b)..(Len(p) - 1), Waits(walk, p, n)
            PROVE  n \in n..(Len(p) - 1) /\ Waits(walk', p, n)
        <4>1. \E j \in 1..Len(rest) : rest[j].path = Walk!Prefix(p, n)
          BY <1>9, <1>10, <2>4, <3>1
        <4>2. Waits(walk', p, n)
          BY <2>1, <4>1 DEF Waits
        <4>3. Len(b) \in Nat /\ Len(p) \in Nat
          BY <1>2, LenProperties DEF Paths, Kept, Closed
        <4>4. n \in n..(Len(p) - 1)
          BY <4>3
        <4>5. QED
          BY <4>2, <4>4
      <3>2. QED
        BY <2>1, <3>1 DEF Passes, Arrives
    <2>5. QED
      BY <1>1, <2>3, <2>4, WalkOn
  <1>11. CASE walk' = went /\ entry.kind = "dir"
    <2>1. names \subseteq Walk!Range(Names)
      OBVIOUS
    <2> HIDE DEF rest, names, entry
    <2>2. /\ IsWorker(walk') /\ walk'.base = b /\ walk'.phase = "names" /\ walk'.cache = walk.cache
          /\ walk'.seen = walk.seen /\ walk'.pending = rest /\ walk'.found = walk.found
          /\ walk'.frame = [path |-> F.path, stack |-> F.stack, names |-> names]
      BY <1>2, <1>11 DEF IsWorker, WorkerFields, rest
    <2>3. AtHand(s, q, walk')
      <3>1. [path |-> F.path, stack |-> F.stack] = F
        BY <1>4
      <3> HIDE DEF F
      <3>2. QED
        BY <1>3, <2>1, <2>2, <3>1 DEF AtHand
    <2>4. WalkGoes(s, q, walk, walk')
      <3>1. Grows(walk, walk')
        BY <1>2, <1>11 DEF IsWorker, WorkerFields, Grows
      <3>2. Walking(s, q, walk')
        BY <1>2, <1>3, <2>2, <2>3 DEF Walking
      <3>3. QED
        BY <1>2, <2>2, <3>1, <3>2 DEF WalkGoes, AllAdmitted
    <2>5. ASSUME NEW p \in DOMAIN tree, Wanted(s, q, b, p), Walk!IsPrefix(b, p)
          PROVE  Passes(s, q, walk, walk', p) /\ Arrives(s, q, walk, walk', p)
      <3>1. ASSUME NEW n \in Len(b)..(Len(p) - 1), Waits(walk, p, n)
            PROVE  n \in n..(Len(p) - 1) /\ Waits(walk', p, n)
        <4>1. \/ \E j \in 1..Len(rest) : rest[j].path = Walk!Prefix(p, n)
              \/ F.path = Walk!Prefix(p, n) /\ p[n + 1] \in names
          <5>1. F.path = d
            BY <1>4
          <5>2. QED
            BY <1>9, <2>5, <3>1, <5>1
        <4>2. Waits(walk', p, n)
          BY <2>2, <4>1 DEF Waits
        <4>3. Len(b) \in Nat /\ Len(p) \in Nat
          BY <1>2, LenProperties DEF Paths, Kept, Closed
        <4>4. n \in n..(Len(p) - 1)
          BY <4>3
        <4>5. QED
          BY <4>2, <4>4
      <3>2. QED
        BY <2>2, <3>1 DEF Passes, Arrives
    <2>6. QED
      BY <1>1, <2>4, <2>5, WalkOn
  <1>12. QED
    BY <1>7, <1>8, <1>10, <1>11

\* A name that is let through.
LetThrough(q, w, path, e) ==
    /\ ~Walk!Excluded(q, w.frame.stack, path, FALSE) /\ Walk!IsOpen(e)
    /\ ~(q.gitignore /\ Walk!Ignored(w.frame.stack, path, e.kind = "dir"))
    /\ ~Walk!FinalFilter(q, e, w.cache).state.filtered

\* A path that is wanted, and the next name on the way to it at hand.
OnTheWay(s, q, w, p, n) ==
    /\ p \in DOMAIN tree /\ Wanted(s, q, w.base, p) /\ Walk!IsPrefix(w.base, p)
    /\ n \in Len(w.base)..(Len(p) - 1) /\ w.frame.path = Walk!Prefix(p, n)

NextTo(w, p, n, path, e) == path = Append(w.frame.path, p[n + 1]) /\ e = Walk!Opened(path)

\* What is reached is the path, or a directory above it.
Reaches(p, n, path, e) ==
    /\ path = Walk!Prefix(p, n + 1) /\ e.at = path
    /\ path # p => n + 1 < Len(p) /\ e.kind = "dir"

\* The next name on the way to a path that is wanted is let through.
LEMMA NameOpen ==
    ASSUME NEW s, Kept(s, tree), SeqRules(s), Walk!KeepsNoDirectories(s), NEW q, Asking(q),
           NEW w, Walking(s, q, w), AtHand(s, q, w), w.base \in Paths,
           NEW p, NEW n, OnTheWay(s, q, w, p, n), NEW path, NEW e, NextTo(w, p, n, path, e)
    PROVE  LetThrough(q, w, path, e) /\ Reaches(p, n, path, e)
  <1>0. /\ p \in DOMAIN tree /\ Wanted(s, q, w.base, p) /\ Walk!IsPrefix(w.base, p)
        /\ n \in Len(w.base)..(Len(p) - 1) /\ w.frame.path = Walk!Prefix(p, n)
        /\ path = Append(w.frame.path, p[n + 1]) /\ e = Walk!Opened(path)
    BY DEF OnTheWay, NextTo
  <1>1. PICK a : a = Walk!Prefix(p, n + 1)
    OBVIOUS
  <1>2. /\ a \in DOMAIN tree /\ tree[a].kind \in {"dir", "file"}
        /\ Walk!Visible(s, q, w.base, a) /\ ~Shut(s, q, a, tree[a].kind = "dir")
        /\ a # p => n + 1 < Len(p) /\ tree[a].kind = "dir"
        /\ a # <<>> /\ a \in Paths /\ Walk!Front(a) = Walk!Prefix(p, n)
        /\ Append(Walk!Prefix(p, n), p[n + 1]) = a
    BY <1>0, <1>1, WayOpen
  <1>3. path = a
    BY <1>0, <1>2
  <1>4. Walk!IsOpen(e) /\ e.at = a /\ e.kind = tree[a].kind /\ Entry(e)
    BY <1>0, <1>2, <1>3, OpenedIs
  <1>5. w.frame.stack = Rules(s, q, Walk!Front(a))
    <2>1. [path |-> w.frame.path, stack |-> w.frame.stack] \in Agenda(s, q, w.base)
      BY DEF AtHand
    <2>2. PICK d : [path |-> w.frame.path, stack |-> w.frame.stack] = [path |-> d, stack |-> Rules(s, q, d)]
      BY <2>1 DEF Agenda
    <2>3. w.frame.path = d /\ w.frame.stack = Rules(s, q, d)
      BY <2>2
    <2>4. QED
      BY <1>0, <1>2, <2>3
  <1>6. Controls(q)
    BY DEF Asking
  <1>7. ~Shut(s, q, a, FALSE)
    BY <1>2, ShutAnyway
  <1>8. /\ ~Walk!Excluded(q, w.frame.stack, a, FALSE)
        /\ ~Walk!Excluded(q, w.frame.stack, a, tree[a].kind = "dir")
    BY <1>2, <1>5, <1>6, <1>7, ExcludedIs
  <1>9. ~(q.gitignore /\ Walk!Ignored(w.frame.stack, a, tree[a].kind = "dir"))
    BY <1>8 DEF Walk!Excluded
  <1>10. ~Walk!FinalFilter(q, e, w.cache).state.filtered
    <2>1. w.base \in DOMAIN s /\ s[w.base].kind = "dir" /\ Remembers(s, q, w.base, w.cache)
      BY DEF Walking
    <2>2. QED
      BY <1>2, <1>4, <1>6, <2>1, FinalIs
  <1>11. LetThrough(q, w, path, e)
    BY <1>3, <1>4, <1>8, <1>9, <1>10 DEF LetThrough
  <1>12. QED
    BY <1>1, <1>2, <1>3, <1>4, <1>11 DEF Reaches

\* A name was taken, and what the filters remember may be more.
TakesName(s, q, w, v, name) ==
    /\ IsWorker(v) /\ v.base = w.base /\ v.phase = "names" /\ v.pending = w.pending
    /\ v.frame = [path |-> w.frame.path, stack |-> w.frame.stack, names |-> w.frame.names \ {name}]
    /\ v.seen = w.seen /\ v.found = w.found /\ Grows(w, v)
    /\ Remembers(s, q, w.base, v.cache)

LEMMA TakenIs ==
    ASSUME NEW s, NEW q, NEW w, IsWorker(w), Walking(s, q, w), AtHand(s, q, w), w.phase = "names", NEW name,
           NEW u, u = [w EXCEPT !.frame.names = @ \ {name}]
    PROVE  /\ TakesName(s, q, w, u, name)
           /\ \A x : TakesName(s, q, w, [u EXCEPT !.diagnostics = @ \cup x], name)
           /\ \A c, x : Remembers(s, q, w.base, c) =>
                 TakesName(s, q, w, [u EXCEPT !.cache = c, !.diagnostics = @ \cup x], name)
  <1>1. Remembers(s, q, w.base, w.cache)
    BY DEF Walking
  <1>2. /\ w.frame = [path |-> w.frame.path, stack |-> w.frame.stack, names |-> w.frame.names]
    BY DEF AtHand
  <1> DEFINE f == [path |-> w.frame.path, stack |-> w.frame.stack, names |-> w.frame.names \ {name}]
  <1>3. u = [w EXCEPT !.frame = f]
    <2>1. PICK p, k, names : p = w.frame.path /\ k = w.frame.stack /\ names = w.frame.names
      OBVIOUS
    <2>2. w.frame = [path |-> p, stack |-> k, names |-> names]
      BY <1>2, <2>1, Zenon
    <2>3. [w.frame EXCEPT !.names = @ \ {name}] = f
      BY <2>1, <2>2
    <2>4. QED
      BY <2>3
  <1> HIDE DEF f
  <1>4. /\ IsWorker(u) /\ u.base = w.base /\ u.phase = "names" /\ u.pending = w.pending /\ u.frame = f
        /\ u.seen = w.seen /\ u.found = w.found /\ u.cache = w.cache /\ u.records = w.records
        /\ u.diagnostics = w.diagnostics
    BY <1>3 DEF IsWorker, WorkerFields
  <1>6. ASSUME NEW x, NEW v, v = [u EXCEPT !.diagnostics = @ \cup x]
        PROVE  /\ IsWorker(v) /\ v.base = w.base /\ v.phase = "names" /\ v.pending = w.pending
               /\ v.frame = f /\ v.cache = w.cache
               /\ v.seen = w.seen /\ v.found = w.found /\ Grows(w, v)
    <2>1. /\ IsWorker(v) /\ v.base = w.base /\ v.phase = "names" /\ v.pending = w.pending
          /\ v.frame = f /\ v.cache = w.cache
          /\ v.seen = w.seen /\ v.found = w.found
      BY <1>4, <1>6 DEF IsWorker, WorkerFields
    <2>2. Grows(w, v)
      BY <1>4, <1>6 DEF IsWorker, WorkerFields, Grows
    <2>3. QED
      BY <2>1, <2>2
  <1>7. TakesName(s, q, w, u, name)
    BY <1>1, <1>4 DEF TakesName, Grows, f
  <1>8. \A x : TakesName(s, q, w, [u EXCEPT !.diagnostics = @ \cup x], name)
    BY <1>1, <1>6 DEF TakesName, f
  <1>9. ASSUME NEW c, NEW x, Remembers(s, q, w.base, c)
        PROVE  TakesName(s, q, w, [u EXCEPT !.cache = c, !.diagnostics = @ \cup x], name)
    <2>1. PICK v : v = [u EXCEPT !.cache = c, !.diagnostics = @ \cup x]
      OBVIOUS
    <2>2. /\ IsWorker(v) /\ v.base = w.base /\ v.phase = "names" /\ v.pending = w.pending
          /\ v.frame = f /\ v.cache = c /\ v.seen = w.seen /\ v.found = w.found
      BY <1>4, <2>1 DEF IsWorker, WorkerFields
    <2>9. Grows(w, v)
      BY <1>4, <2>1 DEF IsWorker, WorkerFields, Grows
    <2>3. TakesName(s, q, w, v, name)
      BY <1>9, <2>2, <2>9 DEF TakesName, f
    <2>4. QED
      BY <2>1, <2>3
  <1>10. QED
    BY <1>7, <1>8, <1>9

\* What else waited waits on.
LEMMA TakenWaits ==
    ASSUME NEW s, NEW q, NEW w, w.phase = "names", NEW v, NEW name, v.phase = "names",
           v.frame = [path |-> w.frame.path, stack |-> w.frame.stack, names |-> w.frame.names \ {name}],
           NEW p, NEW n, Waits(w, p, n), ~(w.frame.path = Walk!Prefix(p, n) /\ p[n + 1] = name),
           \A i \in 1..Len(w.pending) : \E j \in 1..Len(v.pending) : v.pending[j].path = w.pending[i].path
    PROVE  Waits(v, p, n)
  BY DEF Waits

\* A walk that took a name goes on.
LEMMA TakenGoes ==
    ASSUME NEW s, NEW q, NEW w, Walking(s, q, w), AtHand(s, q, w), AllAdmitted(s, q, w), NEW v, NEW name,
           TakesName(s, q, w, v, name)
    PROVE  WalkGoes(s, q, w, v)
  <1>1. AtHand(s, q, v)
    BY DEF AtHand, TakesName
  <1>2. Walking(s, q, v)
    BY <1>1 DEF Walking, TakesName
  <1>3. QED
    BY <1>2 DEF WalkGoes, TakesName, AllAdmitted

\* The next name of the directory at hand.
LEMMA NameStep ==
    ASSUME NEW s, Kept(s, tree), SeqRules(s), Asking(query), WorkInv(s, tree, query, walk), Walk!Name
    PROVE  WorkInv(s, tree, query, walk')
  <1> DEFINE b == walk.base
             name == Walk!Earliest(walk.frame.names)
             path == Append(walk.frame.path, name)
             stack == walk.frame.stack
             e == Walk!Opened(path)
             filter == Walk!FinalFilter(query, e, walk.cache)
             u == [walk EXCEPT !.frame.names = @ \ {name}]
             filtered == [u EXCEPT !.cache = filter.cache,
                                   !.diagnostics = @ \cup Walk!Unreadable(filter.loaded)]
             Through == /\ ~Walk!Excluded(query, stack, path, FALSE) /\ Walk!IsOpen(e)
                        /\ ~(query.gitignore /\ Walk!Ignored(stack, path, e.kind = "dir"))
                        /\ ~filter.state.filtered
  <1>1. walk.phase = "names" /\ walk.frame.names # {}
    BY DEF Walk!Name
  <1>2. /\ IsWorker(walk) /\ b \in Paths /\ AllAdmitted(s, query, walk) /\ Walking(s, query, walk)
        /\ AtHand(s, query, walk) /\ b \in DOMAIN s /\ s[b].kind = "dir"
    BY <1>1 DEF WorkInv, Walking
  <1>3. name \in walk.frame.names /\ Controls(query) /\ query.kind \in {"search", "glob"}
    <2>1. walk.frame.names \in SUBSET Walk!Range(Names)
      BY <1>2 DEF AtHand
    <2>2. QED
      BY <1>1, <2>1, EarliestIn DEF Asking
  <1>4. Walk!IsOpen(e) =>
           /\ Entry(e) /\ (filter.state.filtered <=> ~Walk!Visible(s, query, b, e.at))
           /\ ~filter.state.filtered /\ e.kind = "dir" => filter.state.stack = Rules(s, query, e.at)
           /\ Remembers(s, query, b, filter.cache)
    <2> HAVE Walk!IsOpen(e)
    <2>1. Entry(e)
      BY OpenedIs
    <2>2. Remembers(s, query, b, walk.cache)
      BY <1>2 DEF Walking
    <2> HIDE DEF e
    <2>3. QED
      BY <1>2, <1>3, <2>1, <2>2, FinalIs
  <1>5. /\ TakesName(s, query, walk, u, name)
        /\ \A x : TakesName(s, query, walk, [u EXCEPT !.diagnostics = @ \cup x], name)
        /\ Walk!IsOpen(e) => TakesName(s, query, walk, filtered, name)
    <2> HIDE DEF name, e, filter
    <2>1. \A c, x : Remembers(s, query, b, c) =>
             TakesName(s, query, walk, [u EXCEPT !.cache = c, !.diagnostics = @ \cup x], name)
      BY <1>1, <1>2, TakenIs
    <2>2. \A x : TakesName(s, query, walk, [u EXCEPT !.diagnostics = @ \cup x], name)
      BY <1>1, <1>2, TakenIs
    <2>3. TakesName(s, query, walk, u, name)
      BY <1>1, <1>2, TakenIs
    <2>4. QED
      BY <1>4, <2>1, <2>2, <2>3
  <1>6. \/ ~Through /\ TakesName(s, query, walk, walk', name)
        \/ Through /\ walk' = Walk!Reached(filtered, e, filter.state)
    <2>1. walk' = IF Walk!Excluded(query, stack, path, FALSE) THEN u
                  ELSE IF ~Walk!IsOpen(e) THEN Walk!Diagnosed(u, path, e.kind)
                  ELSE IF query.gitignore /\ Walk!Ignored(stack, path, e.kind = "dir") THEN u
                  ELSE IF filter.state.filtered THEN filtered
                  ELSE Walk!Reached(filtered, e, filter.state)
      BY DEF Walk!Name
    <2>2. Walk!Diagnosed(u, path, e.kind) = [u EXCEPT !.diagnostics = @ \cup {[at |-> path, why |-> e.kind]}]
      BY DEF Walk!Diagnosed
    <2> HIDE DEF name, path, stack, e, filter, u, filtered
    <2>3. QED
      BY <1>5, <2>1, <2>2
  <1>7. ASSUME Walk!KeepsNoDirectories(s), NEW p \in DOMAIN tree, Wanted(s, query, b, p),
               Walk!IsPrefix(b, p), NEW n \in Len(b)..(Len(p) - 1),
               walk.frame.path = Walk!Prefix(p, n), p[n + 1] = name
        PROVE  /\ Through /\ path = Walk!Prefix(p, n + 1) /\ e.at = path
               /\ path # p => n + 1 < Len(p) /\ e.kind = "dir"
    <2>1. NextTo(walk, p, n, path, e)
      BY <1>7 DEF NextTo
    <2>2. OnTheWay(s, query, walk, p, n)
      BY <1>7 DEF OnTheWay
    <2> HIDE DEF name, path, e
    <2>3. LetThrough(query, walk, path, e) /\ Reaches(p, n, path, e)
      BY <1>2, <1>7, <2>1, <2>2, NameOpen
    <2>4. QED
      BY <2>3 DEF LetThrough, Reaches
  <1>8. ASSUME NEW p \in DOMAIN tree
        PROVE  Len(b) \in Nat /\ Len(p) \in Nat /\ p \in Paths
    BY <1>2, LenProperties DEF Paths, Kept, Closed
  <1>9. CASE ~Through /\ TakesName(s, query, walk, walk', name)
    <2>1. WalkGoes(s, query, walk, walk')
      BY <1>2, <1>9, TakenGoes
    <2>2. ASSUME Walk!KeepsNoDirectories(s), NEW p \in DOMAIN tree, Wanted(s, query, b, p),
                 Walk!IsPrefix(b, p)
          PROVE  Passes(s, query, walk, walk', p) /\ Arrives(s, query, walk, walk', p)
      <3>1. ASSUME NEW n \in Len(b)..(Len(p) - 1), Waits(walk, p, n)
            PROVE  n \in n..(Len(p) - 1) /\ Waits(walk', p, n)
        <4>1. ~(walk.frame.path = Walk!Prefix(p, n) /\ p[n + 1] = name)
          BY <1>7, <1>9, <2>2
        <4> HIDE DEF name
        <4>2. Waits(walk', p, n)
          BY <1>1, <1>9, <3>1, <4>1, TakenWaits DEF TakesName
        <4>3. n \in n..(Len(p) - 1)
          BY <1>8
        <4>4. QED
          BY <4>2, <4>3
      <3>2. walk'.seen = walk.seen
        BY <1>9 DEF TakesName
      <3>3. QED
        BY <3>1, <3>2 DEF Passes, Arrives
    <2>3. QED
      BY <1>1, <2>1, <2>2, WalkOn
  <1>10. CASE Through /\ walk' = filtered /\ e.at \in walk.seen
    <2>0. TakesName(s, query, walk, walk', name)
      BY <1>5, <1>10
    <2>1. WalkGoes(s, query, walk, walk')
      BY <1>2, <2>0, TakenGoes
    <2>2. ASSUME Walk!KeepsNoDirectories(s), NEW p \in DOMAIN tree, Wanted(s, query, b, p),
                 Walk!IsPrefix(b, p)
          PROVE  Passes(s, query, walk, walk', p) /\ Arrives(s, query, walk, walk', p)
      <3>1. ASSUME NEW n \in Len(b)..(Len(p) - 1), Waits(walk, p, n)
            PROVE  Told(s, query, walk', p) \/ \E k \in n..(Len(p) - 1) : Waits(walk', p, k)
        <4>1. CASE ~(walk.frame.path = Walk!Prefix(p, n) /\ p[n + 1] = name)
          <5> HIDE DEF name
          <5>1. Waits(walk', p, n)
            BY <1>1, <2>0, <3>1, <4>1, TakenWaits DEF TakesName
          <5>2. n \in n..(Len(p) - 1)
            BY <1>8
          <5>3. QED
            BY <5>1, <5>2
        <4>2. CASE walk.frame.path = Walk!Prefix(p, n) /\ p[n + 1] = name
          <5>1. path = Walk!Prefix(p, n + 1) /\ e.at = path
            BY <1>7, <2>2, <4>2
          <5>2. n + 1 \in Len(b)..Len(p)
            BY <1>8
          <5>3. Owed(s, query, walk, p, n + 1)
            BY <1>1, <2>2, <5>2 DEF WorkInv, Complete
          <5>4. CASE Told(s, query, walk, p)
            <6>1. Grows(walk, walk')
              BY <2>0 DEF TakesName
            <6>2. QED
              BY <5>4, <6>1, ToldStays
          <5>5. CASE ~Told(s, query, walk, p)
            <6>1. Walk!Prefix(p, n + 1) \in walk.seen
              BY <1>10, <5>1
            <6>2. PICK k \in (n + 1)..(Len(p) - 1) : Waits(walk, p, k)
              BY <5>3, <5>5, <6>1 DEF Owed
            <6>3. k \in n..(Len(p) - 1) /\ k # n /\ n \in 0..Len(p) /\ k \in 0..Len(p)
              BY <1>8
            <6>4. walk.frame.path # Walk!Prefix(p, k)
              <7>1. Len(Walk!Prefix(p, n)) = n /\ Len(Walk!Prefix(p, k)) = k
                BY <1>8, <6>3, Prefixes DEF Paths
              <7>2. QED
                BY <4>2, <6>3, <7>1
            <6> HIDE DEF name
            <6>5. Waits(walk', p, k)
              BY <1>1, <2>0, <6>2, <6>4, TakenWaits DEF TakesName
            <6>6. QED
              BY <6>3, <6>5
          <5>6. QED
            BY <5>4, <5>5
        <4>3. QED
          BY <4>1, <4>2
      <3>2. walk'.seen = walk.seen
        BY <2>0 DEF TakesName
      <3>3. QED
        BY <3>1, <3>2 DEF Passes, Arrives
    <2>3. QED
      BY <1>1, <2>1, <2>2, WalkOn
  <1> DEFINE u2 == [filtered EXCEPT !.seen = @ \cup {e.at}]
             visited == Walk!Visit(query, u2, e)
             item == [path |-> e.at, stack |-> filter.state.stack]
             pushed == [visited EXCEPT !.pending = Append(@, item)]
  <1>11. Through => \/ walk' = filtered /\ e.at \in walk.seen
                    \/ walk' = visited /\ (e.kind = "file" \/ visited.phase = "failed") /\ e.at \notin walk.seen
                    \/ walk' = pushed /\ e.kind # "file" /\ visited.phase # "failed" /\ e.at \notin walk.seen
    <2> HAVE Through
    <2>1. walk' = IF e.at \in filtered.seen THEN filtered
                  ELSE IF e.kind = "file" \/ visited.phase = "failed" THEN visited ELSE pushed
      BY <1>6 DEF Walk!Reached
    <2>2. filtered.seen = walk.seen
      BY <1>5 DEF TakesName
    <2> HIDE DEF filtered, visited, pushed, e, filter, name
    <2>3. QED
      BY <2>1, <2>2
  <1>12. ASSUME Through, e.at \notin walk.seen
         PROVE  /\ IsWorker(visited) /\ AllAdmitted(s, query, visited) /\ Alike(u2, visited) /\ Grows(walk, visited)
                /\ visited.phase = "names" \/ visited.phase = "failed"
                /\ visited.phase # "failed" /\ Walk!Asked(query, s, b, e.at) => Told(s, query, visited, e.at)
                /\ IsWorker(u2) /\ u2.base = b /\ u2.pending = walk.pending /\ u2.frame = filtered.frame
                /\ u2.seen = walk.seen \cup {e.at} /\ u2.cache = filtered.cache
    <2>1. TakesName(s, query, walk, filtered, name) /\ Entry(e) /\ Walk!Visible(s, query, b, e.at)
      BY <1>4, <1>5, <1>12
    <2> HIDE DEF filtered, e, name
    <2>2. /\ IsWorker(u2) /\ u2.base = b /\ u2.pending = walk.pending /\ u2.frame = filtered.frame
          /\ u2.seen = walk.seen \cup {e.at} /\ u2.cache = filtered.cache /\ u2.phase = "names"
          /\ u2.found = walk.found
      BY <2>1 DEF TakesName, IsWorker, WorkerFields
    <2>3. Grows(walk, u2)
      BY <2>1 DEF TakesName, IsWorker, WorkerFields, Grows
    <2> HIDE DEF u2
    <2>4. AllAdmitted(s, query, u2) /\ u2.phase # "failed" /\ Walk!Visible(s, query, u2.base, e.at)
      BY <1>2, <2>1, <2>2 DEF AllAdmitted
    <2>5. /\ IsWorker(visited) /\ AllAdmitted(s, query, visited) /\ Alike(u2, visited) /\ Grows(u2, visited)
          /\ visited.phase = u2.phase \/ visited.phase = "failed"
          /\ visited.phase # "failed" /\ Walk!Asked(query, s, u2.base, e.at) => Told(s, query, visited, e.at)
      BY <1>3, <2>1, <2>2, <2>4, VisitTells
    <2>6. Grows(walk, visited)
      BY <2>3, <2>5 DEF Grows
    <2>7. QED
      BY <2>2, <2>5, <2>6
  <1>13. ASSUME Through, e.at \notin walk.seen, visited.phase = "failed", walk' = visited
         PROVE  WorkInv(s, tree, query, walk')
    <2> HIDE DEF visited, e
    <2>1. IsWorker(walk') /\ AllAdmitted(s, query, walk') /\ walk'.base = b /\ walk'.phase = "failed"
      BY <1>12, <1>13 DEF Alike
    <2>2. QED
      BY <1>2, <2>1, WalkFails
  <1>14. ASSUME Through, e.at \notin walk.seen, visited.phase # "failed",
                IsWorker(walk'), walk'.base = b, walk'.phase = "names", walk'.found = visited.found,
                walk'.records = visited.records, walk'.diagnostics = visited.diagnostics,
                walk'.frame = visited.frame, walk'.seen = visited.seen, walk'.cache = visited.cache,
                \/ e.kind = "file" /\ walk'.pending = walk.pending
                \/ e.kind = "dir" /\ walk'.pending = Append(walk.pending, item)
         PROVE  WorkInv(s, tree, query, walk')
    <2>1. TakesName(s, query, walk, filtered, name) /\ Entry(e) /\ Walk!Visible(s, query, b, e.at)
      BY <1>4, <1>5, <1>14
    <2>2. (e.kind = "dir" => item \in Agenda(s, query, b)) /\ e.at \in DOMAIN s
      <3>1. e.at \in DOMAIN s /\ s[e.at].kind = e.kind
        BY <2>1 DEF Entry, Kept, SameNode
      <3>2. e.kind = "dir" => filter.state.stack = Rules(s, query, e.at)
        BY <1>4, <1>14
      <3> HIDE DEF e, filter
      <3>3. QED
        BY <2>1, <3>1, <3>2 DEF Agenda
    <2> HIDE DEF visited, e, filter, filtered, item, name, u2
    <2>3. /\ walk'.frame = [path |-> walk.frame.path, stack |-> walk.frame.stack,
                            names |-> walk.frame.names \ {name}]
          /\ walk'.seen = walk.seen \cup {e.at} /\ Remembers(s, query, b, walk'.cache)
          /\ AllAdmitted(s, query, walk') /\ Grows(walk, walk')
      <3>1. AllAdmitted(s, query, visited) /\ Alike(u2, visited) /\ Grows(walk, visited)
            /\ u2.frame = filtered.frame
            /\ u2.seen = walk.seen \cup {e.at} /\ u2.cache = filtered.cache /\ u2.base = b
        BY <1>12, <1>14
      <3>2. QED
        BY <1>14, <2>1, <3>1 DEF AllAdmitted, Alike, Grows, TakesName
    <2>4. walk.pending \in Seq(Agenda(s, query, b))
      BY <1>2 DEF Walking
    <2>5. /\ walk'.pending \in Seq(Agenda(s, query, b))
          /\ \A i \in 1..Len(walk.pending) :
                \E j \in 1..Len(walk'.pending) : walk'.pending[j].path = walk.pending[i].path
      <3>1. CASE e.kind = "file" /\ walk'.pending = walk.pending
        BY <2>4, <3>1
      <3>2. CASE e.kind = "dir" /\ walk'.pending = Append(walk.pending, item)
        <4>1. /\ Append(walk.pending, item) \in Seq(Agenda(s, query, b))
              /\ Len(Append(walk.pending, item)) = Len(walk.pending) + 1 /\ Len(walk.pending) \in Nat
              /\ \A i \in 1..Len(walk.pending) : Append(walk.pending, item)[i] = walk.pending[i]
          BY <2>2, <2>4, <3>2, AppendProperties, LenProperties
        <4>2. \A i \in 1..Len(walk.pending) : i \in 1..Len(walk'.pending)
          BY <3>2, <4>1
        <4>3. QED
          BY <3>2, <4>1, <4>2
      <3>3. QED
        BY <1>14, <3>1, <3>2
    <2>6. e.kind = "dir" => \E j \in 1..Len(walk'.pending) : walk'.pending[j].path = e.at
      <3> HAVE e.kind = "dir"
      <3>1. walk'.pending = Append(walk.pending, item) /\ item.path = e.at
        BY <1>14 DEF item
      <3>2. /\ Len(Append(walk.pending, item)) = Len(walk.pending) + 1 /\ Len(walk.pending) \in Nat
            /\ Append(walk.pending, item)[Len(walk.pending) + 1] = item
        BY <2>2, <2>4, AppendProperties, LenProperties
      <3>3. Len(walk.pending) + 1 \in 1..Len(walk'.pending)
        BY <3>1, <3>2
      <3>4. QED
        BY <3>1, <3>2, <3>3
    <2>7. WalkGoes(s, query, walk, walk')
      <3>1. AtHand(s, query, walk')
        BY <1>2, <1>14, <2>3 DEF AtHand
      <3>2. Walking(s, query, walk')
        BY <1>2, <1>14, <2>3, <2>5, <3>1 DEF Walking
      <3>3. QED
        BY <1>14, <2>3, <3>2 DEF WalkGoes
    <2>8. ASSUME Walk!KeepsNoDirectories(s), NEW p \in DOMAIN tree, Wanted(s, query, b, p),
                 Walk!IsPrefix(b, p)
          PROVE  Passes(s, query, walk, walk', p) /\ Arrives(s, query, walk, walk', p)
      <3>1. e.at = p => Told(s, query, walk', p)
        <4> HAVE e.at = p
        <4>1. Walk!Asked(query, s, b, e.at)
          BY <2>8 DEF Wanted
        <4>2. Told(s, query, visited, p)
          BY <1>12, <1>14, <4>1
        <4>3. QED
          BY <1>14, <4>2 DEF Told
      <3>2. ASSUME NEW n \in Len(b)..(Len(p) - 1), Waits(walk, p, n)
            PROVE  Told(s, query, walk', p) \/ \E k \in n..(Len(p) - 1) : Waits(walk', p, k)
        <4>1. CASE ~(walk.frame.path = Walk!Prefix(p, n) /\ p[n + 1] = name)
          <5>1. Waits(walk', p, n)
            BY <1>1, <1>14, <2>3, <2>5, <3>2, <4>1, TakenWaits
          <5>2. n \in n..(Len(p) - 1)
            BY <1>8
          <5>3. QED
            BY <5>1, <5>2
        <4>2. CASE walk.frame.path = Walk!Prefix(p, n) /\ p[n + 1] = name
          <5>1. /\ e.at = Walk!Prefix(p, n + 1)
                /\ e.at # p => n + 1 < Len(p) /\ e.kind = "dir"
            BY <1>7, <2>8, <4>2
          <5>2. CASE e.at = p
            BY <3>1, <5>2
          <5>3. CASE e.at # p
            <6>1. n + 1 \in n..(Len(p) - 1)
              BY <1>8, <5>1, <5>3
            <6>2. Waits(walk', p, n + 1)
              BY <2>6, <5>1, <5>3 DEF Waits
            <6>3. QED
              BY <6>1, <6>2
          <5>4. QED
            BY <5>2, <5>3
        <4>3. QED
          BY <4>1, <4>2
      <3>3. ASSUME NEW m \in Len(b)..Len(p), Walk!Prefix(p, m) \in walk'.seen \ walk.seen
            PROVE  Told(s, query, walk', p) \/ \E k \in m..(Len(p) - 1) : Waits(walk', p, k)
        <4>1. Walk!Prefix(p, m) = e.at /\ m \in 0..Len(p) /\ (m = Len(p) \/ m < Len(p))
          BY <1>8, <2>3, <3>3
        <4>2. CASE m = Len(p)
          <5>1. e.at = p
            BY <1>8, <4>1, <4>2, WholePrefix DEF Paths
          <5>2. QED
            BY <3>1, <5>1
        <4>3. CASE m < Len(p)
          <5>1. tree[Walk!Prefix(p, m)].kind = "dir"
            BY <4>1, <4>3, InTree DEF Kept
          <5>2. e.kind = "dir"
            BY <2>1, <4>1, <5>1 DEF Entry
          <5>3. m \in m..(Len(p) - 1)
            BY <1>8, <4>3
          <5>4. Waits(walk', p, m)
            BY <2>6, <4>1, <5>2 DEF Waits
          <5>5. QED
            BY <5>3, <5>4
        <4>4. QED
          BY <4>1, <4>2, <4>3
      <3>4. QED
        BY <3>2, <3>3 DEF Passes, Arrives
    <2>9. QED
      BY <1>1, <2>7, <2>8, WalkOn
  <1>15. CASE Through /\ e.at \notin walk.seen /\ visited.phase # "failed" /\ walk' = visited /\ e.kind = "file"
    <2>1. visited.pending = walk.pending /\ visited.base = b /\ visited.phase = "names" /\ IsWorker(visited)
      <3> HIDE DEF visited, u2, e, filtered
      <3>1. QED
        BY <1>12, <1>15 DEF Alike
    <2> HIDE DEF visited, e, filter, filtered, item, name, u2
    <2>2. QED
      BY <1>14, <1>15, <2>1
  <1>16. CASE Through /\ e.at \notin walk.seen /\ visited.phase # "failed" /\ walk' = pushed /\ e.kind # "file"
    <2>1. visited.pending = walk.pending /\ visited.base = b /\ visited.phase = "names" /\ IsWorker(visited)
      <3> HIDE DEF visited, u2, e, filtered
      <3>1. QED
        BY <1>12, <1>16 DEF Alike
    <2>2. e.kind = "dir"
      BY <1>4, <1>16 DEF Entry
    <2> HIDE DEF visited, e, filter, filtered, item, name, u2
    <2>3. /\ IsWorker(walk') /\ walk'.base = b /\ walk'.phase = "names" /\ walk'.found = visited.found
          /\ walk'.records = visited.records /\ walk'.diagnostics = visited.diagnostics
          /\ walk'.frame = visited.frame /\ walk'.seen = visited.seen /\ walk'.cache = visited.cache
          /\ walk'.pending = Append(walk.pending, item)
      BY <1>16, <2>1 DEF IsWorker, WorkerFields
    <2> HIDE DEF pushed
    <2>4. QED
      BY <1>14, <1>16, <2>2, <2>3
  <1>17. QED
    <2> HIDE DEF name, path, stack, e, filter, u, filtered, u2, visited, item, pushed
    <2>1. CASE ~Through
      BY <1>6, <1>9, <2>1
    <2>2. CASE Through
      BY <1>10, <1>11, <1>13, <1>15, <1>16, <2>2
    <2>3. QED
      BY <2>1, <2>2

\* A directory at its end, and the walk at its.
LEMMA EndSteps ==
    ASSUME NEW s, Kept(s, tree), NEW q, WorkInv(s, tree, q, walk),
           Walk!NamesEnd \/ Walk!WalkEnds \/ Walk!Stopped \/ Walk!DeliverWalk
    PROVE  WorkInv(s, tree, q, walk')
  <1>1. IsWorker(walk) /\ walk.base \in Paths /\ AllAdmitted(s, q, walk)
    BY DEF WorkInv
  <1> DEFINE b == walk.base
  <1>2. ASSUME NEW p \in DOMAIN tree
        PROVE  Len(b) \in Nat /\ Len(p) \in Nat /\ p \in Paths
    BY <1>1, LenProperties DEF Paths, Kept, Closed
  <1>3. CASE Walk!NamesEnd
    <2>1. walk.phase = "names" /\ walk.frame.names = {}
          /\ walk' = [walk EXCEPT !.phase = "pop", !.frame = Walk!NoFrame]
      BY <1>3, Zenon DEF Walk!NamesEnd
    <2>2. /\ IsWorker(walk') /\ walk'.base = b /\ walk'.phase = "pop" /\ walk'.pending = walk.pending
          /\ walk'.seen = walk.seen /\ walk'.found = walk.found /\ walk'.cache = walk.cache
      BY <1>1, <2>1 DEF IsWorker, WorkerFields
    <2>3. Grows(walk, walk')
      BY <1>1, <2>1 DEF IsWorker, WorkerFields, Grows
    <2>4. Walking(s, q, walk)
      BY <2>1 DEF WorkInv
    <2>5. WalkGoes(s, q, walk, walk')
      BY <1>1, <2>2, <2>3, <2>4 DEF WalkGoes, Walking, AllAdmitted
    <2>6. ASSUME NEW p \in DOMAIN tree
          PROVE  Passes(s, q, walk, walk', p) /\ Arrives(s, q, walk, walk', p)
      <3>1. ASSUME NEW n \in Len(b)..(Len(p) - 1), Waits(walk, p, n)
            PROVE  n \in n..(Len(p) - 1) /\ Waits(walk', p, n)
        <4>1. Waits(walk', p, n)
          BY <2>1, <2>2, <3>1 DEF Waits
        <4>2. QED
          BY <1>2, <4>1
      <3>2. QED
        BY <2>2, <3>1 DEF Passes, Arrives
    <2>7. QED
      BY <2>1, <2>5, <2>6, WalkOn
  <1>4. CASE Walk!WalkEnds
    <2>1. walk.phase = "pop" /\ walk.pending = <<>> /\ walk' = [walk EXCEPT !.phase = "walked"]
      BY <1>4, Zenon DEF Walk!WalkEnds
    <2>2. /\ IsWorker(walk') /\ walk'.base = b /\ walk'.phase = "walked" /\ walk'.found = walk.found
      BY <1>1, <2>1 DEF IsWorker, WorkerFields
    <2>3. Grows(walk, walk')
      BY <1>1, <2>1 DEF IsWorker, WorkerFields, Grows
    <2>4. ASSUME Walk!KeepsNoDirectories(s), NEW p \in DOMAIN tree, Wanted(s, q, b, p)
          PROVE  Told(s, q, walk', p)
      <3>1. Walk!IsPrefix(b, p) /\ \A m \in Len(b)..Len(p) : Owed(s, q, walk, p, m)
        BY <2>1, <2>4 DEF WorkInv, Complete
      <3>2. Len(b) <= Len(p) /\ b = Walk!Prefix(p, Len(b))
        BY <1>1, <1>2, <3>1, Above DEF Paths
      <3>3. Len(b) \in Len(b)..Len(p) /\ b \in walk.seen
        BY <1>2, <2>1, <3>2 DEF WorkInv, Walking
      <3>4. ~\E n \in Len(b)..(Len(p) - 1) : Waits(walk, p, n)
        <4>1. 1..Len(walk.pending) = {}
          BY <2>1
        <4>2. QED
          BY <2>1, <4>1 DEF Waits
      <3>5. Told(s, q, walk, p)
        BY <3>1, <3>2, <3>3, <3>4 DEF Owed
      <3>6. QED
        BY <2>3, <3>5, ToldStays
    <2>5. QED
      BY <1>1, <2>2, <2>4 DEF WorkInv, Complete, AllAdmitted
  <1>5. ASSUME NEW why, walk' = Walk!Failed(walk, why)
        PROVE  WorkInv(s, tree, q, walk')
    <2>1. IsWorker(walk') /\ walk'.base = b /\ walk'.phase = "failed" /\ walk'.found = walk.found
      BY <1>1, <1>5 DEF IsWorker, WorkerFields, Walk!Failed
    <2>2. AllAdmitted(s, q, walk')
      BY <1>1, <2>1 DEF AllAdmitted
    <2>3. QED
      BY <1>1, <2>1, <2>2, WalkFails
  <1>6. CASE Walk!Stopped
    <2>1. walk' = Walk!Failed(walk, "cancelled")
      BY <1>6, Zenon DEF Walk!Stopped
    <2>2. QED
      BY <1>5, <2>1
  <1>7. CASE Walk!DeliverWalk
    <2>1. walk.phase = "walked" /\ walk' = IF inForce THEN [walk EXCEPT !.phase = "delivered"]
                                           ELSE Walk!Failed(walk, "source_unavailable")
      BY <1>7, Zenon DEF Walk!DeliverWalk
    <2>2. CASE walk' = [walk EXCEPT !.phase = "delivered"]
      <3>1. /\ IsWorker(walk') /\ walk'.base = b /\ walk'.phase = "delivered" /\ walk'.found = walk.found
        BY <1>1, <2>2 DEF IsWorker, WorkerFields
      <3>2. Grows(walk, walk')
        BY <1>1, <2>2 DEF IsWorker, WorkerFields, Grows
      <3>3. ASSUME Walk!KeepsNoDirectories(s), NEW p \in DOMAIN tree, Wanted(s, q, b, p)
            PROVE  Told(s, q, walk', p)
        <4>1. Told(s, q, walk, p)
          BY <2>1, <3>3 DEF WorkInv, Complete
        <4>2. QED
          BY <3>2, <4>1, ToldStays
      <3>4. QED
        BY <1>1, <3>1, <3>3 DEF WorkInv, Complete, AllAdmitted
    <2>3. QED
      BY <1>5, <2>1, <2>2
  <1>8. QED
    BY <1>3, <1>4, <1>6, <1>7

\* The tree changes: what is left of it is as it was.
LEMMA ChangeStep ==
    ASSUME NEW s, Kept(s, tree), \A p \in DOMAIN tree : IsNode(tree[p]), Walk!Change
    PROVE  /\ Kept(s, tree') /\ \A p \in DOMAIN tree' : IsNode(tree'[p])
           /\ DOMAIN tree' \subseteq DOMAIN tree
           /\ UNCHANGED <<first, query, walk>>
  <1>0. UNCHANGED <<first, query, walk>>
    BY DEF Walk!Change
  <1>1. ASSUME NEW link \in DOMAIN tree, NEW target, tree' = [tree EXCEPT ![link].target = target]
        PROVE  /\ DOMAIN tree' = DOMAIN tree
               /\ \A p \in DOMAIN tree : IsNode(tree'[p]) /\ SameNode(tree[p], tree'[p])
    <2>1. DOMAIN tree' = DOMAIN tree
      BY <1>1
    <2>2. IsNode(tree[link])
      OBVIOUS
    <2>3. \A p \in DOMAIN tree : tree'[p] = IF p = link THEN [tree[link] EXCEPT !.target = target] ELSE tree[p]
      BY <1>1
    <2>4. [tree[link] EXCEPT !.target = target]
             = [kind |-> tree[link].kind, target |-> target, readable |-> tree[link].readable,
                lines |-> tree[link].lines, rules |-> tree[link].rules]
      BY <2>2 DEF IsNode
    <2>5. QED
      BY <2>1, <2>3, <2>4 DEF IsNode, SameNode
  <1>2. ASSUME NEW gone \in DOMAIN tree \ {<<>>},
               tree' = [p \in {p \in DOMAIN tree : ~Walk!IsPrefix(gone, p)} |-> tree[p]]
        PROVE  /\ DOMAIN tree' \subseteq DOMAIN tree /\ <<>> \in DOMAIN tree'
               /\ \A p \in DOMAIN tree' : IsNode(tree'[p]) /\ SameNode(tree[p], tree'[p])
               /\ \A p \in DOMAIN tree' : p # <<>> => Walk!Front(p) \in DOMAIN tree'
    <2>1. /\ DOMAIN tree' = {p \in DOMAIN tree : ~Walk!IsPrefix(gone, p)}
          /\ \A p \in DOMAIN tree' : tree'[p] = tree[p]
      BY <1>2
    <2>2. gone \in Paths /\ <<>> \in Paths /\ <<>> \in DOMAIN tree /\ Len(gone) \in Nat \ {0}
      <3>1. gone \in Paths /\ <<>> \in Paths /\ <<>> \in DOMAIN tree
        BY EmptySeq DEF Kept, Closed, Paths
      <3>2. QED
        BY <3>1, EmptySeq, LenProperties DEF Paths
    <2>3. <<>> \in DOMAIN tree'
      <3>1. Walk!IsPrefix(gone, <<>>) => Len(gone) <= Len(<<>>)
        BY <2>2, Above DEF Paths
      <3>2. QED
        BY <2>1, <2>2, <3>1
    <2>4. ASSUME NEW p \in DOMAIN tree', p # <<>>
          PROVE  Walk!Front(p) \in DOMAIN tree'
      <3>1. p \in DOMAIN tree /\ ~Walk!IsPrefix(gone, p) /\ p \in Paths /\ Walk!Front(p) \in DOMAIN tree
        BY <2>1, <2>4 DEF Kept, Closed
      <3>2. /\ Walk!Front(p) \in Paths /\ Len(Walk!Front(p)) = Len(p) - 1 /\ Len(p) \in Nat \ {0}
            /\ \A n \in 0..(Len(p) - 1) : Walk!Prefix(Walk!Front(p), n) = Walk!Prefix(p, n)
        BY <2>4, <3>1, Fronts DEF Paths
      <3>3. ASSUME Walk!IsPrefix(gone, Walk!Front(p))
            PROVE  FALSE
        <4>1. Len(gone) <= Len(Walk!Front(p)) /\ gone = Walk!Prefix(Walk!Front(p), Len(gone))
          BY <2>2, <3>2, <3>3, Above DEF Paths
        <4>2. Len(gone) \in 0..(Len(p) - 1) /\ Len(gone) <= Len(p)
          BY <2>2, <3>2, <4>1
        <4>3. gone = Walk!Prefix(p, Len(gone))
          BY <3>2, <4>1, <4>2
        <4>4. Walk!IsPrefix(gone, p)
          BY <2>2, <3>1, <4>2, <4>3, Above DEF Paths
        <4>5. QED
          BY <3>1, <4>4
      <3>4. QED
        BY <2>1, <3>1, <3>3
    <2>5. QED
      BY <2>1, <2>3, <2>4 DEF SameNode
  <1>3. /\ DOMAIN tree' \subseteq DOMAIN tree /\ <<>> \in DOMAIN tree'
        /\ \A p \in DOMAIN tree' : IsNode(tree'[p]) /\ SameNode(tree[p], tree'[p])
        /\ \A p \in DOMAIN tree' : p # <<>> => Walk!Front(p) \in DOMAIN tree'
    <2>1. CASE \E link \in DOMAIN tree : \E target : tree' = [tree EXCEPT ![link].target = target]
      <3>1. DOMAIN tree' = DOMAIN tree /\ \A p \in DOMAIN tree : IsNode(tree'[p]) /\ SameNode(tree[p], tree'[p])
        BY <1>1, <2>1
      <3>2. <<>> \in DOMAIN tree /\ \A p \in DOMAIN tree : p # <<>> => Walk!Front(p) \in DOMAIN tree
        BY DEF Kept, Closed
      <3>3. QED
        BY <3>1, <3>2
    <2>2. CASE \E gone \in DOMAIN tree \ {<<>>} :
                  tree' = [p \in {p \in DOMAIN tree : ~Walk!IsPrefix(gone, p)} |-> tree[p]]
      <3>1. PICK gone \in DOMAIN tree \ {<<>>} :
                  tree' = [p \in {p \in DOMAIN tree : ~Walk!IsPrefix(gone, p)} |-> tree[p]]
        BY <2>2
      <3>2. QED
        BY <1>2, <3>1
    <2>3. QED
      BY <2>1, <2>2, Zenon DEF Walk!Change
  <1>4. Kept(s, tree')
    <2>1. Closed(s) /\ DOMAIN tree \subseteq DOMAIN s /\ DOMAIN tree \subseteq Paths /\ tree[<<>>].kind = "dir"
          /\ \A p \in DOMAIN tree : SameNode(s[p], tree[p])
      BY DEF Kept, Closed
    <2>2. \A p \in DOMAIN tree' : SameNode(s[p], tree'[p])
      BY <1>3, <2>1 DEF SameNode
    <2>3. tree'[<<>>].kind = "dir"
      BY <1>3, <2>1 DEF SameNode
    <2>4. Closed(tree')
      <3>1. ASSUME NEW p \in DOMAIN tree', p # <<>>
            PROVE  Walk!Front(p) \in DOMAIN tree' /\ tree'[Walk!Front(p)].kind = "dir"
        <4>1. Walk!Front(p) \in DOMAIN tree' /\ p \in DOMAIN tree
          BY <1>3, <3>1
        <4>2. tree[Walk!Front(p)].kind = "dir"
          BY <3>1, <4>1 DEF Kept, Closed
        <4>3. QED
          BY <1>3, <4>1, <4>2 DEF SameNode
      <3>2. QED
        BY <1>3, <2>1, <3>1 DEF Closed
    <2>5. QED
      BY <1>3, <2>1, <2>2, <2>3, <2>4 DEF Kept
  <1>5. QED
    BY <1>0, <1>3, <1>4

\* Less of a tree, and less is owed.
LEMMA FewerOwed ==
    ASSUME NEW s, NEW t, NEW u, DOMAIN u \subseteq DOMAIN t, NEW q, NEW w, WorkInv(s, t, q, w)
    PROVE  WorkInv(s, u, q, w)
  BY DEF WorkInv, Complete

\* What is asked for is below where the query starts, and that is opened where
\* it is.
LEMMA GlobBase ==
    ASSUME NEW s, Kept(s, tree), NEW q, Asking(q), q.kind = "glob", NEW b, NEW p \in DOMAIN tree,
           Walk!Asked(q, s, b, p), NEW e, e = Walk!Opened(Walk!Start(q))
    PROVE  Walk!IsOpen(e) /\ Walk!IsPrefix(e.at, p)
  <1> DEFINE a == Walk!Start(q)
  <1>1. p \in Paths /\ Len(p) \in Nat /\ q.scope \in Paths /\ Len(q.scope) \in Nat /\ <<>> \in Paths
        /\ <<>> \in DOMAIN tree /\ tree[<<>>].kind = "dir" /\ Closed(tree)
    BY LenProperties, EmptySeq DEF Kept, Closed, Paths, Asking
  <1>2. tree[p].kind \in {"dir", "file"} /\ Walk!GlobMatches(q, p)
    BY DEF Walk!Asked, Kept, SameNode
  <1>3. a \in DOMAIN tree /\ tree[a].kind \in {"dir", "file"} /\ Walk!IsPrefix(a, p)
    <2>1. CASE ~q.fixed
      <3>1. a = <<>>
        BY <2>1 DEF Walk!Start
      <3>2. Walk!Prefix(p, 0) = <<>> /\ Len(<<>>) = 0 /\ 0 <= Len(p)
        BY <1>1, WholePrefix DEF Paths
      <3>3. Walk!IsPrefix(<<>>, p)
        BY <1>1, <3>2, Above DEF Paths
      <3>4. QED
        BY <1>1, <3>1, <3>3
    <2>2. CASE q.fixed /\ q.exact
      <3>1. a = p
        BY <1>2, <2>2 DEF Walk!Start, Walk!GlobMatches
      <3>2. Walk!Prefix(p, Len(p)) = p /\ Len(p) <= Len(p)
        BY <1>1, WholePrefix DEF Paths
      <3>3. Walk!IsPrefix(p, p)
        BY <1>1, <3>2, Above DEF Paths
      <3>4. QED
        BY <1>2, <3>1, <3>3
    <2>3. CASE q.fixed /\ ~q.exact
      <3>1. a = q.scope /\ Walk!IsPrefix(q.scope, p) /\ q.scope # p
        BY <1>2, <2>3 DEF Walk!Start, Walk!GlobMatches, Walk!IsStrictPrefix
      <3>2. Len(q.scope) <= Len(p) /\ q.scope = Walk!Prefix(p, Len(q.scope))
        BY <1>1, <3>1, Above DEF Paths
      <3>3. Walk!Prefix(p, Len(p)) = p
        BY <1>1, WholePrefix DEF Paths
      <3>4. Len(q.scope) \in 0..Len(p) /\ Len(q.scope) < Len(p)
        BY <1>1, <3>1, <3>2, <3>3
      <3>5. Walk!Prefix(p, Len(q.scope)) \in DOMAIN tree /\ tree[Walk!Prefix(p, Len(q.scope))].kind = "dir"
        BY <1>1, <3>4, InTree
      <3>6. QED
        BY <3>1, <3>2, <3>5
    <2>4. QED
      BY <2>1, <2>2, <2>3
  <1> HIDE DEF a
  <1>4. Walk!IsOpen(e) /\ e.at = a
    BY <1>3, OpenedIs DEF a
  <1>5. QED
    BY <1>3, <1>4

\* The walk starts.
LEMMA OpenStep ==
    ASSUME NEW s, Kept(s, tree), Asking(query), WorkInv(s, tree, query, walk), Walk!Open
    PROVE  WorkInv(s, tree, query, walk')
  <1> DEFINE e == Walk!Opened(Walk!Start(query))
             filter == Walk!InitialFilter(query, e)
             said == IF query.gitignore /\ (query.kind = "glob" \/ e.kind = "dir")
                     THEN Walk!Unreadable({Walk!Prefix(e.at, n) : n \in 0..Len(e.at)}) ELSE {}
             w == [walk EXCEPT !.base = e.at, !.diagnostics = said]
             root == Walk!Ready(Walk!Entered(query, <<>>, <<>>))
             visited == IF e.kind = "dir" /\ (query.kind = "search" \/ e.at = <<>>)
                        THEN w ELSE Walk!Visit(query, w, e)
             known1 == [d \in {<<>>, e.at} |-> IF d = e.at THEN filter ELSE root]
             start == [path |-> e.at, stack |-> filter.stack]
             went == [visited EXCEPT !.phase = "pop", !.seen = {e.at}, !.cache = known1, !.pending = <<start>>]
             over == [w EXCEPT !.phase = "walked"]
             done == [visited EXCEPT !.phase = "walked"]
  <1>1. /\ walk.phase = "begin"
        /\ walk' = IF ~Walk!IsOpen(e)
                   THEN IF query.kind = "glob" /\ e.kind = "not_found"
                        THEN [walk EXCEPT !.phase = "walked"] ELSE Walk!Failed(walk, e.kind)
                   ELSE IF filter.filtered THEN over
                   ELSE IF visited.phase = "failed" THEN visited
                   ELSE IF e.kind = "file"
                   THEN IF query.kind = "search" /\ visited.found = {}
                        THEN Walk!Failed(visited, "binary") ELSE done
                   ELSE went
    BY DEF Walk!Open
  <1>2. IsWorker(walk) /\ walk.base \in Paths /\ walk.found = {} /\ Controls(query)
        /\ query.kind \in {"search", "glob"}
    BY <1>1 DEF WorkInv, Asking
  <1>3. ASSUME NEW p \in DOMAIN tree
        PROVE  p \in Paths /\ Len(p) \in Nat /\ p \in DOMAIN s /\ s[p].kind = tree[p].kind
               /\ Closed(s) /\ Closed(tree)
    BY LenProperties DEF Paths, Kept, Closed, SameNode
  <1>4. CASE ~Walk!IsOpen(e)
    <2>1. CASE query.kind = "glob" /\ walk' = [walk EXCEPT !.phase = "walked"]
      <3> HIDE DEF e
      <3>1. IsWorker(walk') /\ walk'.base = walk.base /\ walk'.phase = "walked" /\ walk'.found = {}
        BY <1>2, <2>1 DEF IsWorker, WorkerFields
      <3>2. ASSUME NEW p \in DOMAIN tree
            PROVE  ~Wanted(s, query, walk.base, p)
        BY <1>4, <2>1, GlobBase DEF Wanted, e
      <3>3. QED
        BY <1>2, <3>1, <3>2 DEF WorkInv, AllAdmitted, Complete
    <2>2. CASE walk' = Walk!Failed(walk, e.kind)
      <3> HIDE DEF e
      <3>1. IsWorker(walk') /\ walk'.base = walk.base /\ walk'.phase = "failed" /\ walk'.found = {}
        BY <1>2, <2>2 DEF IsWorker, WorkerFields, Walk!Failed
      <3>2. AllAdmitted(s, query, walk')
        BY <3>1 DEF AllAdmitted
      <3>3. QED
        BY <1>2, <3>1, <3>2, WalkFails
    <2>3. QED
      <3> HIDE DEF e, over, done, went, visited, filter
      <3>1. QED
        BY <1>1, <1>4, <2>1, <2>2
  <1>5. CASE Walk!IsOpen(e)
    <2> DEFINE b == e.at
    <2>1. Entry(e) /\ b \in DOMAIN tree /\ b \in Paths /\ b \in DOMAIN s /\ s[b].kind = e.kind
          /\ Len(b) \in Nat
      <3>1. Entry(e)
        BY <1>5, OpenedIs
      <3>2. QED
        BY <1>3, <3>1 DEF Entry
    <2>2. /\ filter.filtered <=> ~Walk!Visible(s, query, b, b)
          /\ ~filter.filtered /\ e.kind = "dir" => filter.stack = Rules(s, query, b)
          /\ e.kind = "dir" => filter = Ideal(s, query, b, b)
      <3> HIDE DEF e
      <3>1. QED
        BY <1>2, <2>1, InitialIs
    <2>3. ASSUME NEW p \in DOMAIN tree, Wanted(s, query, b, p)
          PROVE  Walk!IsPrefix(b, p) /\ Len(b) <= Len(p) /\ b = Walk!Prefix(p, Len(b))
      <3>1. Walk!IsPrefix(b, p)
        <4>1. CASE query.kind = "search"
          BY <2>3, <4>1 DEF Wanted, Walk!Asked
        <4>2. CASE query.kind = "glob"
          BY <2>3, <4>2, GlobBase DEF Wanted
        <4>3. QED
          BY <1>2, <4>1, <4>2
      <3> HIDE DEF e
      <3>2. QED
        BY <1>3, <2>1, <3>1, Above DEF Paths
    <2>4. /\ IsWorker(w) /\ w.base = b /\ w.phase = "begin" /\ w.found = {} /\ w.records = walk.records
      <3> HIDE DEF e, said
      <3>1. QED
        BY <1>1, <1>2 DEF IsWorker, WorkerFields
    <2>5. CASE filter.filtered /\ walk' = over
      <3> HIDE DEF e, filter, w
      <3>1. IsWorker(walk') /\ walk'.base = b /\ walk'.phase = "walked" /\ walk'.found = {}
        BY <2>4, <2>5 DEF IsWorker, WorkerFields
      <3>2. ASSUME NEW p \in DOMAIN tree, Wanted(s, query, b, p)
            PROVE  FALSE
        <4>1. Walk!IsPrefix(b, p) /\ Len(b) <= Len(p) /\ b = Walk!Prefix(p, Len(b))
          BY <2>3, <3>2
        <4>2. Len(b) \in 0..Len(p) /\ Len(b) <= Len(b)
          BY <1>3, <2>1, <4>1
        <4>3. Walk!Visible(s, query, b, Walk!Prefix(p, Len(b)))
          BY <1>2, <1>3, <2>1, <3>2, <4>1, <4>2, VisibleAbove DEF Wanted
        <4>4. QED
          BY <2>2, <2>5, <4>1, <4>3
      <3>3. QED
        BY <2>1, <3>1, <3>2 DEF WorkInv, AllAdmitted, Complete
    <2>6. ~filter.filtered =>
             /\ IsWorker(visited) /\ AllAdmitted(s, query, visited) /\ visited.base = b
             /\ visited.phase = "begin" \/ visited.phase = "failed"
             /\ visited.phase # "failed" /\ ~(e.kind = "dir" /\ (query.kind = "search" \/ b = <<>>))
                   /\ Walk!Asked(query, s, b, b) => Told(s, query, visited, b)
      <3> HAVE ~filter.filtered
      <3>1. Walk!Visible(s, query, w.base, b) /\ AllAdmitted(s, query, w)
        <4> HIDE DEF filter, w, e
        <4>1. QED
          BY <2>2, <2>4 DEF AllAdmitted
      <3>2. CASE e.kind = "dir" /\ (query.kind = "search" \/ b = <<>>)
        <4>1. visited = w
          BY <3>2
        <4> HIDE DEF w, visited, e
        <4>2. QED
          BY <2>4, <3>1, <3>2, <4>1
      <3>3. CASE ~(e.kind = "dir" /\ (query.kind = "search" \/ b = <<>>))
        <4>1. visited = Walk!Visit(query, w, e)
          BY <3>3
        <4> HIDE DEF w, visited, e
        <4>2. /\ IsWorker(visited) /\ AllAdmitted(s, query, visited) /\ Alike(w, visited)
              /\ visited.phase = w.phase \/ visited.phase = "failed"
              /\ visited.phase # "failed" /\ Walk!Asked(query, s, w.base, e.at) => Told(s, query, visited, e.at)
          BY <1>2, <2>1, <2>4, <3>1, <4>1, VisitTells
        <4>3. QED
          BY <2>4, <4>2 DEF Alike
      <3>4. QED
        BY <3>2, <3>3
    <2>7. CASE ~filter.filtered /\ (\/ visited.phase = "failed" /\ walk' = visited
                                   \/ walk' = Walk!Failed(visited, "binary"))
      <3> HIDE DEF visited, filter, e
      <3>1. IsWorker(walk') /\ walk'.base = b /\ walk'.phase = "failed" /\ walk'.found = visited.found
        <4>1. CASE visited.phase = "failed" /\ walk' = visited
          BY <2>6, <2>7, <4>1
        <4>2. CASE walk' = Walk!Failed(visited, "binary")
          BY <2>6, <2>7, <4>2 DEF IsWorker, WorkerFields, Walk!Failed
        <4>3. QED
          BY <2>7, <4>1, <4>2
      <3>2. AllAdmitted(s, query, walk')
        BY <2>6, <2>7, <3>1 DEF AllAdmitted
      <3>3. QED
        BY <2>1, <3>1, <3>2, WalkFails
    <2>8. CASE ~filter.filtered /\ visited.phase # "failed" /\ e.kind = "file" /\ walk' = done
      <3> HIDE DEF visited, filter, e
      <3>1. /\ IsWorker(walk') /\ walk'.base = b /\ walk'.phase = "walked" /\ walk'.found = visited.found
            /\ walk'.records = visited.records /\ walk'.diagnostics = visited.diagnostics
        BY <2>6, <2>8 DEF IsWorker, WorkerFields
      <3>2. ASSUME NEW p \in DOMAIN tree, Wanted(s, query, b, p)
            PROVE  Told(s, query, walk', p)
        <4>1. Len(b) <= Len(p) /\ b = Walk!Prefix(p, Len(b))
          BY <2>3, <3>2
        <4>2. Len(b) \in 0..Len(p) /\ (Len(b) = Len(p) \/ Len(b) < Len(p))
          BY <1>3, <2>1, <4>1
        <4>3. ~(Len(b) < Len(p))
          <5>1. Len(b) < Len(p) => tree[Walk!Prefix(p, Len(b))].kind = "dir"
            BY <1>3, <4>2, InTree
          <5>2. tree[b].kind = "file"
            BY <2>1, <2>8 DEF Entry
          <5>3. QED
            BY <4>1, <5>1, <5>2
        <4>4. p = b
          BY <1>3, <4>1, <4>2, <4>3, WholePrefix DEF Paths
        <4>5. Told(s, query, visited, p)
          BY <2>6, <2>8, <3>2, <4>4 DEF Wanted
        <4>6. QED
          BY <3>1, <4>5 DEF Told
      <3>3. AllAdmitted(s, query, walk')
        BY <2>6, <2>8, <3>1 DEF AllAdmitted
      <3>4. QED
        BY <2>1, <3>1, <3>2, <3>3 DEF WorkInv, Complete
    <2>9. CASE ~filter.filtered /\ visited.phase # "failed" /\ e.kind # "file" /\ walk' = went
      <3>1. e.kind = "dir" /\ s[b].kind = "dir"
        <4> HIDE DEF e
        <4>1. QED
          BY <2>1, <2>9 DEF Entry
      <3>2. Remembers(s, query, b, known1)
        <4>1. DOMAIN known1 = {<<>>, b} /\ known1[b] = filter
              /\ (b # <<>> => known1[<<>>] = root)
          <5> HIDE DEF filter, root, e
          <5>1. QED
            OBVIOUS
        <4>2. root = Ideal(s, query, b, <<>>)
          <5>1. Walk!Visible(s, query, b, <<>>)
            BY <1>2, <2>1, VisibleFirst
          <5>2. Walk!Entered(query, <<>>, <<>>) = Rules(s, query, <<>>)
            BY <1>2, EnteredIs
          <5>3. QED
            BY <5>1, <5>2 DEF Ideal
        <4>3. <<>> \in Paths
          BY EmptySeq DEF Paths
        <4>4. filter = Ideal(s, query, b, b)
          BY <2>2, <3>1
        <4> HIDE DEF filter, root, known1, e
        <4>5. QED
          BY <2>1, <4>1, <4>2, <4>3, <4>4 DEF Remembers
      <3>3. start \in Agenda(s, query, b)
        <4> HIDE DEF filter, e
        <4>1. filter.stack = Rules(s, query, b) /\ Walk!Visible(s, query, b, b)
          BY <2>2, <2>9, <3>1
        <4>2. QED
          BY <2>1, <3>1, <4>1 DEF Agenda
      <3>4. start.path = b
        OBVIOUS
      <3> HIDE DEF visited, filter, e, start, known1
      <3>5. /\ IsWorker(walk') /\ walk'.base = b /\ walk'.phase = "pop" /\ walk'.found = visited.found
            /\ walk'.records = visited.records /\ walk'.diagnostics = visited.diagnostics
            /\ walk'.seen = {b} /\ walk'.cache = known1 /\ walk'.pending = <<start>>
        BY <2>6, <2>9 DEF IsWorker, WorkerFields
      <3>6. AllAdmitted(s, query, walk')
        BY <2>6, <2>9, <3>5 DEF AllAdmitted
      <3>7. Walking(s, query, walk')
        BY <2>1, <3>1, <3>2, <3>3, <3>5 DEF Walking
      <3>8. ASSUME NEW p \in DOMAIN tree, Wanted(s, query, b, p), NEW m \in Len(b)..Len(p),
                   Walk!Prefix(p, m) \in walk'.seen, ~Told(s, query, walk', p)
            PROVE  \E k \in m..(Len(p) - 1) : Waits(walk', p, k)
        <4>1. Len(b) <= Len(p) /\ b = Walk!Prefix(p, Len(b))
          BY <2>3, <3>8
        <4>2. m \in 0..Len(p) /\ m = Len(b)
          <5>1. m \in 0..Len(p)
            BY <1>3, <2>1
          <5>2. Len(Walk!Prefix(p, m)) = m /\ Walk!Prefix(p, m) = b
            BY <1>3, <3>5, <3>8, <5>1, Prefixes DEF Paths
          <5>3. QED
            BY <5>1, <5>2
        <4>3. Len(b) # Len(p)
          <5> SUFFICES ASSUME Len(b) = Len(p) PROVE FALSE
            OBVIOUS
          <5>1. p = b
            BY <1>3, <4>1, WholePrefix DEF Paths
          <5>2. Walk!Asked(query, s, b, b)
            BY <3>8, <5>1 DEF Wanted
          <5>3. b # <<>> /\ query.kind = "glob"
            BY <1>2, <3>1, <5>2 DEF Walk!Asked
          <5>4. Told(s, query, visited, b)
            BY <2>6, <2>9, <5>2, <5>3
          <5>5. Told(s, query, walk', p)
            BY <3>5, <5>1, <5>4 DEF Told
          <5>6. QED
            BY <3>8, <5>5
        <4>4. m \in m..(Len(p) - 1)
          BY <1>3, <2>1, <4>1, <4>2, <4>3
        <4>5. 1 \in 1..Len(walk'.pending) /\ walk'.pending[1].path = Walk!Prefix(p, m)
          BY <3>4, <3>5, <4>1, <4>2
        <4>6. QED
          BY <4>4, <4>5 DEF Waits
      <3>9. Complete(s, tree, query, walk')
        <4>1. \A p \in DOMAIN tree : Wanted(s, query, b, p) =>
                 Walk!IsPrefix(b, p) /\ \A m \in Len(b)..Len(p) : Owed(s, query, walk', p, m)
          BY <2>3, <3>8 DEF Owed
        <4>2. QED
          BY <3>5, <4>1 DEF Complete
      <3>10. QED
        BY <2>1, <3>5, <3>6, <3>7, <3>9 DEF WorkInv
    <2>10. QED
      <3> HIDE DEF e, over, done, went, visited, filter
      <3>1. QED
        BY <1>1, <1>5, <2>5, <2>7, <2>8, <2>9
  <1>6. QED
    BY <1>4, <1>5

-----------------------------------------------------------------------------
(* The walk: every step, and what it comes to *)

\* Every tree and query a workspace may begin with.
LEMMA WalkBegin ==
    ASSUME Walk!WalkInit
    PROVE  WalkInv
  <1>1. tree \in Trees /\ first = tree /\ query \in Queries /\ walk = Walk!Worker("begin")
    BY DEF Walk!WalkInit
  <1>2. /\ DOMAIN tree \subseteq Paths /\ <<>> \in DOMAIN tree /\ tree[<<>>].kind = "dir"
        /\ \A p \in DOMAIN tree :
              /\ tree[p] \in [kind : {"dir", "file", "link", "escape"}, target : Paths,
                              readable : BOOLEAN, lines : Seq(STRING),
                              rules : Seq([name : STRING, keep : BOOLEAN, directories : BOOLEAN])]
              /\ p # <<>> => Walk!Front(p) \in DOMAIN tree /\ tree[Walk!Front(p)].kind = "dir"
    BY <1>1, TreeAssumption DEF Paths
  <1>3. Kept(first, tree)
    BY <1>1, <1>2 DEF Kept, Closed, SameNode
  <1>4. (\A p \in DOMAIN tree : IsNode(tree[p])) /\ SeqRules(first)
    BY <1>1, <1>2 DEF IsNode, SeqRules
  <1>5. Asking(query)
    BY <1>1, TreeAssumption DEF Asking, Controls, Paths
  <1>6. WorkInv(first, tree, query, walk)
    <2>1. IsWorker(walk) /\ walk.base = <<>> /\ walk.phase = "begin" /\ walk.found = {}
      BY <1>1 DEF Walk!Worker, IsWorker, WorkerFields
    <2>2. <<>> \in Paths
      BY EmptySeq DEF Paths
    <2>3. QED
      BY <2>1, <2>2 DEF WorkInv, AllAdmitted, Complete
  <1>7. QED
    BY <1>3, <1>4, <1>5, <1>6 DEF WalkInv

\* A step of the worker, of the client or of the tree.
LEMMA WalkSteps ==
    ASSUME WalkInv, Walk!WalkNext
    PROVE  WalkInv'
  <1>1. /\ Kept(first, tree) /\ (\A p \in DOMAIN tree : IsNode(tree[p])) /\ Asking(query)
        /\ SeqRules(first) /\ WorkInv(first, tree, query, walk)
    BY DEF WalkInv
  <1>2. ASSUME UNCHANGED <<first, tree, query>>, WorkInv(first, tree, query, walk')
        PROVE  WalkInv'
    BY <1>1, <1>2 DEF WalkInv
  <1>3. CASE Walk!Change
    <2>1. /\ Kept(first, tree') /\ \A p \in DOMAIN tree' : IsNode(tree'[p])
          /\ DOMAIN tree' \subseteq DOMAIN tree
          /\ UNCHANGED <<first, query, walk>>
      BY <1>1, <1>3, ChangeStep
    <2>2. WorkInv(first, tree', query, walk)
      BY <1>1, <2>1, FewerOwed
    <2>3. QED
      BY <1>1, <2>1, <2>2 DEF WalkInv
  <1>4. CASE Walk!Open
    <2>1. UNCHANGED <<first, tree, query>>
      BY <1>4 DEF Walk!Open
    <2>2. QED
      BY <1>1, <1>2, <1>4, <2>1, OpenStep
  <1>5. CASE Walk!Pop
    <2>1. UNCHANGED <<first, tree, query>>
      BY <1>5 DEF Walk!Pop
    <2>2. QED
      BY <1>1, <1>2, <1>5, <2>1, PopStep
  <1>6. CASE Walk!Name
    <2>1. UNCHANGED <<first, tree, query>>
      BY <1>6 DEF Walk!Name
    <2>2. QED
      BY <1>1, <1>2, <1>6, <2>1, NameStep
  <1>7. CASE Walk!NamesEnd \/ Walk!WalkEnds \/ Walk!Stopped \/ Walk!DeliverWalk
    <2>1. UNCHANGED <<first, tree, query>>
      BY <1>7 DEF Walk!NamesEnd, Walk!WalkEnds, Walk!Stopped, Walk!DeliverWalk
    <2>2. QED
      BY <1>1, <1>2, <1>7, <2>1, EndSteps
  <1>8. CASE Walk!CancelWalk \/ Walk!Replace
    <2>1. UNCHANGED <<first, tree, query, walk>>
      BY <1>8 DEF Walk!CancelWalk, Walk!Replace
    <2>2. QED
      BY <1>1, <2>1 DEF WalkInv
  <1>9. QED
    BY <1>3, <1>4, <1>5, <1>6, <1>7, <1>8 DEF Walk!WalkNext

LEMMA WalkStays ==
    ASSUME WalkInv, UNCHANGED walkVars
    PROVE  WalkInv'
  BY DEF WalkInv, walkVars

\* What the invariant says of a walk that was delivered is what is promised.
LEMMA WalkPromises ==
    ASSUME WalkInv
    PROVE  Walk!WalkSound /\ Walk!WalkComplete
  <1>1. Kept(first, tree) /\ WorkInv(first, tree, query, walk)
    BY DEF WalkInv
  <1>2. Walk!WalkSound
    BY <1>1 DEF WorkInv, AllAdmitted, Walk!WalkSound
  <1>3. ASSUME walk.phase = "delivered", Walk!KeepsNoDirectories(first), NEW p \in DOMAIN tree,
               Walk!Expected(p)
        PROVE  Walk!Reported(p)
    <2>1. tree[p].kind = first[p].kind
      BY <1>1 DEF Kept, SameNode
    <2>2. Wanted(first, query, walk.base, p)
      BY <1>3, <2>1 DEF Wanted, Walk!Expected, Walk!Asked
    <2>3. Told(first, query, walk, p)
      BY <1>1, <1>3, <2>2 DEF WorkInv, Complete
    <2>4. QED
      BY <2>3 DEF Told, Walk!Reported
  <1>4. QED
    BY <1>2, <1>3 DEF Walk!WalkComplete

-----------------------------------------------------------------------------
(* The parts of the workspace together *)

\* The invariant of the part a behaviour is.
WorkspaceInv ==
    /\ focus = "pages" => PagesInv /\ EditsInv
    /\ focus = "walk" => WalkInv

\* Each part begins in its invariant.
LEMMA WorkspaceBegin ==
    ASSUME Init
    PROVE  WorkspaceInv
  <1>1. /\ focus = "pages" => Pages!Init
        /\ focus = "walk" => Walk!WalkInit
    BY Zenon DEF Init
  <1>2. QED
    BY <1>1, PagesStart, WalkBegin DEF WorkspaceInv

\* A step is one of the part the behaviour is, and keeps its invariant.
LEMMA WorkspaceStep ==
    ASSUME WorkspaceInv, [Next]_vars
    PROVE  WorkspaceInv' /\ (focus = "pages" => Pages!TerminatorsLocal)
  <1>1. CASE focus = "pages" /\ Pages!Next /\ UNCHANGED focus
    BY <1>1, PagesGoOn DEF WorkspaceInv
  <1>2. CASE focus = "walk" /\ Walk!WalkNext /\ UNCHANGED focus
    BY <1>2, WalkSteps DEF WorkspaceInv
  <1>3. CASE focus \in {"github", "jira", "launch", "discovery"} /\ UNCHANGED focus
    BY <1>3 DEF WorkspaceInv
  <1>4. CASE UNCHANGED vars
    <2>1. UNCHANGED focus /\ UNCHANGED pageVars /\ UNCHANGED walkVars
      BY <1>4, Zenon DEF vars
    <2>2. UNCHANGED <<text, page, expected, atEofClash>>
      BY <2>1 DEF pageVars
    <2>3. QED
      BY <2>1, <2>2, PagesRest, WalkStays DEF WorkspaceInv
  <1>5. QED
    <2>1. Next \/ UNCHANGED vars
      OBVIOUS
    <2>2. ASSUME Next
          PROVE  \/ focus = "pages" /\ Pages!Next /\ UNCHANGED focus
                 \/ focus = "walk" /\ Walk!WalkNext /\ UNCHANGED focus
                 \/ focus \in {"github", "jira", "launch", "discovery"} /\ UNCHANGED focus
      BY <2>2, Zenon DEF Next
    <2>3. QED
      BY <2>1, <2>2, <1>1, <1>2, <1>3, <1>4

\* So the invariant holds in every state of every behaviour.
LEMMA WorkspaceInvariance == Spec => []WorkspaceInv
  BY WorkspaceBegin, WorkspaceStep, PTL DEF Spec

-----------------------------------------------------------------------------
(* The theorems *)

\* Following the continuations of a page delivers the whole artifact in order, each
\* token once, and stops at its end and not before, for every text, selector and
\* limit, also when they differ from page to page, and after edits (read.rs,
\* page_prefix_len; artifact.rs).
THEOREM PagesLoseNothingAlways == Spec => []PagesLoseNothing
  <1>1. WorkspaceInv => PagesLoseNothing
    BY PagesWhole DEF WorkspaceInv, PagesLoseNothing
  <1>2. QED
    BY <1>1, WorkspaceInvariance, PTL

\* An accepted patch does to the rows of the text what its hunks say of them, in
\* whatever order they are listed, for every text, body and sequence of patches,
\* but for those at the end of the text that EofClash names; and it brings in no
\* terminator the text did not use (mutation.rs, apply_patch, build_body).
THEOREM EditsFaithfulAlways == Spec => EditsFaithful
  <1>1. WorkspaceInv => (focus = "pages" => Pages!EditsRowwise)
    BY DEF WorkspaceInv, EditsInv, Pages!EditsRowwise
  <1>2. WorkspaceInv /\ [Next]_vars => [focus = "pages" => Pages!TerminatorsLocal]_vars
    BY WorkspaceStep
  <1>3. QED
    BY <1>1, <1>2, WorkspaceInvariance, PTL DEF Spec, EditsFaithful

\* Whatever a walk finds is there and admitted where it really is, by whatever
\* route it was reached and however links were switched meanwhile; and what a
\* query asks for, the filters admit and was there all the time is found, with
\* its lines, or has a diagnostic, unless the query failed as a whole: for every
\* tree, query, budget and order of changes (filesystem.rs, walk_workspace,
\* final_entry_ignore_stack).
THEOREM WalkExactAlways == Spec => []WalkExact
  <1>1. WorkspaceInv => WalkExact
    BY WalkPromises DEF WorkspaceInv, WalkExact
  <1>2. QED
    BY <1>1, WorkspaceInvariance, PTL
=============================================================================
