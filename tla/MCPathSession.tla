--------------------------- MODULE MCPathSession ---------------------------
(* Instances of PathSession for TLC. *)
EXTENDS PathSession

CONSTANTS a, b, k1, k2, k3, s1, s2, s3, m1, m2

\* The digests of a and b collide; b costs more.
Sizes == [x \in Content |-> IF x = a THEN 1 ELSE 2]
Digests == [x \in Content |-> 1]
Namespaces == [k \in CacheKey |-> IF k = k3 THEN 2 ELSE 1]
\* s1 and s2 are versions of two Resources, s3 another version of the first.
Resources == [s \in Snapshot |-> IF s = s2 THEN 2 ELSE 1]
=============================================================================
