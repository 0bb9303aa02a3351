---------------------------- MODULE MCRootAuthority ----------------------------
(***************************************************************************)
(* A client that declares a root of its own, takes it back for those of    *)
(* the launch, and at last declares one with the identifier the operator   *)
(* gave to the root of the launch.                                         *)
(***************************************************************************)
EXTENDS RootAuthority

CONSTANTS r1, m1, l, a, b

MCIdOf == [r \in Root |-> IF r = a THEN "a" ELSE "b"]

MCClientRoots == <<{a}, {}, {b}>>

=============================================================================
