------------------------------ MODULE MCServices ------------------------------
(* An instance of the four services for TLC. *)
EXTENDS Services, TLC

CONSTANTS callA, callB, callC, id, other

MCEventKinds == {[level |-> 0, own |-> FALSE], [level |-> 2, own |-> TRUE]}

MCIdOf == callA :> id @@ callB :> id @@ callC :> id
=============================================================================
