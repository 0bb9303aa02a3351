----------------------------- MODULE MCSessionStore -----------------------------
(***************************************************************************)
(* SessionStore for TLC: two servers, and the storage of a third one that  *)
(* was there before them.                                                  *)
(***************************************************************************)
EXTENDS SessionStore

\* Server 1 keeps nothing, the others for one tick.
MCTtl == [p \in Process |-> IF p = 1 THEN 0 ELSE 1]

\* Server 3 has ended before the clock moved: it crashed on the way to serve,
\* it crashed while it served, or it left after its disconnect.
LeftBehind ==
    {[of |-> {"dir", "objects"}, at |-> [m \in Marker |-> 0], gone |-> FALSE],
     [of |-> {"dir", "objects", "lease", "live"},
      at |-> [m \in Marker |-> IF m = "live" THEN 1 ELSE 0], gone |-> FALSE],
     [of |-> Entry, at |-> [m \in Marker |-> 1], gone |-> TRUE]}

\* A state the system reaches from Init.
MCInit ==
    \E left \in LeftBehind :
        /\ clock = 1
        /\ pc = [p \in Process |-> IF p = 3 THEN "ended" ELSE "off"]
        /\ began = [p \in Process |-> IF p = 3 THEN 1 ELSE 0]
        /\ todo = [p \in Process |-> {}]
        /\ hand = [p \in Process |-> None]
        /\ at = [p \in Process |-> "pick"]
        /\ files = [p \in Process |-> IF p = 3 THEN left.of ELSE {}]
        /\ stamp = [p \in Process |-> IF p = 3 THEN left.at ELSE [m \in Marker |-> 0]]
        /\ holder = [p \in Process |-> None]
        /\ writing = [p \in Process |-> FALSE]
        /\ closed = [p \in Process |-> p = 3 /\ left.gone]
        /\ told = [p \in Process |-> IF p = 3 /\ left.gone THEN "ok" ELSE "unset"]

\* Server 3 takes no step any more.
MCSpec ==
    /\ MCInit /\ [][Next]_vars
    /\ \A p \in {1, 2} : WF_vars(Step(p)) /\ WF_vars(EndWrite(p))

=============================================================================
