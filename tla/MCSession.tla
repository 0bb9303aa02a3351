------------------------------ MODULE MCSession ------------------------------
(***************************************************************************)
(* SerialSession for TLC.  A behaviour is a session of artifacts, scratch,  *)
(* cache and journal, or one of artifacts, cache and snapshots: the         *)
(* constants hold what either may use, and the two instances of PathSession *)
(* what each does.                                                          *)
(***************************************************************************)
EXTENDS MCPathSession, SerialSession

VARIABLE focus      \* what the session is used for

Objects == INSTANCE PathSession
    WITH Snapshot <- {}, Line <- {}, Mutation <- {}

Pages == INSTANCE PathSession
    WITH Content <- {a}, Name <- {}, CacheKey <- {k1}, EntryBytes <- {2}, Operation <- {},
         MaxArtifacts <- 2, MaxObjectId <- 2, MaxLate <- 0

MCInit == SerialInit /\ focus \in {"objects", "snapshots"}

MCNext ==
    /\ \/ focus = "objects"   /\ Objects!Next
       \/ focus = "snapshots" /\ Pages!Next
    /\ Observe
    /\ UNCHANGED focus

MCSpec == MCInit /\ [][MCNext]_<<serialVars, focus>> /\ Fairness
===============================================================================
