------------------------------ MODULE MCMutation ------------------------------
(***************************************************************************)
(* MutationEngine for TLC.  A behaviour is two calls that change the same    *)
(* two files while other programs do, or three that create remote objects,   *)
(* in a build without debug assertions: the constants hold what either may   *)
(* use.  Calls are alike, so they are named in the order they are submitted. *)
(***************************************************************************)
EXTENDS MutationEngine

CONSTANTS x, y, o1, o2

VARIABLE focus  \* what the calls are about

Ask(kind, resource, to, base, content, op) ==
    [kind |-> kind, resource |-> resource, to |-> to, base |-> base,
     content |-> content, op |-> op]

\* Two files, 1 holding x and 2 missing.
Files == [r \in Resource |-> IF r = 1 THEN x ELSE None]

\* Every way to change them, two moves that take the same two locks, and one
\* remote request of each kind.
MixedRequests ==
    {Ask("create", 2, 2, None, y, None),
     Ask("replace", 1, 1, x, y, None),
     Ask("edit", 1, 1, x, y, None),
     Ask("remove", 1, 1, x, None, None),
     Ask("move", 1, 2, x, None, None),
     Ask("move", 2, 1, x, None, None),
     Ask("field", 1, 1, x, y, None),
     Ask("post", 2, 2, None, x, o1)}

\* One operation id repeated, with its content, with another content and on
\* another target; a second id.
RemoteRequests ==
    {Ask("post", 2, 2, None, x, o1),
     Ask("post", 2, 2, None, y, o1),
     Ask("post", 3, 3, None, x, o1),
     Ask("post", 2, 2, None, x, o2)}

Requests == MixedRequests \cup RemoteRequests

Remote == INSTANCE MutationEngine
    WITH Request <- RemoteRequests, MaxChanges <- 0, DebugAssertions <- FALSE

MCInit == Init /\ focus \in {"files", "objects"}

MCNext ==
    /\ \/ focus = "files" /\ Next
          /\ request'[3] = None /\ files'[3] = None
          /\ \A c \in Call : request'[c] \in MixedRequests \cup {None}
       \/ focus = "objects" /\ Remote!Next /\ UNCHANGED shown
    /\ \A c \in Call \ {1} : pc'[c] # "idle" => pc'[c - 1] # "idle"
    /\ UNCHANGED focus

MCSpec == MCInit /\ [][MCNext]_<<vars, focus>> /\ Fairness
=============================================================================
