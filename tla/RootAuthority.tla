----------------------------- MODULE RootAuthority -----------------------------
(***************************************************************************)
(* Which Workspace Roots a server serves, while the client changes them:   *)
(* root_sync of crates/resourcefs-mcp/src/server.rs and AuthorityState of  *)
(* crates/resourcefs-sources/src/filesystem.rs.                            *)
(*                                                                         *)
(* A client that supports roots announces changes; every tool call first   *)
(* brings the authority up to date (refresh_client_roots), asking the      *)
(* client for its roots, one call at a time and five seconds at most, and  *)
(* is then served.  Handlers run concurrently, in no order among them.     *)
(*                                                                         *)
(* A WorkspaceView is its set of roots.  A root stands for the directory   *)
(* and its identifier; two roots may have one identifier (an operator may  *)
(* name a launch root as the client's is named, by digest).                *)
(***************************************************************************)
EXTENDS Naturals

CONSTANTS
    Call,        \* requests: tool calls, and tools/list
    Mutation,    \* those that write or edit in a Workspace
    Root,
    IdOf,        \* root -> its WorkspaceRootId
    Launch,      \* the roots of the launch
    ClientRoots, \* version -> what the client answers to roots/list then
    Versions,    \* bound: how many versions the client goes through
    None

ASSUME CallAssumption == Mutation \subseteq Call

\* WorkspaceRootSet::new refuses a set in which one identifier is given twice.
Distinct(roots) == \A r \in roots, s \in roots : IdOf[r] = IdOf[s] => r = s

ASSUME RootAssumption == Launch \subseteq Root /\ None \notin Root /\ Distinct(Launch)

ASSUME ClientAssumption ==
    /\ Versions \in Nat /\ Versions >= 1 /\ ClientRoots \in [1 .. Versions -> SUBSET Root]
    /\ \A v \in 1 .. Versions : Distinct(ClientRoots[v])

ASSUME NoneAssumption == None \notin Call /\ \A roots \in SUBSET Root : roots # None

VARIABLES
    declared,  \* the version the client is at
    notices,   \* roots/list_changed notifications not handled yet, by version
    greeted,   \* the notification that the client is initialized was handled
    known,     \* the newest version the server has been told of
    authority, \* FilesystemSource.authority
    guard,     \* the calls that have it locked for reading, for a mutation
    history,   \* FilesystemSource.identity_history
    seen,      \* root_sync.state is not Unseen
    pending,   \* the epoch of root_sync.state if it is Pending, 0 otherwise
    turn,      \* the call that has root_sync.acquisition, or None
    timers,    \* epochs whose acquisition was started and not yet timed out
    late,      \* epochs whose deadline has passed
    failed,    \* the last epoch whose acquisition failed, 0 for none
    pc,        \* call -> what it is doing, or how it was answered
    task,      \* call -> what its handler knows, see Idle
    cancelled  \* the calls the client has cancelled

client == <<declared, notices, greeted, known>>
sync == <<seen, pending, turn>>
clocks == <<timers, late, failed>>
call == <<pc, task, cancelled>>

vars == <<client, authority, guard, history, sync, clocks, call>>

\* The view of a refreshing authority is its baseline; None where there is
\* nothing to compare with.
Authority == [state : {"active", "refreshing", "disabled"}, epoch : Nat,
              generation : Nat, view : {None} \cup SUBSET Root]

\* The epoch a call acquires the roots for and the version the client answered
\* with, the root it reads or changes and the generation it reads under; 0 or
\* None for none yet.
Knowledge == [epoch : Nat, got : 0 .. Versions, target : {None} \cup Root, gen : Nat]

Idle == [epoch |-> 0, got |-> 0, target |-> None, gen |-> 0]

Answer == {"served", "refused", "cancelled", "elsewhere"}

\* In the order of a call; the last three are those of a mutation.
Phase == {"off", "waiting", "turn", "asking", "installing", "withdrawing",
          "ready", "reading", "resolved", "loaded", "committing"} \cup Answer

\* An empty set of the client's brings the roots of the launch back.
RootsOf(v) == IF v = 0 \/ ClientRoots[v] = {} THEN Launch ELSE ClientRoots[v]

Init ==
    /\ declared = 1 /\ notices = {} /\ greeted = FALSE /\ known = 0
    /\ authority = [state |-> "active", epoch |-> 0, generation |-> 1, view |-> Launch]
    /\ guard = {}
    /\ history = Launch
    /\ seen = FALSE /\ pending = 0 /\ turn = None
    /\ timers = {} /\ late = {} /\ failed = 0
    /\ pc = [c \in Call |-> "off"]
    /\ task = [c \in Call |-> Idle]
    /\ cancelled = {}

----------------------------------------------------------------------------
\* The authority.  Whoever changes it waits for the mutations that hold it.

\* begin_client_root_refresh
BeginRefresh ==
    /\ guard = {}
    /\ authority' = [authority EXCEPT !.state = "refreshing", !.epoch = @ + 1]

Current(epoch) == authority.state = "refreshing" /\ authority.epoch = epoch

Disabled == [authority EXCEPT !.state = "disabled", !.view = None]

\* disable_refresh: of another refresh, or one that is done, nothing is left to
\* disable.
Disable(epoch) ==
    /\ guard = {}
    /\ authority' = IF Current(epoch) THEN Disabled ELSE authority

\* Mutant: the candidate is put in force whatever came after it.
MayInstallAny(epoch) == authority.state = "refreshing"

MayInstall(epoch) == Current(epoch)

\* An identifier that named another directory before.
Conflicts(roots) ==
    \E r \in roots, s \in history : IdOf[r] = IdOf[s] /\ r # s

\* Mutant: a new view is not told from the old one.
AppliedSilently(roots) == [authority EXCEPT !.state = "active", !.view = roots]

\* The candidate becomes the view; the generation tells a new view from the
\* old one.
Applied(roots) ==
    [authority EXCEPT !.state = "active", !.view = roots,
                      !.generation = IF roots = authority.view THEN @ ELSE @ + 1]

----------------------------------------------------------------------------
\* The client and its notifications.

Know(v) == known' = IF v > known THEN v ELSE known

ChangeRoots ==
    /\ declared < Versions
    /\ declared' = declared + 1
    /\ notices' = notices \cup {declared + 1}
    /\ UNCHANGED <<greeted, known, authority, guard, history, sync, clocks, call>>

\* RequestCancellations: a notification of the client's, at any time before the
\* call is answered.
Cancel(c) ==
    /\ pc[c] \notin Answer \cup {"off"} /\ c \notin cancelled
    /\ cancelled' = cancelled \cup {c}
    /\ UNCHANGED <<client, authority, guard, history, sync, clocks, pc, task>>

\* mark_client_roots_pending, when it supersedes what is pending.
MarkPending ==
    /\ BeginRefresh
    /\ seen' = TRUE
    /\ pending' = authority.epoch + 1

\* on_initialized, which leaves a refresh that was begun before alone.
OnInitialized ==
    /\ ~greeted
    /\ greeted' = TRUE
    /\ IF seen THEN UNCHANGED <<authority, seen, pending, known>>
               ELSE MarkPending /\ Know(1)
    /\ UNCHANGED <<declared, notices, guard, history, turn, clocks, call>>

OnRootsListChanged(v) ==
    /\ v \in notices
    /\ notices' = notices \ {v}
    /\ MarkPending /\ Know(v)
    /\ UNCHANGED <<declared, greeted, guard, history, turn, clocks, call>>

----------------------------------------------------------------------------
\* refresh_client_roots_with_cancellation, at the start of every call.

Goto(c, phase) == pc' = [pc EXCEPT ![c] = phase]

\* What a handler knew goes with it, and so does the cancellation of its call.
Conclude(c, answer) ==
    /\ Goto(c, answer)
    /\ task' = [task EXCEPT ![c] = Idle]
    /\ cancelled' = cancelled \ {c}

Begin(c) ==
    /\ pc[c] = "off" /\ Goto(c, "waiting")
    /\ UNCHANGED <<client, authority, guard, history, sync, clocks, task, cancelled>>

\* Arguments that do not parse, or a tool that is not known, are answered at
\* once.
Reject(c) ==
    /\ pc[c] = "off" /\ Conclude(c, "elsewhere")
    /\ UNCHANGED <<client, authority, guard, history, sync, clocks>>

TakeTurn(c) ==
    /\ pc[c] = "waiting" /\ turn = None /\ c \notin cancelled
    /\ Goto(c, "turn") /\ turn' = c
    /\ UNCHANGED <<client, authority, guard, history, seen, pending, clocks, task, cancelled>>

\* Mutant: the acquisition has no clock of its own.
AcquireUntimed(c, epoch) ==
    /\ Goto(c, "asking")
    /\ task' = [task EXCEPT ![c].epoch = epoch]
    /\ UNCHANGED timers

\* start_client_root_acquisition: the clock starts.
Acquire(c, epoch) ==
    /\ Goto(c, "asking")
    /\ task' = [task EXCEPT ![c].epoch = epoch]
    /\ timers' = timers \cup {epoch}

\* take_pending_root_refresh; the turn is over when nothing is pending.
TakePending(c) ==
    /\ pc[c] = "turn" /\ pending' = 0 /\ seen' = TRUE
    /\ \/ ~seen /\ BeginRefresh /\ Know(1) /\ Acquire(c, authority.epoch + 1) /\ UNCHANGED turn
       \/ /\ pending # 0 /\ Acquire(c, pending)
          /\ UNCHANGED <<authority, known, turn>>
       \/ /\ seen /\ pending = 0 /\ Goto(c, "ready") /\ turn' = None
          /\ UNCHANGED <<authority, known, task, timers>>
    /\ UNCHANGED <<declared, notices, greeted, guard, history, late, failed, cancelled>>

\* The client answers roots/list with what it has at that moment.
ClientAnswers(c) ==
    /\ pc[c] = "asking" /\ task[c].got = 0
    /\ task' = [task EXCEPT ![c].got = declared]
    /\ UNCHANGED <<client, authority, guard, history, sync, clocks, pc, cancelled>>

Receive(c) ==
    /\ pc[c] = "asking" /\ task[c].got # 0 /\ c \notin cancelled
    /\ Goto(c, "installing")
    /\ UNCHANGED <<client, authority, guard, history, sync, clocks, task, cancelled>>

\* The acquisition is over, and the call looks for another.
NextTurn(c) == Goto(c, "turn") /\ task' = [task EXCEPT ![c] = Idle] /\ UNCHANGED cancelled

\* fail_client_root_refresh: no answer in time, an error for an answer, or roots
\* that cannot be opened (in time).
AcquisitionFails(c) ==
    /\ \/ pc[c] = "asking" /\ c \notin cancelled
       \/ pc[c] = "installing"
    /\ Disable(task[c].epoch)
    /\ failed' = IF Current(task[c].epoch) THEN task[c].epoch ELSE failed
    /\ NextTurn(c)
    /\ UNCHANGED <<client, guard, history, sync, timers, late>>

\* The end of complete_client_root_refresh, for an answer that is superseded, one
\* that cannot be accepted, and one that is put in force.
Install(c) ==
    /\ pc[c] = "installing" /\ guard = {}
    /\ LET epoch == task[c].epoch
           roots == RootsOf(task[c].got) IN
       \/ /\ ~MayInstall(epoch)
          /\ UNCHANGED <<authority, history, failed>>
       \/ /\ MayInstall(epoch) /\ (epoch \in late \/ Conflicts(roots))
          /\ authority' = Disabled /\ failed' = epoch /\ UNCHANGED history
       \/ /\ MayInstall(epoch) /\ epoch \notin late /\ ~Conflicts(roots)
          /\ authority' = Applied(roots) /\ history' = history \cup roots
          /\ UNCHANGED failed
    /\ NextTurn(c)
    /\ UNCHANGED <<client, guard, sync, timers, late>>

\* A call that is cancelled while the client is asked gives its refresh up ...
Withdraw(c) ==
    /\ pc[c] = "asking" /\ c \in cancelled
    /\ Disable(task[c].epoch)
    /\ Goto(c, "withdrawing")
    /\ UNCHANGED <<client, guard, history, sync, clocks, task, cancelled>>

\* ... and leaves one behind for the next.
LeavePending(c) ==
    /\ pc[c] = "withdrawing" /\ MarkPending /\ turn' = None
    /\ Conclude(c, "cancelled")
    /\ UNCHANGED <<client, guard, history, clocks>>

\* The clock of an acquisition, which knows no call.
Deadline(epoch) ==
    /\ epoch \in timers \ late
    /\ late' = late \cup {epoch}
    /\ UNCHANGED <<client, authority, guard, history, sync, timers, failed, call>>

TimeOut(epoch) ==
    /\ epoch \in timers \cap late
    /\ timers' = timers \ {epoch}
    /\ Disable(epoch)
    /\ UNCHANGED <<client, guard, history, sync, late, failed, call>>

----------------------------------------------------------------------------
\* The call itself.

\* Cancelled before a mutation begins to commit; a stage on the blocking pool
\* goes on.
GiveUp(c) ==
    /\ pc[c] \in {"waiting", "ready", "reading", "resolved", "loaded"} /\ c \in cancelled
    /\ Conclude(c, "cancelled")
    /\ UNCHANGED <<client, authority, guard, history, sync, clocks>>

\* Calls to other sources.
Elsewhere(c) ==
    /\ pc[c] = "ready" /\ c \notin guard /\ c \notin cancelled
    /\ Conclude(c, "elsewhere")
    /\ UNCHANGED <<client, authority, guard, history, sync, clocks>>

\* What reads, searches and globs in a Workspace start from; a reference into
\* another root, or a failure while reading, is refused.
View(c) ==
    /\ pc[c] = "ready" /\ c \notin Mutation /\ c \notin cancelled
    /\ \/ /\ authority.state = "active" /\ Goto(c, "reading")
          /\ \E r \in authority.view :
               task' = [task EXCEPT ![c].target = r, ![c].gen = authority.generation]
          /\ UNCHANGED cancelled
       \/ Conclude(c, "refused")
    /\ UNCHANGED <<client, authority, guard, history, sync, clocks>>

\* validate_read_delivery
Valid(c) ==
    /\ authority.state = "active"
    /\ authority.generation = task[c].gen \/ task[c].target \in authority.view

Deliver(c) ==
    /\ pc[c] = "reading" /\ c \notin cancelled
    /\ Conclude(c, IF Valid(c) THEN "served" ELSE "refused")
    /\ UNCHANGED <<client, authority, guard, history, sync, clocks>>

\* What the reference of a call names in the current view; at first any root.
Named(c) ==
    {r \in authority.view : task[c].target # None => IdOf[r] = IdOf[task[c].target]}

Uncancelled(c) == pc[c] = "committing" \/ c \notin cancelled

\* mutation_authority_guard, for resolve, load and commit in turn.
EnterStage(c) ==
    /\ c \in Mutation /\ c \notin guard /\ Uncancelled(c)
    /\ pc[c] \in {"ready", "resolved", "committing"}
    /\ \/ /\ authority.state = "active" /\ guard' = guard \cup {c}
          /\ \E r \in Named(c) : task' = [task EXCEPT ![c].target = r]
          /\ UNCHANGED <<pc, cancelled>>
       \/ Conclude(c, "refused") /\ UNCHANGED guard
    /\ UNCHANGED <<client, authority, history, sync, clocks>>

\* The end of a stage, on the blocking pool; with commit, the change has been
\* made.  Any stage may fail, and nobody waits for one that was given up.
ExitStage(c) ==
    /\ c \in guard
    /\ guard' = guard \ {c}
    /\ IF pc[c] \in Answer \/ ~Uncancelled(c) THEN UNCHANGED call
       ELSE \/ pc[c] = "ready" /\ Goto(c, "resolved") /\ UNCHANGED <<task, cancelled>>
            \/ pc[c] = "resolved" /\ Goto(c, "loaded") /\ UNCHANGED <<task, cancelled>>
            \/ pc[c] = "committing" /\ Conclude(c, "served")
            \/ Conclude(c, "refused")
    /\ UNCHANGED <<client, authority, history, sync, clocks>>

\* OperationGuard::begin_commit, unless the patch fails before.
BeginCommit(c) ==
    /\ pc[c] = "loaded" /\ c \notin cancelled
    /\ \/ Goto(c, "committing") /\ UNCHANGED <<task, cancelled>>
       \/ Conclude(c, "refused")
    /\ UNCHANGED <<client, authority, guard, history, sync, clocks>>

Refresh(c) ==
    \/ TakeTurn(c) \/ TakePending(c) \/ Receive(c) \/ Install(c)
    \/ Withdraw(c) \/ LeavePending(c)
    \/ task[c].epoch \in late /\ AcquisitionFails(c)

Serve(c) ==
    \/ GiveUp(c) \/ Elsewhere(c) \/ View(c) \/ Deliver(c)
    \/ EnterStage(c) \/ BeginCommit(c)

Clock == \E epoch \in timers : Deadline(epoch) \/ TimeOut(epoch)

Next ==
    \/ ChangeRoots \/ OnInitialized \/ \E v \in notices : OnRootsListChanged(v)
    \/ Clock
    \/ \E c \in Call : \/ Cancel(c) \/ Begin(c) \/ Reject(c) \/ ClientAnswers(c)
                       \/ Refresh(c) \/ AcquisitionFails(c) \/ Serve(c) \/ ExitStage(c)

Spec == Init /\ [][Next]_vars

\* Time passes, and the blocking pool comes to an end with what it is given; a
\* call goes on when it can, but the client need not answer.
Fairness ==
    /\ WF_vars(Clock)
    /\ \A c \in Call : WF_vars(ExitStage(c)) /\ WF_vars(Refresh(c)) /\ WF_vars(Serve(c))

FairSpec == Spec /\ Fairness

----------------------------------------------------------------------------

\* The types, and that the authority is active while a mutation holds it.
TypeOK ==
    /\ declared \in 1 .. Versions /\ known \in 0 .. Versions
    /\ notices \subseteq 1 .. Versions /\ greeted \in BOOLEAN
    /\ authority \in Authority
    /\ authority.state = "active" => authority.view # None
    /\ guard \subseteq Mutation /\ (guard # {} => authority.state = "active")
    /\ history \subseteq Root
    /\ seen \in BOOLEAN /\ pending \in Nat /\ turn \in Call \cup {None}
    /\ timers \subseteq Nat /\ late \subseteq Nat /\ failed \in Nat
    /\ pc \in [Call -> Phase]
    /\ task \in [Call -> Knowledge]
    /\ cancelled \subseteq Call

\* Once the server has handled a change, it never serves by older roots: not by
\* an answer of the client's that was on its way, and not by what an earlier
\* refresh fell back to (complete_client_root_refresh against
\* mark_client_roots_pending).
AuthorityFresh ==
    authority.state = "active" => \E v \in known .. declared : authority.view = RootsOf(v)

\* What is read, found or changed in a Workspace lies in a root the client has
\* not taken away as far as the server knows, although the authority changed
\* while the call was under way (validate_read_delivery,
\* mutation_authority_guard); and the roots of the launch serve nobody before
\* the client was asked for its own.
ServedInForce ==
    [][\A c \in Call : pc'[c] = "served" /\ pc[c] # "served" =>
           \E v \in 1 .. declared : v >= known /\ task[c].target \in RootsOf(v)]_vars

\* The authority is not lost: while it is refreshing the next call will ask for
\* the roots, or a clock ends it; and it is disabled only by an acquisition that
\* failed, never by a call that was merely cancelled.
UnavailableForCause ==
    /\ authority.state = "refreshing" => authority.epoch \in {pending} \cup timers
    /\ authority.state = "disabled" => \/ authority.epoch \in {failed} \cup late
                                       \/ \E c \in Call : pc[c] = "withdrawing"

\* Between the stages of a call, the identifier of its root does not come to
\* name another one (identity_history).
ReferencesStable ==
    \A c \in Call : task[c].target # None /\ authority.state = "active" =>
        \A r \in authority.view : IdOf[r] = IdOf[task[c].target] => r = task[c].target

\* What the server holds of the client's roots is what it was told, for as long
\* as it serves by it: not older, not lost, not renamed.
AuthoritySound == AuthorityFresh /\ UnavailableForCause /\ ReferencesStable

\* Every call is answered, though the client may never answer the server and may
\* change its roots while it is asked.
CallsAnswered == \A c \in Call : pc[c] = "waiting" ~> pc[c] \in Answer

=============================================================================
