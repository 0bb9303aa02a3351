------------------------------ MODULE Services ------------------------------
(***************************************************************************)
(* Four services of the process that share no state: the locks of           *)
(* mutations, the command executor, the diagnostic log and the cancellation  *)
(* of calls.  A behaviour puts one of them in motion and leaves the others   *)
(* in their initial states.                                                  *)
(***************************************************************************)
EXTENDS MutationLocks

CONSTANTS
    Commands, Permits, Immune,                    \* of the executor
    Levels, EventKinds, QueueDepth, RotationUnits, Retained,
    MaxEvents, MaxRecords, MaxFaults,             \* of the log
    Calls, Ids, IdOf, Mutations                   \* of the cancellations

ASSUME CommandsAssumption == IsFiniteSet(Commands) /\ Permits \in Nat

\* retainFiles is at least one.
ASSUME LogAssumption ==
    Retained \in Nat \ {0} /\ RotationUnits \in Nat /\ QueueDepth \in Nat

ASSUME CallsAssumption == IsFiniteSet(Calls) /\ IdOf \in [Calls -> Ids]

VARIABLES focus,
    step, answer, free, child, rest, reader, input, exit, stop, failed, cancelled, expired,
    level, queue, dropped, refused, drain, sink, family, emitted, lost, silent, written, faults,
    entry, channels, flagged, at, channel, reply, meant, forwarded

Runner == INSTANCE CommandRunner WITH phase <- step

Log == INSTANCE DiagnosticLog

Cancellations == INSTANCE RequestCancellations WITH phase <- at, answer <- reply

runnerVars == <<step, answer, free, child, rest, reader, input, exit, stop, failed,
                cancelled, expired>>
logVars == <<level, queue, dropped, refused, drain, sink, family, emitted, lost, silent,
             written, faults>>
callVars == <<entry, channels, flagged, at, channel, reply, meant, forwarded>>

otherVars == <<runnerVars, logVars, callVars>>

ServicesInit ==
    /\ focus \in {"locks", "commands", "log", "calls"}
    /\ Init /\ Runner!Init /\ Log!Init /\ Cancellations!Init

ServicesNext ==
    \/ focus = "locks"    /\ Next               /\ UNCHANGED <<focus, otherVars>>
    \/ focus = "commands" /\ Runner!Next        /\ UNCHANGED <<focus, vars, logVars, callVars>>
    \/ focus = "log"      /\ Log!Next           /\ UNCHANGED <<focus, vars, runnerVars, callVars>>
    \/ focus = "calls"    /\ Cancellations!Next /\ UNCHANGED <<focus, vars, runnerVars, logVars>>

\* The initial state of a service that is left alone enables no action that
\* its fairness names; what the run says of the log needs none.
ServicesSpec ==
    /\ ServicesInit /\ [][ServicesNext]_<<focus, vars, otherVars>>
    /\ LocksFairness /\ Runner!Fairness /\ Cancellations!Fairness

(***************************************************************************)
(* Properties: those of the locks, and what the three other modules say.    *)
(***************************************************************************)
\* A permit is held until the tree it was taken for is cleaned up, no more trees
\* are alive than there are permits, and a command that returned has left no
\* process of its group behind, or says so (process/mod.rs, run, cleanup_tree and
\* the drop of ChildTree).
TreesAccounted == Runner!PermitsHeld /\ Runner!TreesBounded /\ Runner!ReturnedMeansGone

\* The rotated files are the end of the log, in order, and what was dropped is
\* reported before what was logged after it (logging.rs, rotate and the drain of
\* attach_tracing_bridge).
LogInOrder == Log!FamilyIsTail /\ Log!GapsPrecede

\* Calls that share an id share one cancellation entry to the last of them, and
\* a cancellation does not outlive the calls it was for (server.rs,
\* RequestCancellations).
CancelledForCause == Cancellations!EntriesCounted /\ Cancellations!CancelledForCause

\* Every command returns, whatever its processes do (process/mod.rs, run), and a
\* cancelled call is answered though its work hangs (server.rs,
\* run_under_cancellation).
CallsReturn == Runner!RunsReturn /\ Cancellations!CancelledCallsEnd
=============================================================================
