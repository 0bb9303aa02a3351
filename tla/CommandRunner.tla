---------------------------- MODULE CommandRunner ----------------------------
(***************************************************************************)
(* The command executor (process/mod.rs, process/unix.rs): every configured *)
(* command runs in a process group of its own, one shared semaphore bounds  *)
(* the trees alive at a time, and a run races the child's exit, its two     *)
(* output pipes, its input pipe, a deadline and a cancellation.             *)
(*                                                                         *)
(* The executor's steps and the steps of the processes it started           *)
(* interleave freely.  A process group is reduced to the child and "the     *)
(* rest of its group".  A stream may end at any moment and need never end:   *)
(* a process can close it early, and a descendant that left the group can    *)
(* hold it for ever.  Time is the deadline of a run and the two grace        *)
(* periods, each a step that may happen at any moment after it started to    *)
(* count.  Left out: a child whose pipes or identity the runtime does not     *)
(* give, and a wait for it that fails.                                        *)
(***************************************************************************)
EXTENDS Naturals, FiniteSets

CONSTANTS Commands,   \* the calls of run, each with its own guard
          Permits,    \* max_live_trees
          Immune      \* the commands whose processes a signal can not end

Streams == {"stdout", "stderr"}

\* "refused" stands for the input, environment and spawn errors, before there is
\* a process; "cleanup" is the error that outweighs the others; "dropped" and
\* "panicked" are calls that do not answer at all.
Outcomes == {"ok", "refused", "io", "limit", "cancelled", "cleanup", "dropped", "panicked"}

VARIABLES
    phase,      \* where the call of run is
    answer,     \* what the call returned, "none" before
    free,       \* available permits of the semaphore
    child,      \* the direct child: "none", "live", "exited" (unreaped), "reaped"
    rest,       \* other processes of the group: "none", "live", "gone"
    reader,     \* per output stream: "off", "reading", "done", "over", "failed", "aborted"
    input,      \* write_input: "off", "writing", "done"
    exit,       \* exit_status.is_some()
    stop,       \* the ExecutionStop, "none" while there is none
    failed,     \* cleanup_failed
    cancelled,  \* operation.cancelled() is ready
    expired     \* the deadline of the run has passed

vars == <<phase, answer, free, child, rest, reader, input, exit,
          stop, failed, cancelled, expired>>

tree == <<child, rest>>
io   == <<reader, input, exit>>

(***************************************************************************)
(* Vocabulary.                                                             *)
(***************************************************************************)
Holding == {"admitted", "running", "terminating", "reaping", "again", "joining"}

\* has_live_processes: a leader that has exited was reaped just before it is asked.
GroupLive(c) == child[c] = "live" \/ rest[c] = "live"

\* signal_group(KILL): the processes that can be signalled are gone.
Killed(c) ==
    /\ child' = [child EXCEPT ![c] = IF @ = "live" THEN "exited" ELSE @]
    /\ rest' = [rest EXCEPT ![c] = IF @ = "live" THEN "gone" ELSE @]

\* Mutant: the tree has no destructor.
TreeLeft(c) == UNCHANGED <<child, rest>>

\* Dropping the ChildTree kills the group; a failure of the signal is ignored.
TreeDropped(c) == IF c \in Immune THEN UNCHANGED <<child, rest>> ELSE Killed(c)

Goto(c, p) == phase' = [phase EXCEPT ![c] = p]

NoReaders == [s \in Streams |-> "off"]

\* The call returns: run drops the permit that run_admitted was called under.
Return(c, a) ==
    /\ Goto(c, "returned")
    /\ answer' = [answer EXCEPT ![c] = a]
    /\ free' = IF phase[c] \in Holding THEN free + 1 ELSE free
    /\ reader' = [reader EXCEPT ![c] = NoReaders]
    /\ input' = [input EXCEPT ![c] = "off"]
    /\ exit' = [exit EXCEPT ![c] = FALSE]
    /\ stop' = [stop EXCEPT ![c] = "none"]
    /\ failed' = [failed EXCEPT ![c] = FALSE]
    /\ cancelled' = [cancelled EXCEPT ![c] = FALSE]
    /\ expired' = [expired EXCEPT ![c] = FALSE]

\* The call goes on: nothing is returned and no permit changes hands.
Stays == UNCHANGED <<answer, free>>

Init ==
    /\ phase = [c \in Commands |-> "idle"]
    /\ answer = [c \in Commands |-> "none"]
    /\ free = Permits
    /\ child = [c \in Commands |-> "none"]
    /\ rest = [c \in Commands |-> "none"]
    /\ reader = [c \in Commands |-> NoReaders]
    /\ input = [c \in Commands |-> "off"]
    /\ exit = [c \in Commands |-> FALSE]
    /\ stop = [c \in Commands |-> "none"]
    /\ failed = [c \in Commands |-> FALSE]
    /\ cancelled = [c \in Commands |-> FALSE]
    /\ expired = [c \in Commands |-> FALSE]

(***************************************************************************)
(* Admission: validate_input, then the biased race of the guard, the        *)
(* deadline and the semaphore.                                              *)
(***************************************************************************)
Enter(c) ==
    /\ phase[c] = "idle"
    /\ Goto(c, "waiting") /\ Stays
    /\ UNCHANGED <<tree, io, stop, failed, cancelled, expired>>

InputRefused(c) ==
    /\ phase[c] = "idle"
    /\ \E a \in {"refused", "limit"} : Return(c, a)
    /\ UNCHANGED tree

CancelledWaiting(c) ==
    /\ phase[c] = "waiting" /\ cancelled[c]
    /\ Return(c, "cancelled")
    /\ UNCHANGED tree

ExpiredWaiting(c) ==
    /\ phase[c] = "waiting" /\ ~cancelled[c] /\ expired[c]
    /\ Return(c, "limit")
    /\ UNCHANGED tree

Admit(c) ==
    /\ phase[c] = "waiting" /\ ~cancelled[c] /\ ~expired[c]
    /\ free > 0
    /\ free' = free - 1
    /\ Goto(c, "admitted")
    /\ UNCHANGED <<answer, tree, io, stop, failed, cancelled, expired>>

(***************************************************************************)
(* run_admitted: the command is built and spawned as the leader of a new     *)
(* process group; its pipes are handed to two reader tasks and to            *)
(* write_input.                                                              *)
(***************************************************************************)
BuildFails(c) ==
    /\ phase[c] = "admitted"
    /\ Return(c, "refused")
    /\ UNCHANGED tree

Spawn(c) ==
    /\ phase[c] = "admitted"
    /\ Goto(c, "running") /\ Stays
    /\ child' = [child EXCEPT ![c] = "live"]
    /\ reader' = [reader EXCEPT ![c] = [s \in Streams |-> "reading"]]
    /\ \E w \in {"writing", "done"} : input' = [input EXCEPT ![c] = w]
    /\ UNCHANGED <<rest, exit, stop, failed, cancelled, expired>>

(***************************************************************************)
(* The loop of run_admitted.  An output over its ceiling and the end of all *)
(* four are looked at before the next race, so a cancellation that comes     *)
(* after the last of the four is too late.                                   *)
(***************************************************************************)
Over(c)     == \E s \in Streams : reader[c][s] = "over"
Complete(c) == /\ \A s \in Streams : reader[c][s] = "done"
               /\ input[c] = "done" /\ exit[c]
Racing(c)   == phase[c] = "running" /\ ~Over(c) /\ ~Complete(c)

\* The loop breaks with a stop: the input is dropped and cleanup_tree sends
\* SIGTERM to the group, whose processes may ignore it.  Nobody looks at the
\* guard, the deadline or the exit status any more.
StopWith(c, cause) ==
    /\ Goto(c, "terminating") /\ Stays
    /\ stop' = [stop EXCEPT ![c] = cause]
    /\ input' = [input EXCEPT ![c] = "off"]
    /\ exit' = [exit EXCEPT ![c] = FALSE]
    /\ cancelled' = [cancelled EXCEPT ![c] = FALSE]
    /\ expired' = [expired EXCEPT ![c] = FALSE]
    /\ UNCHANGED failed

OutputLimit(c) ==
    /\ phase[c] = "running" /\ Over(c)
    /\ StopWith(c, "limit")
    /\ UNCHANGED <<tree, reader>>

Succeed(c) ==
    /\ phase[c] = "running" /\ ~Over(c) /\ Complete(c)
    /\ Return(c, "ok")
    /\ TreeDropped(c)

StopCancelled(c) ==
    /\ Racing(c) /\ cancelled[c]
    /\ StopWith(c, "cancelled")
    /\ UNCHANGED <<tree, reader>>

\* A reader task ends: at the end of the stream, one byte past the limit, or
\* with an error that stops the run.
ReadEnds(c, s) ==
    /\ Racing(c) /\ ~cancelled[c] /\ reader[c][s] = "reading"
    /\ \E r \in {"done", "over"} : reader' = [reader EXCEPT ![c][s] = r]
    /\ Stays
    /\ UNCHANGED <<phase, tree, input, exit, stop, failed, cancelled, expired>>

ReadFails(c, s) ==
    /\ Racing(c) /\ ~cancelled[c] /\ reader[c][s] = "reading"
    /\ StopWith(c, "io")
    /\ reader' = [reader EXCEPT ![c][s] = "failed"]
    /\ UNCHANGED tree

InputEnds(c) ==
    /\ Racing(c) /\ ~cancelled[c] /\ input[c] = "writing"
    /\ input' = [input EXCEPT ![c] = "done"]
    /\ Stays
    /\ UNCHANGED <<phase, tree, reader, exit, stop, failed, cancelled, expired>>

\* The child closed its input, or is gone, before it had read all of it.
InputFails(c) ==
    /\ Racing(c) /\ ~cancelled[c] /\ input[c] = "writing"
    /\ StopWith(c, "io")
    /\ UNCHANGED <<tree, reader>>

StopExpired(c) ==
    /\ Racing(c) /\ ~cancelled[c] /\ expired[c]
    /\ StopWith(c, "limit")
    /\ UNCHANGED <<tree, reader>>

TakeExit(c) ==
    /\ Racing(c) /\ ~cancelled[c] /\ ~expired[c]
    /\ ~exit[c] /\ child[c] = "exited"
    /\ exit' = [exit EXCEPT ![c] = TRUE]
    /\ child' = [child EXCEPT ![c] = "reaped"]
    /\ Stays
    /\ UNCHANGED <<phase, rest, reader, input, stop, failed, cancelled, expired>>

(***************************************************************************)
(* cleanup_tree: SIGTERM has been sent; the group is polled until nothing in *)
(* it answers or the grace is over, then it is killed, and the child is      *)
(* reaped.  Every failure is remembered and outweighs the cause of the stop. *)
(***************************************************************************)
GroupGone(c) ==
    /\ phase[c] = "terminating" /\ ~GroupLive(c)
    /\ child' = [child EXCEPT ![c] = "reaped"]
    /\ Goto(c, "reaping") /\ Stays
    /\ UNCHANGED <<rest, io, stop, failed, cancelled, expired>>

GraceOver(c) ==
    /\ phase[c] = "terminating" /\ GroupLive(c)
    /\ TreeDropped(c)
    /\ failed' = [failed EXCEPT ![c] = c \in Immune]
    /\ Goto(c, "reaping") /\ Stays
    /\ UNCHANGED <<io, stop, cancelled, expired>>

Reap(c) ==
    /\ phase[c] \in {"reaping", "again"} /\ child[c] # "live"
    /\ child' = [child EXCEPT ![c] = "reaped"]
    /\ Goto(c, "joining") /\ Stays
    /\ UNCHANGED <<rest, io, stop, failed, cancelled, expired>>

\* The child outlives the first wait: it is killed alone and waited for once more.
ReapTimesOut(c) ==
    /\ phase[c] \in {"reaping", "again"} /\ child[c] = "live"
    /\ failed' = [failed EXCEPT ![c] = TRUE]
    /\ Goto(c, IF phase[c] = "reaping" THEN "again" ELSE "joining") /\ Stays
    /\ UNCHANGED <<tree, io, stop, cancelled, expired>>

(***************************************************************************)
(* finish_reader, for stdout and then for stderr: a reader task that has not *)
(* ended within its grace is aborted, since a process outside the group may  *)
(* hold the pipe for ever.  A task whose error was already taken by the race *)
(* is joined a second time, which tokio answers with a panic.                *)
(***************************************************************************)
Joining(c, s) ==
    /\ phase[c] = "joining"
    /\ s = "stderr" => reader[c]["stdout"] \notin {"reading", "failed"}

FinishReader(c, s) ==
    /\ Joining(c, s) /\ reader[c][s] = "reading"
    /\ \E r \in {"done", "aborted"} : reader' = [reader EXCEPT ![c][s] = r]
    /\ Stays
    /\ UNCHANGED <<phase, tree, input, exit, stop, failed, cancelled, expired>>

JoinTwice(c, s) ==
    /\ Joining(c, s) /\ reader[c][s] = "failed"
    /\ Return(c, "panicked")
    /\ TreeDropped(c)

AnswerStop(c) ==
    /\ phase[c] = "joining"
    /\ \A s \in Streams : reader[c][s] \notin {"reading", "failed"}
    /\ Return(c, IF failed[c] THEN "cleanup" ELSE stop[c])
    /\ TreeDropped(c)

\* The caller drops the call: the tree kills its group, kill_on_drop the child.
Abandon(c) ==
    /\ phase[c] \in Holding \cup {"waiting"}
    /\ Return(c, "dropped")
    /\ TreeDropped(c)

(***************************************************************************)
(* What the guard, the clock and the started processes do meanwhile.        *)
(***************************************************************************)
Cancel(c) ==
    /\ phase[c] \in {"waiting", "admitted", "running"} /\ ~cancelled[c]
    /\ cancelled' = [cancelled EXCEPT ![c] = TRUE]
    /\ UNCHANGED <<phase, answer, free, tree, io, stop, failed, expired>>

\* Mutant: the deadline is for the admission only.
DeadlineWaitingOnly(c) ==
    /\ phase[c] = "waiting" /\ ~expired[c]
    /\ expired' = [expired EXCEPT ![c] = TRUE]
    /\ UNCHANGED <<phase, answer, free, tree, io, stop, failed, cancelled>>

DeadlinePasses(c) ==
    /\ phase[c] \in {"waiting", "admitted", "running"} /\ ~expired[c]
    /\ expired' = [expired EXCEPT ![c] = TRUE]
    /\ UNCHANGED <<phase, answer, free, tree, io, stop, failed, cancelled>>

ChildExits(c) ==
    /\ child[c] = "live"
    /\ child' = [child EXCEPT ![c] = "exited"]
    /\ UNCHANGED <<phase, answer, free, rest, io, stop, failed, cancelled, expired>>

Fork(c) ==
    /\ child[c] = "live" /\ rest[c] = "none"
    /\ rest' = [rest EXCEPT ![c] = "live"]
    /\ UNCHANGED <<phase, answer, free, child, io, stop, failed, cancelled, expired>>

RestEnds(c) ==
    /\ rest[c] = "live"
    /\ rest' = [rest EXCEPT ![c] = "gone"]
    /\ UNCHANGED <<phase, answer, free, child, io, stop, failed, cancelled, expired>>

Executor(c) ==
    \/ CancelledWaiting(c) \/ ExpiredWaiting(c) \/ Admit(c)
    \/ BuildFails(c) \/ Spawn(c)
    \/ OutputLimit(c) \/ Succeed(c) \/ StopCancelled(c) \/ StopExpired(c) \/ TakeExit(c)
    \/ GroupGone(c) \/ GraceOver(c) \/ Reap(c) \/ ReapTimesOut(c)
    \/ AnswerStop(c)
    \/ \E s \in Streams : FinishReader(c, s) \/ JoinTwice(c, s)

Pipes(c) ==
    \/ InputEnds(c) \/ InputFails(c)
    \/ \E s \in Streams : ReadEnds(c, s) \/ ReadFails(c, s)

Processes(c) ==
    \/ ChildExits(c) \/ Fork(c) \/ RestEnds(c)

Next ==
    \E c \in Commands :
        \/ Enter(c) \/ InputRefused(c) \/ Executor(c) \/ Pipes(c)
        \/ Abandon(c) \/ Cancel(c) \/ DeadlinePasses(c) \/ Processes(c)

(***************************************************************************)
(* The runtime polls a run that can go on, and the clock reaches its        *)
(* deadline; nothing is assumed of the processes or of the pipes.           *)
(***************************************************************************)
Fairness == \A c \in Commands : WF_vars(Executor(c)) /\ WF_vars(DeadlinePasses(c))

Spec == Init /\ [][Next]_vars /\ Fairness

TypeOK ==
    /\ phase \in [Commands -> {"idle", "waiting", "returned"} \cup Holding]
    /\ answer \in [Commands -> {"none"} \cup Outcomes]
    /\ free \in 0..Permits
    /\ child \in [Commands -> {"none", "live", "exited", "reaped"}]
    /\ rest \in [Commands -> {"none", "live", "gone"}]
    /\ reader \in [Commands -> [Streams ->
                    {"off", "reading", "done", "over", "failed", "aborted"}]]
    /\ input \in [Commands -> {"off", "writing", "done"}]
    /\ exit \in [Commands -> BOOLEAN]
    /\ stop \in [Commands -> {"none", "limit", "cancelled", "io"}]
    /\ failed \in [Commands -> BOOLEAN]
    /\ cancelled \in [Commands -> BOOLEAN]
    /\ expired \in [Commands -> BOOLEAN]

(***************************************************************************)
(* Properties.                                                              *)
(***************************************************************************)
\* The permits taken are the calls between admission and return: a permit
\* outlives the clean-up of the tree it was taken for, on every way out.
PermitsHeld ==
    free + Cardinality({c \in Commands : phase[c] \in Holding}) = Permits

\* "returns only after tree cleanup and reap": a call that returned leaves no
\* process of its group behind, however it ended; if a signal could not end
\* them, a run that was stopped says so.
ReturnedMeansGone ==
    \A c \in Commands :
        phase[c] = "returned" /\ GroupLive(c) =>
            /\ c \in Immune
            /\ answer[c] \in {"cleanup", "ok", "dropped", "panicked"}

\* No more trees are alive than there are permits, the ones of returned,
\* dropped and stopped calls counted.
TreesBounded ==
    Cardinality({c \in Commands \ Immune : GroupLive(c)}) <= Permits

\* Every call returns, whatever the child does with its signals and its pipes
\* and whoever holds a permit (a call is made once, and stays returned).
RunsReturn == []<>(\A c \in Commands : phase[c] \in {"idle", "returned"})
=============================================================================
