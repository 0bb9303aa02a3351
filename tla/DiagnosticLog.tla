---------------------------- MODULE DiagnosticLog ----------------------------
(***************************************************************************)
(* The diagnostic log (resourcefs-mcp logging.rs): tracing events go through *)
(* a bounded queue to one drain thread, which writes them with whatever else *)
(* the process logs to one destination behind a mutex.  A file destination   *)
(* rotates through a family of files, one rename after another, each of which *)
(* may fail, and the process may stop between any two of them.               *)
(*                                                                         *)
(* A record weighs one unit of rotationBytes; a file of the family is the     *)
(* sequence of the positions its records have in "written".                   *)
(***************************************************************************)
EXTENDS Naturals, Sequences, Weights

CONSTANTS Levels,        \* configured levels the process may be started with
          EventKinds,    \* [level, own]: what the traced code emits
          QueueDepth,    \* TRACING_QUEUE_DEPTH
          RotationUnits, \* rotationBytes
          Retained,      \* retainFiles
          MaxEvents,     \* bound on the events of a behaviour
          MaxRecords,    \* bound on the records after which the server writes no more
          MaxFaults      \* bound on failed steps of a write and on crashes

VARIABLES
    level,    \* the configured level: 0 error, 1 warn, 2 info, 3 debug
    queue,    \* the events between on_event and the drain
    dropped,  \* BridgeState.dropped
    refused,  \* events try_send refused that are not counted yet
    drain,    \* what the drain thread still has to write, in order
    sink,     \* the write that holds the destination, and how far it is
    family,   \* file f of the family, 0 the current one
    emitted,  \* number of events so far
    lost,     \* number of events counted as dropped so far
    silent,   \* dropped events whose report did not become a record
    written,  \* every record appended so far, in order
    faults

vars == <<level, queue, dropped, refused, drain, sink, family, emitted, lost,
          silent, written, faults>>

Warn == 1
Files == 0..(Retained - 1)

\* A record: the events counted as dropped before it was queued, and the
\* number of dropped events it reports.
Event(l) == [level |-> l, after |-> lost, missed |-> 0]
Report(n) == [level |-> Warn, after |-> 0, missed |-> n]

Free == [pc |-> "free", record |-> Report(0), from |-> "nobody", file |-> 0]

\* Dropped events the first n records report.
Reported(n) == Weight([k \in 1..n |-> written[k].missed])

Admits(l) == l <= level

\* admits_foreign: ResourceFS's own events go on, a dependency's from WARN up.
AdmitsForeign(e) == e.own \/ level = 3 \/ e.level <= Warn

Init ==
    /\ level \in Levels
    /\ queue = <<>> /\ drain = <<>>
    /\ dropped = 0 /\ refused = 0 /\ lost = 0 /\ silent = 0
    /\ sink = Free
    /\ family = [f \in Files |-> <<>>]
    /\ emitted = 0 /\ written = <<>> /\ faults = 0

bridge == <<queue, dropped, refused, drain, emitted, lost>>
disk   == <<family, written>>

(***************************************************************************)
(* on_event: a full queue refuses the event, and then, in a second step, the *)
(* event is counted.                                                        *)
(***************************************************************************)
Emit(e) ==
    /\ emitted < MaxEvents
    /\ AdmitsForeign(e)
    /\ emitted' = emitted + 1
    /\ \/ /\ Len(queue) < QueueDepth
          /\ queue' = Append(queue, Event(e.level))
          /\ UNCHANGED refused
       \/ /\ Len(queue) = QueueDepth
          /\ refused' = refused + 1
          /\ UNCHANGED queue
    /\ UNCHANGED <<level, dropped, drain, sink, lost, silent, faults, disk>>

CountDropped ==
    /\ refused > 0
    /\ refused' = refused - 1
    /\ dropped' = dropped + 1
    /\ lost' = lost + 1
    /\ UNCHANGED <<level, queue, drain, sink, emitted, silent, faults, disk>>

\* The drain takes an event, and with it the count of the dropped ones.
Receive ==
    /\ drain = <<>> /\ queue # <<>>
    /\ queue' = Tail(queue)
    /\ dropped' = 0
    /\ drain' = (IF dropped > 0 THEN <<Report(dropped)>> ELSE <<>>) \o <<Head(queue)>>
    /\ UNCHANGED <<level, refused, sink, emitted, lost, silent, faults, disk>>

(***************************************************************************)
(* LogSink::write: a record the level does not admit is not written, any     *)
(* other waits for the destination.  The drain ignores what a write answers. *)
(***************************************************************************)
Writers == {"drain", "server"}

\* The drain is done with its first record, written or not.
Done(w) == drain' = IF w = "drain" THEN Tail(drain) ELSE drain

Silenced(r) == silent' = silent + r.missed

\* What each writer has to write: the drain its next record, the server its
\* own error records.
Pending(w) == IF w = "drain" THEN {drain[i] : i \in DOMAIN drain \cap {1}}
                  ELSE {[level |-> 0, after |-> 0, missed |-> 0]}

WriteRefused(w) ==
    /\ \E r \in Pending(w) : ~Admits(r.level) /\ Silenced(r)
    /\ w = "drain" => sink.from # "drain"
    /\ Done(w)
    /\ UNCHANGED <<level, queue, dropped, refused, sink, family, emitted, lost, written, faults>>

\* The destination is locked; a file that would grow past its ceiling rotates.
Rotates == family[0] # <<>> /\ (RotationUnits = 0 \/ Len(family[0]) + 1 > RotationUnits)

WriteBegins(w) ==
    /\ sink = Free
    /\ w = "server" => Len(written) < MaxRecords
    /\ \E r \in Pending(w) :
        /\ Admits(r.level)
        /\ sink' = [pc |-> IF Rotates THEN "remove" ELSE "append",
                    record |-> r, from |-> w, file |-> Retained - 1]
    /\ UNCHANGED <<level, bridge, silent, disk, faults>>

\* rotate: the oldest file, the current one when one file is kept, is removed.
RemoveOldest ==
    /\ sink.pc = "remove"
    /\ family' = [family EXCEPT ![Retained - 1] = <<>>]
    /\ sink' = [sink EXCEPT !.pc = IF Retained = 1 THEN "append" ELSE "rename"]
    /\ UNCHANGED <<level, bridge, silent, written, faults>>

\* Mutant: the younger file is copied and stays where it was.
RenameCopying ==
    /\ sink.pc = "rename"
    /\ family' = IF family[sink.file - 1] = <<>> THEN family
                 ELSE [family EXCEPT ![sink.file] = family[sink.file - 1]]
    /\ sink' = IF sink.file = 1 THEN [sink EXCEPT !.pc = "append"]
                                ELSE [sink EXCEPT !.file = @ - 1]
    /\ UNCHANGED <<level, bridge, silent, written, faults>>

\* rename_if_exists from the next younger file: a missing one is passed over.
Rename ==
    /\ sink.pc = "rename"
    /\ family' = IF family[sink.file - 1] = <<>> THEN family
                 ELSE [family EXCEPT ![sink.file] = family[sink.file - 1],
                                     ![sink.file - 1] = <<>>]
    /\ sink' = IF sink.file = 1 THEN [sink EXCEPT !.pc = "append"]
                                ELSE [sink EXCEPT !.file = @ - 1]
    /\ UNCHANGED <<level, bridge, silent, written, faults>>

AppendRecord ==
    /\ sink.pc = "append"
    /\ written' = Append(written, sink.record)
    /\ family' = [family EXCEPT ![0] = Append(@, Len(written'))]
    /\ sink' = Free
    /\ Done(sink.from)
    /\ UNCHANGED <<level, queue, dropped, refused, emitted, lost, silent, faults>>

\* A step of the write fails: the rest of the write is skipped.
WriteFails ==
    /\ sink # Free /\ faults < MaxFaults
    /\ faults' = faults + 1
    /\ Silenced(sink.record)
    /\ sink' = Free
    /\ Done(sink.from)
    /\ UNCHANGED <<level, queue, dropped, refused, family, emitted, lost, written>>

(***************************************************************************)
(* The process stops at any point and is started again on the same files.   *)
(* What the bridge held is gone with it.                                    *)
(***************************************************************************)
Crash ==
    /\ faults < MaxFaults
    /\ faults' = faults + 1
    /\ queue' = <<>> /\ drain' = <<>>
    /\ dropped' = 0 /\ refused' = 0
    /\ silent' = lost - Reported(Len(written))
    /\ sink' = Free
    /\ UNCHANGED <<level, family, emitted, lost, written>>

Next ==
    \/ \E e \in EventKinds : Emit(e)
    \/ CountDropped \/ Receive
    \/ \E w \in Writers : WriteRefused(w) \/ WriteBegins(w)
    \/ RemoveOldest \/ Rename \/ AppendRecord \/ WriteFails
    \/ Crash

\* The drain thread goes on with what it took, and the lock is handed to it.
Fairness ==
    /\ WF_vars(CountDropped) /\ WF_vars(Receive)
    /\ WF_vars(WriteRefused("drain")) /\ SF_vars(WriteBegins("drain"))
    /\ WF_vars(RemoveOldest \/ Rename \/ AppendRecord)

Spec == Init /\ [][Next]_vars /\ Fairness

(***************************************************************************)
(* Properties.                                                             *)
(***************************************************************************)
\* Records in the files younger than f.
Younger(f) == Weight([g \in 0..(f - 1) |-> Len(family[g])])

\* Read from the oldest file to the current one, the family is the end of the
\* log as it was written: whatever step of a rotation failed or was cut off,
\* nothing is out of order, repeated or missing in the middle, and no file has
\* grown past its ceiling by more than the one record that exceeds it alone.
FamilyIsTail ==
    \A f \in Files :
        /\ \A i \in 1..Len(family[f]) :
              family[f][i] = Len(written) - Younger(f) - Len(family[f]) + i
        /\ Len(family[f]) <= RotationUnits \/ Len(family[f]) = 1

\* "a dropped diagnostic is a visible gap": a record queued after an event was
\* counted as dropped is preceded in the log by the report of that event, when
\* no write of a report failed or was refused.
GapsPrecede ==
    \A k \in 1..Len(written) : written[k].after <= Reported(k - 1) + silent
=============================================================================
