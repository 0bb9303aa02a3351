------------------------- MODULE RequestCancellations -------------------------
(***************************************************************************)
(* How a tools/call is cancelled (resourcefs-mcp server.rs).  The transport  *)
(* counts the calls that are in flight under a request id and keeps one       *)
(* watch channel for them; the handler subscribes to it and runs the tool in  *)
(* a biased race with it; the lease it holds gives the count back.  The id    *)
(* is the client's: nothing stops two calls from having the same one.         *)
(***************************************************************************)
EXTENDS Naturals, FiniteSets

CONSTANTS Calls,      \* the calls of a behaviour
          Ids,        \* request ids
          IdOf,       \* the id of each call
          Mutations   \* the calls of rfs_write and rfs_edit

VARIABLES
    entry,     \* active: per id the requests that count and their channel
    channels,  \* number of channels made so far
    flagged,   \* channels whose value is true
    phase,     \* where each call is
    channel,   \* the channel each call subscribed to
    answer,    \* how each call ended, "none" before
    meant,     \* calls a cancellation is meant for (see Receive and CancelId)
    forwarded  \* cancellations left to rmcp

vars == <<entry, channels, flagged, phase, channel, answer, meant, forwarded>>

Vacant == [requests |-> 0, sender |-> 0]
Active(i) == entry[i].requests > 0

InFlight == {"received", "working", "polled", "committed", "done"}
Flying(i) == {c \in Calls : IdOf[c] = i /\ phase[c] \in InFlight}

Init ==
    /\ entry = [i \in Ids |-> Vacant]
    /\ channels = 0 /\ flagged = {}
    /\ phase = [c \in Calls |-> "new"]
    /\ channel = [c \in Calls |-> 0]
    /\ answer = [c \in Calls |-> "none"]
    /\ meant = {} /\ forwarded = {}

Goto(c, p) == phase' = [phase EXCEPT ![c] = p]

\* Mutant: one channel for an id, whatever became of the calls it was for.
ReceiveReusing(c) ==
    LET i == IdOf[c]
    IN  /\ phase[c] = "new"
        /\ Goto(c, "received")
        /\ channels' = 1
        /\ entry' = [entry EXCEPT ![i] = [requests |-> @.requests + 1, sender |-> 1]]
        /\ meant' = IF Flying(i) \cap meant # {} THEN meant \cup {c} ELSE meant
    /\ UNCHANGED <<flagged, channel, answer, forwarded>>

\* begin: the first request of an id makes a channel, the next ones share it,
\* and with it a cancellation that came while an earlier one is in flight.
Receive(c) ==
    LET i == IdOf[c]
    IN  /\ phase[c] = "new"
        /\ Goto(c, "received")
        /\ \/ /\ ~Active(i)
              /\ channels' = channels + 1
              /\ entry' = [entry EXCEPT ![i] = [requests |-> 1, sender |-> channels']]
           \/ /\ Active(i)
              /\ entry' = [entry EXCEPT ![i].requests = @ + 1]
              /\ UNCHANGED channels
        /\ meant' = IF Flying(i) \cap meant # {} THEN meant \cup {c} ELSE meant
    /\ UNCHANGED <<flagged, channel, answer, forwarded>>

\* A notifications/cancelled: consumed when the id has an entry, else rmcp's.
CancelId(i) ==
    \/ /\ Active(i)
       /\ flagged' = flagged \cup {entry[i].sender}
       /\ meant' = meant \cup Flying(i)
       /\ UNCHANGED <<entry, channels, phase, channel, answer, forwarded>>
    \/ /\ ~Active(i)
       /\ forwarded' = forwarded \cup {i}
       /\ UNCHANGED <<entry, channels, flagged, phase, channel, answer, meant>>

\* call_tool subscribes and takes the lease, or finds no entry and fails.
CallTool(c) ==
    /\ phase[c] = "received"
    /\ IF Active(IdOf[c])
         THEN /\ channel' = [channel EXCEPT ![c] = entry[IdOf[c]].sender]
              /\ Goto(c, "working")
              /\ UNCHANGED answer
         ELSE /\ answer' = [answer EXCEPT ![c] = "unavailable"]
              /\ Goto(c, "answered")
              /\ UNCHANGED channel
    /\ UNCHANGED <<entry, channels, flagged, meant, forwarded>>

\* run_under_cancellation polls the channel first: a cancellation that the
\* guard accepts drops the pending work ...
CancelWins(c) ==
    /\ phase[c] = "working" /\ channel[c] \in flagged
    /\ answer' = [answer EXCEPT ![c] = "cancelled"]
    /\ Goto(c, "done")
    /\ UNCHANGED <<entry, channels, flagged, channel, meant, forwarded>>

\* ... and otherwise the work itself is polled, which may be the moment the
\* channel turns.
PollWork(c) ==
    /\ phase[c] = "working" /\ channel[c] \notin flagged
    /\ Goto(c, "polled")
    /\ UNCHANGED <<entry, channels, flagged, channel, answer, meant, forwarded>>

NotReady(c) ==
    /\ phase[c] = "polled"
    /\ Goto(c, "working")
    /\ UNCHANGED <<entry, channels, flagged, channel, answer, meant, forwarded>>

\* A mutation's guard is committing: from here a cancellation is noted and
\* the result awaited.
Commit(c) ==
    /\ phase[c] = "polled" /\ c \in Mutations
    /\ Goto(c, "committed")
    /\ UNCHANGED <<entry, channels, flagged, channel, answer, meant, forwarded>>

Complete(c) ==
    /\ phase[c] \in {"polled", "committed"}
    /\ answer' = [answer EXCEPT ![c] = "result"]
    /\ Goto(c, "done")
    /\ UNCHANGED <<entry, channels, flagged, channel, meant, forwarded>>

\* The lease is dropped: finish gives the count back, the last one the entry.
Finish(c) ==
    LET i == IdOf[c]
    IN  /\ phase[c] = "done"
        /\ Goto(c, "answered")
        /\ entry' = IF entry[i].requests > 1
                      THEN [entry EXCEPT ![i].requests = @ - 1]
                      ELSE [entry EXCEPT ![i] = Vacant]
    /\ UNCHANGED <<channels, flagged, channel, answer, meant, forwarded>>

Handle(c) ==
    CallTool(c) \/ CancelWins(c) \/ PollWork(c) \/ NotReady(c) \/ Finish(c)

Next ==
    \/ \E c \in Calls : Receive(c) \/ Handle(c) \/ Commit(c) \/ Complete(c)
    \/ \E i \in Ids : CancelId(i)

\* A handler is polled; what a committed mutation waits for ends.  Other work
\* may hang for ever.
Fairness ==
    \A c \in Calls :
        WF_vars(\/ CallTool(c) \/ NotReady(c) \/ CancelWins(c) \/ Finish(c)
                \/ phase[c] = "committed" /\ Complete(c))

Spec == Init /\ [][Next]_vars /\ Fairness

(***************************************************************************)
(* Properties.                                                             *)
(***************************************************************************)
\* An entry counts the calls in flight under its id, so that the end of one
\* does not take the channel of another away, and call_tool never fails for
\* want of its cancellation state.
EntriesCounted ==
    /\ \A i \in Ids : entry[i].requests = Cardinality(Flying(i))
    /\ \A c \in Calls : phase[c] \in {"working", "polled", "committed", "done"} =>
                           channel[c] = entry[IdOf[c]].sender

\* A call answers "cancelled" only for a cancellation that came while it, or a
\* call under the same id it overlaps, was in flight: the cancellation of an
\* earlier call does not reach a later use of the id.
CancelledForCause ==
    \A c \in Calls : answer[c] = "cancelled" => c \in meant

\* A consumed cancellation ends every call it was meant for, work that hangs
\* included (a call is made once, and stays meant and answered).
CancelledCallsEnd == []<>(\A c \in meant : phase[c] = "answered")
=============================================================================
